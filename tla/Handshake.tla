----------------------------- MODULE Handshake -----------------------------
(***************************************************************************)
(* HELLO, ACCEPT and FINISH: classes InitiatorSession and ResponderSession *)
(* of include/new_mavlink/session.hpp and src/session.cpp, over a network  *)
(* that loses, repeats, delays and alters what it carries.  Either end may *)
(* restart, with a new object and a nonce it has not used before.          *)
(*                                                                         *)
(* An action is a call that returns true, and Session0 the one call that   *)
(* returns false after it has changed something.                           *)
(***************************************************************************)
EXTENDS Naturals

CONSTANTS
  InitiatorId, ResponderId,
  ClientNonces, ServerNonces,  \* the nonces the callers draw
  Capabilities,                \* values of Hello::capabilities, 0 among them
  ViaCodec,                    \* whether messages go through encode_ and decode_,
                               \*   or are handed over as structures
  XorOp(_, _),                 \* bitwise exclusive or
  None

SessionIds == {XorOp(c, s) : c \in ClientNonces, s \in ServerNonces}

ASSUME HandshakeAssumption ==
  /\ InitiatorId \in Nat \ {0} /\ ResponderId \in Nat \ {0}
  /\ InitiatorId # ResponderId
  /\ ClientNonces \subseteq Nat \ {0} /\ ServerNonces \subseteq Nat \ {0}
  /\ 0 \in Capabilities
  /\ ViaCodec \in BOOLEAN

\* Two pairs of nonces do not meet in one session id: the code relies on the
\* width of the nonces for it.
ASSUME NonceAssumption ==
  \A c, d \in ClientNonces : \A s, t \in ServerNonces :
    XorOp(c, s) = XorOp(d, t) => c = d /\ s = t

VARIABLES
  initiator,    \* the members of the InitiatorSession
  responder,    \* the members of the ResponderSession
  network,      \* every datagram sent
  drawn,        \* history: the nonces drawn
  answered,     \* history: what responders have answered, and their keys
  completed     \* history: what initiators have completed, and their keys

vars == <<initiator, responder, network, drawn, answered, completed>>
-----------------------------------------------------------------------------
\* make_auth: an ideal MAC under the shared psk.
make_auth(input) == <<"auth", input>>

\* Mutant: the authenticator does not cover the hello.
transcript_accept_only(hello, terms) == <<terms>>

\* All fields of the hello, and of the accept but its authenticator.
transcript(hello, terms) == <<hello, terms>>

\* derive_directional_keys, both results of it; an ideal PRF.
derive_directional_keys(session, epoch, first, second) ==
  LET key(label) == <<label, session, epoch, first, second>>
      end(local, peer, tx, rx) ==
        [session_id |-> session, epoch |-> epoch, local_id |-> local,
         peer_id |-> peer, tx |-> key(tx), rx |-> key(rx)]
  IN  [first  |-> end(first, second, "NM-TX", "NM-RX"),
       second |-> end(second, first, "NM-RX", "NM-TX")]

\* A datagram, and whether its crc field holds the CRC of the other bytes:
\* encode_hello computes the CRC and leaves the field 0.
encode_hello(body)  == [kind |-> "Hello", body |-> body, crc |-> FALSE]
encode_accept(body) == [kind |-> "Accept", body |-> body, crc |-> TRUE]
encode_finish(body) == [kind |-> "Finish", body |-> body, crc |-> TRUE]

\* The fields of a datagram that decode_hello, decode_accept, decode_finish
\* check: ids that differ, and neither id, nonce, session or epoch is 0.
complete(body) ==
  /\ body.initiator_id # body.responder_id
  /\ \A f \in DOMAIN body \ {"capabilities", "authenticator"} : body[f] # 0

\* Whether they take the datagram.
decodes(d) ==
  ViaCodec => d.crc /\ complete(IF d.kind = "Accept" THEN d.body.terms ELSE d.body)

\* A value that is no authenticator, and those that are on the network.
Noise == <<"noise">>

Authenticators ==
  {Noise} \cup {d.body.authenticator : d \in {e \in network : e.kind # "Hello"}}

\* What the network may put in place of a field.
Replacements ==
  [initiator_id  |-> {0, InitiatorId, ResponderId},
   responder_id  |-> {0, InitiatorId, ResponderId},
   client_nonce  |-> {0} \cup ClientNonces,
   server_nonce  |-> {0} \cup ServerNonces,
   capabilities  |-> Capabilities,
   session_id    |-> {0} \cup SessionIds,
   epoch         |-> {0, 1, 2},
   authenticator |-> Authenticators]

OneReplaced(body) ==
  UNION {{[body EXCEPT ![f] = x] : x \in Replacements[f]} : f \in DOMAIN body}

\* What a datagram may have become on the way: any one of its fields is
\* another, an authenticator that of another message perhaps.
Altered(d) ==
  IF d.kind = "Accept"
  THEN {[d EXCEPT !.body.terms = x] : x \in OneReplaced(d.body.terms)} \cup
         {[d EXCEPT !.body.authenticator = x] : x \in Authenticators}
  ELSE {[d EXCEPT !.body = x] : x \in OneReplaced(d.body)}

Arrives(d) == decodes(d) /\ \E o \in network : d = o \/ d \in Altered(o)

Candidates == network \cup UNION {Altered(d) : d \in network}

NewInitiator == [started |-> FALSE, established |-> FALSE, hello |-> None, keys |-> None]

NewResponder ==
  [accepted |-> FALSE, established |-> FALSE, hello |-> None, accept |-> None,
   keys |-> None]

Init ==
  /\ initiator = NewInitiator
  /\ responder = NewResponder
  /\ network = {}
  /\ drawn = {}
  /\ answered = {}
  /\ completed = {}
-----------------------------------------------------------------------------
\* InitiatorSession::start, once per object.
Start(nonce) ==
  LET hello == [initiator_id |-> InitiatorId, responder_id |-> ResponderId,
                client_nonce |-> nonce, capabilities |-> 0]
  IN
  /\ ~initiator.started
  /\ <<"client", nonce>> \notin drawn
  /\ initiator' = [initiator EXCEPT !.hello = hello, !.started = TRUE]
  /\ network' = network \cup {encode_hello(hello)}
  /\ drawn' = drawn \cup {<<"client", nonce>>}
  /\ UNCHANGED <<responder, answered, completed>>

\* The checks of ResponderSession::receive_hello.
hello_accepted(hello) ==
  /\ ~responder.accepted
  /\ hello.initiator_id = InitiatorId /\ hello.responder_id = ResponderId
  /\ hello.client_nonce # 0

\* Mutant: the session is named after the client's nonce.
session_of_client(client_nonce, server_nonce) == client_nonce

session_of(client_nonce, server_nonce) == XorOp(client_nonce, server_nonce)

TermsOf(hello, nonce) ==
  [initiator_id |-> InitiatorId, responder_id |-> ResponderId,
   client_nonce |-> hello.client_nonce, server_nonce |-> nonce,
   session_id |-> session_of(hello.client_nonce, nonce), epoch |-> 1]

AcceptOf(hello, nonce) ==
  LET terms == TermsOf(hello, nonce)
  IN  [terms |-> terms, authenticator |-> make_auth(transcript(hello, terms))]

\* ResponderSession::receive_hello.
ReceiveHello(d, nonce) ==
  LET accept == AcceptOf(d.body, nonce)
      keys   == derive_directional_keys(accept.terms.session_id, accept.terms.epoch,
                                        InitiatorId, ResponderId).second
  IN
  /\ d.kind = "Hello" /\ Arrives(d)
  /\ hello_accepted(d.body)
  /\ <<"server", nonce>> \notin drawn
  /\ accept.terms.session_id # 0
  /\ responder' = [responder EXCEPT !.hello = d.body, !.accept = accept,
                                    !.keys = keys, !.accepted = TRUE]
  /\ network' = network \cup {encode_accept(accept)}
  /\ drawn' = drawn \cup {<<"server", nonce>>}
  /\ answered' = answered \cup {[hello |-> d.body, terms |-> accept.terms, keys |-> keys]}
  /\ UNCHANGED <<initiator, completed>>

\* receive_hello when the nonces are equal: the session would be 0, no keys
\* are derived, and the object keeps the hello and may be called again.
Session0(d, nonce) ==
  LET accept == AcceptOf(d.body, nonce) IN
  /\ d.kind = "Hello" /\ Arrives(d)
  /\ hello_accepted(d.body)
  /\ <<"server", nonce>> \notin drawn
  /\ accept.terms.session_id = 0
  /\ responder' = [responder EXCEPT !.hello = d.body, !.accept = accept]
  /\ drawn' = drawn \cup {<<"server", nonce>>}
  /\ UNCHANGED <<initiator, network, answered, completed>>

\* The checks of InitiatorSession::accept.
accept_verified(accept) ==
  /\ initiator.started /\ ~initiator.established
  /\ accept.terms.initiator_id = InitiatorId /\ accept.terms.responder_id = ResponderId
  /\ accept.terms.client_nonce = initiator.hello.client_nonce
  /\ accept.authenticator = make_auth(transcript(initiator.hello, accept.terms))

FinishInput(session, epoch) == <<InitiatorId, ResponderId, session, epoch>>

\* InitiatorSession::accept.
AcceptReceived(d) ==
  LET terms == d.body.terms
      keys  == derive_directional_keys(terms.session_id, terms.epoch,
                                       InitiatorId, ResponderId).first
  IN
  /\ d.kind = "Accept" /\ Arrives(d)
  /\ accept_verified(d.body)
  /\ initiator' = [initiator EXCEPT !.keys = keys, !.established = TRUE]
  /\ network' = network \cup
       {encode_finish([initiator_id |-> InitiatorId, responder_id |-> ResponderId,
                       session_id |-> terms.session_id, epoch |-> terms.epoch,
                       authenticator |->
                         make_auth(FinishInput(terms.session_id, terms.epoch))])}
  /\ completed' = completed \cup {[hello |-> initiator.hello, terms |-> terms, keys |-> keys]}
  /\ UNCHANGED <<responder, drawn, answered>>

\* Mutant: the authenticator of a finish is compared, and its session is not.
finish_verified_any_session(finish) ==
  /\ responder.accepted /\ ~responder.established
  /\ finish.initiator_id = InitiatorId /\ finish.responder_id = ResponderId
  /\ finish.authenticator = make_auth(FinishInput(finish.session_id, finish.epoch))

\* The checks of ResponderSession::finish.
finish_verified(finish) ==
  /\ responder.accepted /\ ~responder.established
  /\ finish.initiator_id = InitiatorId /\ finish.responder_id = ResponderId
  /\ finish.session_id = responder.accept.terms.session_id
  /\ finish.epoch = responder.accept.terms.epoch
  /\ finish.authenticator = make_auth(FinishInput(finish.session_id, finish.epoch))

\* ResponderSession::finish.
FinishReceived(d) ==
  /\ d.kind = "Finish" /\ Arrives(d)
  /\ finish_verified(d.body)
  /\ responder' = [responder EXCEPT !.established = TRUE]
  /\ UNCHANGED <<initiator, network, drawn, answered, completed>>

\* An end starts again, with a new object.
RestartInitiator ==
  /\ initiator.started
  /\ initiator' = NewInitiator
  /\ UNCHANGED <<responder, network, drawn, answered, completed>>

RestartResponder ==
  /\ responder # NewResponder
  /\ responder' = NewResponder
  /\ UNCHANGED <<initiator, network, drawn, answered, completed>>

Next ==
  \/ \E nonce \in ClientNonces : Start(nonce)
  \/ \E d \in Candidates, nonce \in ServerNonces :
       ReceiveHello(d, nonce) \/ Session0(d, nonce)
  \/ \E d \in Candidates : AcceptReceived(d) \/ FinishReceived(d)
  \/ RestartInitiator
  \/ RestartResponder

Spec == Init /\ [][Next]_vars
-----------------------------------------------------------------------------
\* The two ends of one key pair.
Mirrored(i, r) ==
  /\ i.session_id = r.session_id /\ i.epoch = r.epoch
  /\ i.local_id = r.peer_id /\ i.peer_id = r.local_id
  /\ i.tx = r.rx /\ i.rx = r.tx

\* An initiator that is established has the same view as a responder that
\* answered it: the same hello, every field of it, the same terms, and the
\* other end of its keys (session.cpp:82-85), whatever the network altered.
InitiatorAgrees ==
  initiator.established =>
    \E a \in answered : \E c \in completed :
      /\ c.keys = initiator.keys
      /\ a.hello = initiator.hello /\ a.terms = c.terms
      /\ Mirrored(initiator.keys, a.keys)

\* A responder that is established was finished by an initiator that has
\* accepted this very answer, of this very object (session.cpp:97-98): a
\* finish that belongs to the session of an earlier object does not do.
ResponderAgrees ==
  responder.established =>
    \E c \in completed :
      /\ c.hello = responder.hello /\ c.terms = responder.accept.terms
      /\ Mirrored(c.keys, responder.keys)

\* Two answers never have the same keys, even to one hello that arrives again
\* after a restart: what is sealed in a new session is under new keys.
KeysFresh ==
  \A a, b \in answered : a.keys = b.keys => a = b

\* What the initiator sends as a HELLO, its peer can decode.
HelloDecodes ==
  \A d \in network : d.kind = "Hello" => decodes(d)
=============================================================================
