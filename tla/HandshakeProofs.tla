-------------------------- MODULE HandshakeProofs --------------------------
(***************************************************************************)
(* Theorems about Handshake: agreement of the two ends and fresh keys, for *)
(* any sets of nonces, with messages handed over as structures or through  *)
(* the codecs.                                                             *)
(***************************************************************************)
EXTENDS Handshake, TLAPS

FirstKeys(i)  == derive_directional_keys(i, 1, InitiatorId, ResponderId).first
SecondKeys(i) == derive_directional_keys(i, 1, InitiatorId, ResponderId).second

Hellos ==
  [initiator_id : {InitiatorId}, responder_id : {ResponderId},
   client_nonce : ClientNonces, capabilities : Capabilities]

\* A hello as it may arrive.
ArrivingHellos ==
  [initiator_id : {0, InitiatorId, ResponderId}, responder_id : {0, InitiatorId, ResponderId},
   client_nonce : {0} \cup ClientNonces, capabilities : Capabilities]

\* Terms as responders write them.
Terms ==
  [initiator_id : {InitiatorId}, responder_id : {ResponderId},
   client_nonce : ClientNonces, server_nonce : ServerNonces,
   session_id : SessionIds, epoch : {1}]

\* What a responder has written: the session id is that of the two nonces.
Offered == {t \in Terms : t.session_id = session_of(t.client_nonce, t.server_nonce)}

Answers == {a \in [hello : Hellos, terms : Offered, keys : {SecondKeys(i) : i \in SessionIds}] :
              /\ a.terms.client_nonce = a.hello.client_nonce
              /\ a.keys = SecondKeys(a.terms.session_id)}

HelloDatagrams == [kind : {"Hello"}, body : Hellos, crc : BOOLEAN]

AcceptDatagrams ==
  [kind : {"Accept"}, crc : BOOLEAN,
   body : [terms : Terms,
           authenticator : {make_auth(transcript(h, t)) : h \in Hellos, t \in Terms}]]

FinishDatagrams ==
  [kind : {"Finish"}, crc : BOOLEAN,
   body : [initiator_id : {InitiatorId}, responder_id : {ResponderId},
           session_id : SessionIds, epoch : {1},
           authenticator : {make_auth(FinishInput(i, 1)) : i \in SessionIds}]]

Datagrams == HelloDatagrams \cup AcceptDatagrams \cup FinishDatagrams

\* What the members of the two objects may hold.
HelloMembers  == Hellos \cup {None}
AcceptMembers == {AcceptOf(h, n) : h \in Hellos, n \in ServerNonces} \cup {None}
FirstMembers  == {FirstKeys(i) : i \in SessionIds} \cup {None}
SecondMembers == {SecondKeys(i) : i \in SessionIds} \cup {None}

Initiators ==
  [started : BOOLEAN, established : BOOLEAN, hello : HelloMembers, keys : FirstMembers]

Responders ==
  [accepted : BOOLEAN, established : BOOLEAN, hello : HelloMembers,
   accept : AcceptMembers, keys : SecondMembers]

\* The two ends, what is under way and what has happened are of these types.
HandshakeTypes ==
  /\ initiator \in Initiators
  /\ initiator.started => initiator.hello \in Hellos
  /\ initiator.established => initiator.started
  /\ responder \in Responders
  /\ responder.established => responder.accepted
  /\ network \subseteq Datagrams
  /\ answered \subseteq Answers

\* An authenticator is on the network only if its owner made it: one of an
\* accept covers an answer, one of a finish a completed session.
AuthenticatorsOwned ==
  \A d \in network :
    /\ d.kind = "Accept" =>
         \E a \in answered : d.body.authenticator = make_auth(transcript(a.hello, a.terms))
    /\ d.kind = "Finish" =>
         \E c \in completed :
           d.body.authenticator = make_auth(FinishInput(c.terms.session_id, c.terms.epoch))

\* What an initiator has completed was answered.
CompletedAnswered ==
  \A c \in completed :
    /\ c.keys = FirstKeys(c.terms.session_id)
    /\ \E a \in answered : a.hello = c.hello /\ a.terms = c.terms

\* A nonce of a responder belongs to one answer.
NoncesUsedOnce ==
  /\ \A a \in answered : <<"server", a.terms.server_nonce>> \in drawn
  /\ \A a, b \in answered : a.terms.server_nonce = b.terms.server_nonce => a = b

\* Where the ends stand in this history.
EndsRecorded ==
  /\ initiator.established =>
       \E c \in completed : c.hello = initiator.hello /\ c.keys = initiator.keys
  /\ responder.accepted =>
       [hello |-> responder.hello, terms |-> responder.accept.terms,
        keys |-> responder.keys] \in answered
  /\ responder.established =>
       \E c \in completed : c.hello = responder.hello /\ c.terms = responder.accept.terms

HandshakeInv ==
  /\ HandshakeTypes /\ AuthenticatorsOwned /\ CompletedAnswered
  /\ NoncesUsedOnce /\ EndsRecorded

-----------------------------------------------------------------------------
\* The two results of the key derivation fit together, and name their session.
LEMMA KeysMeaning ==
  ASSUME NEW i
  PROVE  Mirrored(FirstKeys(i), SecondKeys(i)) /\ SecondKeys(i).session_id = i
BY DEF FirstKeys, SecondKeys, Mirrored, derive_directional_keys

\* What an answer says, field by field.
LEMMA AnswerMeaning ==
  ASSUME NEW a \in Answers
  PROVE  /\ a.hello \in Hellos /\ a.terms \in Terms
         /\ a.terms.client_nonce \in ClientNonces /\ a.terms.server_nonce \in ServerNonces
         /\ a.terms.session_id \in SessionIds /\ a.terms.epoch = 1
         /\ a.terms.session_id = XorOp(a.terms.client_nonce, a.terms.server_nonce)
         /\ a.keys = SecondKeys(a.terms.session_id)
BY DEF Answers, Offered, Terms, session_of

\* Answers to one session id are of the same nonces.
LEMMA SessionNames ==
  ASSUME NEW a \in Answers, NEW b \in Answers, a.terms.session_id = b.terms.session_id
  PROVE  a.terms.server_nonce = b.terms.server_nonce
BY AnswerMeaning, NonceAssumption

\* What one replaced field leaves.
LEMMA Replaced ==
  ASSUME NEW body, NEW x \in OneReplaced(body)
  PROVE  \E f \in DOMAIN body : \E y \in Replacements[f] : x = [body EXCEPT ![f] = y]
BY DEF OneReplaced

\* A hello with one field replaced.
LEMMA HelloReplaced ==
  ASSUME NEW h \in Hellos, NEW x \in OneReplaced(h)
  PROVE  x \in ArrivingHellos
<1>1. PICK f \in DOMAIN h : \E y \in Replacements[f] : x = [h EXCEPT ![f] = y]
  BY Replaced
<1>2. PICK y \in Replacements[f] : x = [h EXCEPT ![f] = y]
  BY <1>1
<1>3. h \in ArrivingHellos
  BY DEF Hellos, ArrivingHellos
<1>4. f \in {"initiator_id", "responder_id", "client_nonce", "capabilities"}
  BY DEF Hellos
<1>5. CASE f = "initiator_id"
  BY <1>2, <1>3, <1>5 DEF Replacements, ArrivingHellos
<1>6. CASE f = "responder_id"
  BY <1>2, <1>3, <1>6 DEF Replacements, ArrivingHellos
<1>7. CASE f = "client_nonce"
  BY <1>2, <1>3, <1>7 DEF Replacements, ArrivingHellos
<1>8. CASE f = "capabilities"
  BY <1>2, <1>3, <1>8 DEF Replacements, ArrivingHellos
<1> QED
  BY <1>4, <1>5, <1>6, <1>7, <1>8

\* A finish with one field replaced.
LEMMA FinishReplaced ==
  ASSUME NEW b, "authenticator" \in DOMAIN b, NEW x \in OneReplaced(b)
  PROVE  x.authenticator = b.authenticator \/ x.authenticator \in Authenticators
<1>1. PICK f \in DOMAIN b : \E y \in Replacements[f] : x = [b EXCEPT ![f] = y]
  BY Replaced
<1>2. PICK y \in Replacements[f] : x = [b EXCEPT ![f] = y]
  BY <1>1
<1>3. CASE f = "authenticator"
  BY <1>2, <1>3 DEF Replacements
<1>4. CASE f # "authenticator"
  BY <1>2, <1>4
<1> QED
  BY <1>3, <1>4

\* What arrives is as it was sent but for one field, and its authenticator is one
\* that was sent, or none at all.
LEMMA ArrivalMeaning ==
  ASSUME network \subseteq Datagrams, NEW d, Arrives(d)
  PROVE  /\ d.kind = "Hello" => d.body \in ArrivingHellos
         /\ d.kind # "Hello" => d.body.authenticator \in Authenticators
<1>1. PICK o \in network : d = o \/ d \in Altered(o)
  BY DEF Arrives
<1>2. o \in Datagrams
  OBVIOUS
<1>3. CASE o \in HelloDatagrams
  <2>1. o.kind = "Hello" /\ o.body \in Hellos
    BY <1>3 DEF HelloDatagrams
  <2>2. CASE d \in Altered(o)
    <3>1. PICK x \in OneReplaced(o.body) : d = [o EXCEPT !.body = x]
      BY <2>1, <2>2 DEF Altered
    <3>2. d.kind = "Hello" /\ d.body = x
      BY <1>3, <3>1 DEF HelloDatagrams
    <3> QED
      BY <2>1, <3>1, <3>2, HelloReplaced
  <2>3. CASE d = o
    BY <2>1, <2>3 DEF Hellos, ArrivingHellos
  <2> QED
    BY <1>1, <2>2, <2>3
<1>4. CASE o \in AcceptDatagrams
  <2>1. o.kind = "Accept" /\ o.body.authenticator \in Authenticators
    BY <1>4 DEF AcceptDatagrams, Authenticators
  <2>2. CASE d \in Altered(o)
    <3>1. \/ \E x \in OneReplaced(o.body.terms) : d = [o EXCEPT !.body.terms = x]
          \/ \E x \in Authenticators : d = [o EXCEPT !.body.authenticator = x]
      BY <2>1, <2>2 DEF Altered
    <3>2. /\ d.kind = "Accept"
          /\ \/ d.body.authenticator = o.body.authenticator
             \/ d.body.authenticator \in Authenticators
      BY <1>4, <3>1 DEF AcceptDatagrams
    <3> QED
      BY <2>1, <3>2
  <2> QED
    BY <1>1, <2>1, <2>2
<1>5. CASE o \in FinishDatagrams
  <2>1. /\ o.kind = "Finish" /\ o.body.authenticator \in Authenticators
        /\ "authenticator" \in DOMAIN o.body
    BY <1>5 DEF FinishDatagrams, Authenticators
  <2>2. CASE d \in Altered(o)
    <3>1. PICK x \in OneReplaced(o.body) : d = [o EXCEPT !.body = x]
      BY <2>1, <2>2 DEF Altered
    <3>2. d.kind = "Finish" /\ d.body = x
      BY <1>5, <3>1 DEF FinishDatagrams
    <3> QED
      BY <2>1, <3>1, <3>2, FinishReplaced
  <2> QED
    BY <1>1, <2>1, <2>2
<1> QED
  BY <1>2, <1>3, <1>4, <1>5 DEF Datagrams

\* A hello that arrives and is accepted has the ids and a nonce of these types.
LEMMA HelloTaken ==
  ASSUME NEW h \in ArrivingHellos, hello_accepted(h)
  PROVE  h \in Hellos
BY DEF ArrivingHellos, hello_accepted, Hellos

\* An authenticator that is verified was made by its owner: noise is none, and
\* one of an accept is none of a finish, whose input is another.
LEMMA AcceptOwned ==
  ASSUME AuthenticatorsOwned, network \subseteq Datagrams, NEW h, NEW t,
         make_auth(transcript(h, t)) \in Authenticators
  PROVE  \E a \in answered : a.hello = h /\ a.terms = t
<1>1. make_auth(transcript(h, t)) # Noise
  BY DEF make_auth, Noise
<1>2. PICK o \in network : /\ o.kind # "Hello"
                           /\ o.body.authenticator = make_auth(transcript(h, t))
  BY <1>1 DEF Authenticators
<1>3. o.kind \in {"Accept", "Finish"}
  BY <1>2 DEF Datagrams, HelloDatagrams, AcceptDatagrams, FinishDatagrams
<1>4. \A i, e : FinishInput(i, e) # transcript(h, t)
  BY DEF FinishInput, transcript
<1>5. \A i, e : make_auth(FinishInput(i, e)) # make_auth(transcript(h, t))
  BY <1>4 DEF make_auth
<1>6. PICK a \in answered :
        make_auth(transcript(a.hello, a.terms)) = make_auth(transcript(h, t))
  BY <1>2, <1>3, <1>5 DEF AuthenticatorsOwned
<1> QED
  BY <1>6 DEF make_auth, transcript

LEMMA FinishOwned ==
  ASSUME AuthenticatorsOwned, network \subseteq Datagrams, NEW i, NEW e,
         make_auth(FinishInput(i, e)) \in Authenticators
  PROVE  \E c \in completed : c.terms.session_id = i
<1>1. make_auth(FinishInput(i, e)) # Noise
  BY DEF make_auth, Noise
<1>2. PICK o \in network : /\ o.kind # "Hello"
                           /\ o.body.authenticator = make_auth(FinishInput(i, e))
  BY <1>1 DEF Authenticators
<1>3. o.kind \in {"Accept", "Finish"}
  BY <1>2 DEF Datagrams, HelloDatagrams, AcceptDatagrams, FinishDatagrams
<1>4. \A h, t : FinishInput(i, e) # transcript(h, t)
  BY DEF FinishInput, transcript
<1>5. \A h, t : make_auth(FinishInput(i, e)) # make_auth(transcript(h, t))
  BY <1>4 DEF make_auth
<1>6. PICK c \in completed :
        make_auth(FinishInput(c.terms.session_id, c.terms.epoch)) = make_auth(FinishInput(i, e))
  BY <1>2, <1>3, <1>5 DEF AuthenticatorsOwned
<1> QED
  BY <1>6 DEF make_auth, FinishInput

\* An answer to a hello of these types, and its datagram.
LEMMA AnswerOf ==
  ASSUME NEW h \in Hellos, NEW n \in ServerNonces
  PROVE  /\ AcceptOf(h, n).terms = TermsOf(h, n)
         /\ TermsOf(h, n) \in Terms
         /\ TermsOf(h, n).server_nonce = n /\ TermsOf(h, n).epoch = 1
         /\ TermsOf(h, n).session_id \in SessionIds
         /\ AcceptOf(h, n).authenticator = make_auth(transcript(h, TermsOf(h, n)))
         /\ encode_accept(AcceptOf(h, n)) \in Datagrams
         /\ [hello |-> h, terms |-> TermsOf(h, n),
             keys |-> SecondKeys(TermsOf(h, n).session_id)] \in Answers
<1> DEFINE t == TermsOf(h, n)
<1>1. h.client_nonce \in ClientNonces
  BY DEF Hellos
<1>2. session_of(h.client_nonce, n) \in SessionIds
  BY <1>1 DEF session_of, SessionIds
<1>3. /\ t \in Terms /\ t.server_nonce = n /\ t.epoch = 1
      /\ t.client_nonce = h.client_nonce
      /\ t.session_id = session_of(h.client_nonce, n)
  BY <1>1, <1>2 DEF TermsOf, Terms
<1> HIDE DEF t
<1>4. /\ AcceptOf(h, n) = [terms |-> t, authenticator |-> make_auth(transcript(h, t))]
  BY DEF AcceptOf, t
<1>5. encode_accept(AcceptOf(h, n)) \in Datagrams
  BY <1>3, <1>4 DEF encode_accept, Datagrams, AcceptDatagrams
<1>6. t \in Offered
  BY <1>3 DEF Offered
<1>7. [hello |-> h, terms |-> t, keys |-> SecondKeys(t.session_id)] \in Answers
  BY <1>2, <1>3, <1>6 DEF Answers
<1> QED
  BY <1>2, <1>3, <1>4, <1>5, <1>7 DEF t

\* A finish of these types.
LEMMA FinishOf ==
  ASSUME NEW i \in SessionIds
  PROVE  encode_finish([initiator_id |-> InitiatorId, responder_id |-> ResponderId,
                        session_id |-> i, epoch |-> 1,
                        authenticator |-> make_auth(FinishInput(i, 1))]) \in FinishDatagrams
BY DEF encode_finish, FinishDatagrams

\* Nobody has said anything at the start.
LEMMA HandshakeInit == Init => HandshakeInv
BY DEF Init, NewInitiator, NewResponder, HandshakeInv, HandshakeTypes, Initiators,
       Responders, HelloMembers, AcceptMembers, FirstMembers, SecondMembers,
       AuthenticatorsOwned, CompletedAnswered, NoncesUsedOnce, EndsRecorded

\* A HELLO is sent: it adds no authenticator.
LEMMA StartStep ==
  ASSUME HandshakeInv, NEW nonce \in ClientNonces, Start(nonce)
  PROVE  HandshakeInv'
<1> DEFINE hello == [initiator_id |-> InitiatorId, responder_id |-> ResponderId,
                     client_nonce |-> nonce, capabilities |-> 0]
<1> USE DEF HandshakeInv
<1>1. hello \in Hellos
  BY HandshakeAssumption DEF Hellos
<1>2. /\ initiator' = [initiator EXCEPT !.hello = hello, !.started = TRUE]
      /\ network' = network \cup {encode_hello(hello)}
      /\ drawn \subseteq drawn'
      /\ UNCHANGED <<responder, answered, completed>>
      /\ ~initiator.started
  BY DEF Start
<1> HIDE DEF hello
<1>3. encode_hello(hello) \in Datagrams /\ encode_hello(hello).kind = "Hello"
  BY <1>1 DEF encode_hello, Datagrams, HelloDatagrams
<1>4. /\ initiator' \in Initiators
      /\ initiator'.started /\ initiator'.hello \in Hellos /\ ~initiator'.established
  BY <1>1, <1>2 DEF HandshakeTypes, Initiators, HelloMembers
<1>5. HandshakeTypes'
  BY <1>2, <1>3, <1>4 DEF HandshakeTypes
<1>6. AuthenticatorsOwned'
  BY <1>2, <1>3 DEF AuthenticatorsOwned
<1>7. EndsRecorded'
  BY <1>2, <1>4 DEF EndsRecorded
<1>8. CompletedAnswered' /\ NoncesUsedOnce'
  BY <1>2 DEF CompletedAnswered, NoncesUsedOnce
<1> QED
  BY <1>5, <1>6, <1>7, <1>8

\* A HELLO is answered, with a nonce that no answer has had.
LEMMA ReceiveHelloStep ==
  ASSUME HandshakeInv, NEW d, NEW nonce \in ServerNonces, ReceiveHello(d, nonce)
  PROVE  HandshakeInv'
<1> DEFINE h == d.body
           t == TermsOf(h, nonce)
           a == [hello |-> h, terms |-> t, keys |-> SecondKeys(t.session_id)]
<1> USE DEF HandshakeInv
<1>1. h \in Hellos
  BY ArrivalMeaning, HelloTaken DEF ReceiveHello, HandshakeTypes
<1>2. /\ AcceptOf(h, nonce).terms = t
      /\ t \in Terms /\ t.server_nonce = nonce /\ t.epoch = 1
      /\ t.session_id \in SessionIds
      /\ AcceptOf(h, nonce).authenticator = make_auth(transcript(h, t))
      /\ encode_accept(AcceptOf(h, nonce)) \in Datagrams
      /\ a \in Answers
  BY <1>1, AnswerOf
<1>3. SecondKeys(t.session_id) \in SecondMembers
  BY <1>2 DEF SecondMembers
<1>4. /\ responder' = [responder EXCEPT !.hello = h, !.accept = AcceptOf(h, nonce),
                                        !.keys = SecondKeys(t.session_id),
                                        !.accepted = TRUE]
      /\ network' = network \cup {encode_accept(AcceptOf(h, nonce))}
      /\ drawn' = drawn \cup {<<"server", nonce>>}
      /\ answered' = answered \cup {a}
      /\ UNCHANGED <<initiator, completed>>
      /\ <<"server", nonce>> \notin drawn
      /\ ~responder.accepted
  BY <1>2 DEF ReceiveHello, hello_accepted, SecondKeys
<1> DEFINE x == AcceptOf(h, nonce)
<1>5. x \in AcceptMembers
  BY <1>1 DEF AcceptMembers
<1>6. /\ a.hello = h /\ a.terms = t /\ a.keys = SecondKeys(t.session_id)
      /\ encode_accept(x).kind = "Accept" /\ encode_accept(x).body = x
  BY DEF encode_accept
<1> HIDE DEF x, h, t, a
<1>7. /\ responder' \in Responders
      /\ responder'.accepted /\ responder'.established = responder.established
      /\ responder'.hello = h /\ responder'.accept = x
      /\ responder'.keys = SecondKeys(t.session_id)
  BY <1>1, <1>3, <1>4, <1>5 DEF HandshakeTypes, Responders, HelloMembers, x
<1>8. HandshakeTypes'
  BY <1>2, <1>4, <1>7 DEF HandshakeTypes
<1>9. AuthenticatorsOwned'
  <2> SUFFICES ASSUME NEW e \in network'
               PROVE  /\ e.kind = "Accept" =>
                           \E b \in answered' :
                             e.body.authenticator = make_auth(transcript(b.hello, b.terms))
                      /\ e.kind = "Finish" =>
                           \E c \in completed' :
                             e.body.authenticator =
                               make_auth(FinishInput(c.terms.session_id, c.terms.epoch))
    BY DEF AuthenticatorsOwned
  <2>1. CASE e \in network
    BY <1>4, <2>1 DEF AuthenticatorsOwned
  <2>2. CASE e = encode_accept(x)
    BY <1>2, <1>4, <1>6, <2>2 DEF x
  <2> QED
    BY <1>4, <2>1, <2>2 DEF x
<1>10. CompletedAnswered'
  BY <1>4 DEF CompletedAnswered
<1>11. NoncesUsedOnce'
  <2>1. \A b \in answered : b.terms.server_nonce # nonce
    BY <1>4 DEF NoncesUsedOnce
  <2> QED
    BY <1>2, <1>4, <1>6, <2>1 DEF NoncesUsedOnce
<1>12. EndsRecorded'
  <2>1. ~responder.established
    BY <1>4 DEF HandshakeTypes
  <2>2. [hello |-> responder'.hello, terms |-> responder'.accept.terms,
         keys |-> responder'.keys] \in answered'
    BY <1>2, <1>4, <1>7 DEF a, x
  <2> QED
    BY <1>4, <1>7, <2>1, <2>2 DEF EndsRecorded
<1> QED
  BY <1>8, <1>9, <1>10, <1>11, <1>12

\* The session would be 0: the object keeps the hello, and has not answered.
LEMMA Session0Step ==
  ASSUME HandshakeInv, NEW d, NEW nonce \in ServerNonces, Session0(d, nonce)
  PROVE  HandshakeInv'
<1> DEFINE h == d.body
           x == AcceptOf(h, nonce)
<1> USE DEF HandshakeInv
<1>1. h \in Hellos
  BY ArrivalMeaning, HelloTaken DEF Session0, HandshakeTypes
<1>2. x \in AcceptMembers
  BY <1>1 DEF AcceptMembers
<1>3. /\ responder' = [responder EXCEPT !.hello = h, !.accept = x]
      /\ drawn \subseteq drawn'
      /\ UNCHANGED <<initiator, network, answered, completed>>
      /\ ~responder.accepted
  BY DEF Session0, hello_accepted
<1> HIDE DEF h, x
<1>4. /\ responder' \in Responders
      /\ ~responder'.accepted /\ ~responder'.established
  BY <1>1, <1>2, <1>3 DEF HandshakeTypes, Responders, HelloMembers
<1>5. HandshakeTypes'
  BY <1>3, <1>4 DEF HandshakeTypes
<1>6. EndsRecorded'
  BY <1>3, <1>4 DEF EndsRecorded
<1>7. AuthenticatorsOwned' /\ CompletedAnswered' /\ NoncesUsedOnce'
  BY <1>3 DEF AuthenticatorsOwned, CompletedAnswered, NoncesUsedOnce
<1> QED
  BY <1>5, <1>6, <1>7

\* An ACCEPT is taken: its authenticator was made for this hello and for these
\* terms, so that a responder has answered with them.
LEMMA AcceptStep ==
  ASSUME HandshakeInv, NEW d, AcceptReceived(d)
  PROVE  HandshakeInv'
<1> DEFINE t == d.body.terms
           i == t.session_id
           f == encode_finish([initiator_id |-> InitiatorId, responder_id |-> ResponderId,
                               session_id |-> i, epoch |-> 1,
                               authenticator |-> make_auth(FinishInput(i, 1))])
           c == [hello |-> initiator.hello, terms |-> t, keys |-> FirstKeys(i)]
<1> USE DEF HandshakeInv
<1>1. PICK a \in answered : a.hello = initiator.hello /\ a.terms = t
  <2>1. d.body.authenticator \in Authenticators
    BY ArrivalMeaning DEF AcceptReceived, HandshakeTypes
  <2>2. d.body.authenticator = make_auth(transcript(initiator.hello, t))
    BY DEF AcceptReceived, accept_verified
  <2> QED
    BY <2>1, <2>2, AcceptOwned DEF HandshakeTypes
<1>2. i \in SessionIds /\ t.epoch = 1
  BY <1>1, AnswerMeaning DEF HandshakeTypes
<1>3. /\ initiator' = [initiator EXCEPT !.keys = FirstKeys(i), !.established = TRUE]
      /\ network' = network \cup {f}
      /\ completed' = completed \cup {c}
      /\ UNCHANGED <<responder, drawn, answered>>
      /\ initiator.started
  BY <1>2 DEF AcceptReceived, accept_verified, FirstKeys
<1>5. FirstKeys(i) \in FirstMembers
  BY <1>2 DEF FirstMembers
<1>6. /\ f \in FinishDatagrams /\ f.kind = "Finish"
      /\ f.body.authenticator = make_auth(FinishInput(i, 1))
  BY <1>2, FinishOf DEF encode_finish
<1>7. c.hello = initiator.hello /\ c.terms = t /\ c.keys = FirstKeys(i)
  OBVIOUS
<1> HIDE DEF t, f, c
<1>8. /\ initiator' \in Initiators
      /\ initiator'.started /\ initiator'.established
      /\ initiator'.hello = initiator.hello /\ initiator'.keys = FirstKeys(i)
  BY <1>3, <1>5 DEF HandshakeTypes, Initiators
<1>9. HandshakeTypes'
  BY <1>3, <1>6, <1>8 DEF HandshakeTypes, Datagrams
<1>10. AuthenticatorsOwned'
  <2> SUFFICES ASSUME NEW e \in network'
               PROVE  /\ e.kind = "Accept" =>
                           \E b \in answered' :
                             e.body.authenticator = make_auth(transcript(b.hello, b.terms))
                      /\ e.kind = "Finish" =>
                           \E b \in completed' :
                             e.body.authenticator =
                               make_auth(FinishInput(b.terms.session_id, b.terms.epoch))
    BY DEF AuthenticatorsOwned
  <2>1. CASE e \in network
    BY <1>3, <2>1 DEF AuthenticatorsOwned
  <2>2. CASE e = f
    BY <1>2, <1>3, <1>6, <1>7, <2>2
  <2> QED
    BY <1>3, <2>1, <2>2
<1>11. CompletedAnswered'
  BY <1>1, <1>3, <1>7 DEF CompletedAnswered
<1>12. NoncesUsedOnce'
  BY <1>3 DEF NoncesUsedOnce
<1>13. EndsRecorded'
  BY <1>3, <1>7, <1>8 DEF EndsRecorded
<1> QED
  BY <1>9, <1>10, <1>11, <1>12, <1>13

\* A FINISH is taken: it was made for a completed session of this id, which
\* was answered; only one answer has this id, that of this responder.
LEMMA FinishStep ==
  ASSUME HandshakeInv, NEW d, FinishReceived(d)
  PROVE  HandshakeInv'
<1> DEFINE t == responder.accept.terms
           i == t.session_id
           b == [hello |-> responder.hello, terms |-> t, keys |-> responder.keys]
<1> USE DEF HandshakeInv
<1>1. d.body.authenticator \in Authenticators
  BY ArrivalMeaning DEF FinishReceived, HandshakeTypes
<1>2. /\ responder' = [responder EXCEPT !.established = TRUE]
      /\ UNCHANGED <<initiator, network, drawn, answered, completed>>
      /\ responder.accepted
      /\ d.body.authenticator = make_auth(FinishInput(i, t.epoch))
  BY DEF FinishReceived, finish_verified
<1>3. PICK c \in completed : c.terms.session_id = i
  BY <1>1, <1>2, FinishOwned DEF HandshakeTypes
<1>4. PICK a \in answered : a.hello = c.hello /\ a.terms = c.terms
  BY <1>3 DEF CompletedAnswered
<1>5. b \in answered
  BY <1>2 DEF EndsRecorded
<1>6. b.hello = responder.hello /\ b.terms = t
  OBVIOUS
<1> HIDE DEF b
<1>7. a = b
  <2>1. a \in Answers /\ b \in Answers
    BY <1>4, <1>5 DEF HandshakeTypes
  <2>2. a.terms.session_id = b.terms.session_id
    BY <1>3, <1>4, <1>6
  <2> QED
    BY <1>4, <1>5, <2>1, <2>2, SessionNames DEF NoncesUsedOnce
<1>8. /\ responder' \in Responders
      /\ responder'.accepted /\ responder'.hello = responder.hello
      /\ responder'.accept = responder.accept /\ responder'.keys = responder.keys
  BY <1>2 DEF HandshakeTypes, Responders
<1>9. HandshakeTypes'
  BY <1>2, <1>8 DEF HandshakeTypes
<1>10. EndsRecorded'
  <2>1. c.hello = responder.hello /\ c.terms = responder.accept.terms
    BY <1>4, <1>6, <1>7
  <2> QED
    BY <1>2, <1>8, <2>1 DEF EndsRecorded
<1>11. AuthenticatorsOwned' /\ CompletedAnswered' /\ NoncesUsedOnce'
  BY <1>2 DEF AuthenticatorsOwned, CompletedAnswered, NoncesUsedOnce
<1> QED
  BY <1>9, <1>10, <1>11

\* A new object has done nothing, and what has happened remains.
LEMMA RestartStep ==
  ASSUME HandshakeInv, RestartInitiator \/ RestartResponder
  PROVE  HandshakeInv'
<1> USE DEF HandshakeInv
<1>1. NewInitiator \in Initiators /\ ~NewInitiator.started /\ ~NewInitiator.established
  BY DEF NewInitiator, Initiators, HelloMembers, FirstMembers
<1>2. NewResponder \in Responders /\ ~NewResponder.accepted /\ ~NewResponder.established
  BY DEF NewResponder, Responders, HelloMembers, AcceptMembers, SecondMembers
<1>3. /\ initiator' \in {initiator, NewInitiator}
      /\ responder' \in {responder, NewResponder}
      /\ UNCHANGED <<network, drawn, answered, completed>>
  BY DEF RestartInitiator, RestartResponder
<1>4. HandshakeTypes' /\ EndsRecorded'
  BY <1>1, <1>2, <1>3 DEF HandshakeTypes, EndsRecorded
<1>5. AuthenticatorsOwned' /\ CompletedAnswered' /\ NoncesUsedOnce'
  BY <1>3 DEF AuthenticatorsOwned, CompletedAnswered, NoncesUsedOnce
<1> QED
  BY <1>4, <1>5

\* Every step keeps the invariant.
LEMMA HandshakeStep == HandshakeInv /\ [Next]_vars => HandshakeInv'
<1> SUFFICES ASSUME HandshakeInv, [Next]_vars PROVE HandshakeInv'
  OBVIOUS
<1>1. ASSUME NEW nonce \in ClientNonces, Start(nonce) PROVE HandshakeInv'
  BY <1>1, StartStep
<1>2. ASSUME NEW d, NEW nonce \in ServerNonces, ReceiveHello(d, nonce) \/ Session0(d, nonce)
      PROVE  HandshakeInv'
  BY <1>2, ReceiveHelloStep, Session0Step
<1>3. ASSUME NEW d, AcceptReceived(d) \/ FinishReceived(d) PROVE HandshakeInv'
  BY <1>3, AcceptStep, FinishStep
<1>4. CASE RestartInitiator \/ RestartResponder
  BY <1>4, RestartStep
<1>5. CASE UNCHANGED vars
  BY <1>5 DEF vars, HandshakeInv, HandshakeTypes, AuthenticatorsOwned, CompletedAnswered,
              NoncesUsedOnce, EndsRecorded
<1> QED
  BY <1>1, <1>2, <1>3, <1>4, <1>5 DEF Next

\* HandshakeInv is an invariant of the handshake.
LEMMA HandshakeInvariant == Spec => []HandshakeInv
BY HandshakeInit, HandshakeStep, PTL DEF Spec

-----------------------------------------------------------------------------
\* An initiator that is established agrees with a responder that answered it
\* on the hello, the terms and the keys (session.cpp:82-85), whatever the
\* network altered, repeated or delayed, and whoever restarted.
THEOREM InitiatorAlwaysAgrees == Spec => []InitiatorAgrees
<1>1. HandshakeInv => InitiatorAgrees
  <2> SUFFICES ASSUME HandshakeInv, initiator.established PROVE InitiatorAgrees
    BY DEF InitiatorAgrees
  <2>1. PICK c \in completed : c.hello = initiator.hello /\ c.keys = initiator.keys
    BY DEF HandshakeInv, EndsRecorded
  <2>2. PICK a \in answered : a.hello = c.hello /\ a.terms = c.terms
    BY <2>1 DEF HandshakeInv, CompletedAnswered
  <2>3. c.keys = FirstKeys(c.terms.session_id)
    BY <2>1 DEF HandshakeInv, CompletedAnswered
  <2>4. a.keys = SecondKeys(c.terms.session_id)
    BY <2>2, AnswerMeaning DEF HandshakeInv, HandshakeTypes
  <2>5. Mirrored(initiator.keys, a.keys)
    BY <2>1, <2>3, <2>4, KeysMeaning
  <2> QED
    BY <2>1, <2>2, <2>5 DEF InitiatorAgrees
<1> QED
  BY <1>1, HandshakeInvariant, PTL

\* A responder that is established was finished by an initiator that has
\* completed this very answer of this very object (session.cpp:97-98).
THEOREM ResponderAlwaysAgrees == Spec => []ResponderAgrees
<1>1. HandshakeInv => ResponderAgrees
  <2> SUFFICES ASSUME HandshakeInv, responder.established PROVE ResponderAgrees
    BY DEF ResponderAgrees
  <2> DEFINE t == responder.accept.terms
             a == [hello |-> responder.hello, terms |-> t, keys |-> responder.keys]
  <2>1. PICK c \in completed : c.hello = responder.hello /\ c.terms = t
    BY DEF HandshakeInv, EndsRecorded
  <2>2. a \in answered
    BY DEF HandshakeInv, HandshakeTypes, EndsRecorded
  <2>3. a.terms = t /\ a.keys = responder.keys
    OBVIOUS
  <2> HIDE DEF a
  <2>4. responder.keys = SecondKeys(t.session_id)
    BY <2>2, <2>3, AnswerMeaning DEF HandshakeInv, HandshakeTypes
  <2>5. c.keys = FirstKeys(t.session_id)
    BY <2>1 DEF HandshakeInv, CompletedAnswered
  <2>6. Mirrored(c.keys, responder.keys)
    BY <2>4, <2>5, KeysMeaning
  <2> QED
    BY <2>1, <2>6 DEF ResponderAgrees
<1> QED
  BY <1>1, HandshakeInvariant, PTL

\* Two answers never have the same keys: not even those to one HELLO that
\* arrives again after the responder has restarted.
THEOREM KeysAlwaysFresh == Spec => []KeysFresh
<1>1. HandshakeInv => KeysFresh
  <2> SUFFICES ASSUME HandshakeInv, NEW a \in answered, NEW b \in answered,
                      a.keys = b.keys
               PROVE  a = b
    BY DEF KeysFresh
  <2>1. a \in Answers /\ b \in Answers
    BY DEF HandshakeInv, HandshakeTypes
  <2>2. a.terms.session_id = b.terms.session_id
    BY <2>1, AnswerMeaning, KeysMeaning
  <2> QED
    BY <2>1, <2>2, SessionNames DEF HandshakeInv, NoncesUsedOnce
<1> QED
  BY <1>1, HandshakeInvariant, PTL
=============================================================================
