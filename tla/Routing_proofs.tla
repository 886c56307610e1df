---------------------------- MODULE Routing_proofs ----------------------------
(***************************************************************************)
(* For any number of handlers, stations and packets: no message of an      *)
(* unregistered user goes to the radio, and nothing that came from the     *)
(* Internet comes back from the radio (IInv); messages are transmitted     *)
(* only for stations that were heard, and a posit no more often than every *)
(* ten minutes (HInv and RInv, which also give the types).                 *)
(*                                                                         *)
(* The first two need to know what becomes of a packet elsewhere: an       *)
(* unregistered user's packet carries TCPXX* when other servers may send   *)
(* it back, and whatever the TNC transmits of the Internet's carries the   *)
(* third-party mark by which ReadCom recognises it.                        *)
(***************************************************************************)
EXTENDS Routing, Lists_proofs

Outgoing == {"srcTNC", "srcUSER", "srcUSERVALID"}

\* What is queued for the clients and the other servers.
ForInternet(p) ==
    /\ p = copy(p)
    /\ "srcTNC" \in p.EchoMask => ~p.inet
    /\ p.EchoMask \cap Outgoing # {} /\ p.unreg => p.path = "TCPXX*"

\* What is queued for the TNC.
ForRadio(p) ==
    /\ p = copy(p)
    /\ p.inet \/ p.unreg => p.reformatted
    /\ p.type = "msg" => ~p.unreg

ListIsSeq == list \in Seq(ToSet(list))

QueuesOK ==
    /\ sendQueue \in Seq(ToSet(sendQueue))
    /\ tncQueue \in Seq(ToSet(tncQueue))
    /\ \A p \in ToSet(sendQueue) : ForInternet(p)
    /\ \A p \in ToSet(tncQueue) : ForRadio(p)

\* What is outside: on the air and at other servers.
OutsideOK ==
    /\ \A p \in air : p.inet \/ p.unreg => p.reformatted
    /\ \A p \in net : p.unreg => p.path = "TCPXX*"

\* What the handlers hold.
HandlersOK ==
    /\ at = [h \in Threads |-> at[h]]
    /\ packet = [h \in Threads |-> packet[h]]
    /\ posit = [h \in Threads |-> posit[h]]
    /\ user = [h \in Sessions |-> user[h]]
    /\ \A h \in Threads : at[h] # "idle" =>
         /\ h \in Sessions /\ user[h].verified => ~packet[h].unreg
         /\ h \in Igates /\ packet[h].unreg => packet[h].path = "TCPXX*"
    /\ \A h \in Threads : at[h] = "source" =>
         /\ MayUseRF(h)
         /\ packet[h].path # "TCPXX*"
    /\ \A h \in Threads : at[h] = "stamp" =>
         /\ posit[h] = copy(posit[h])
         /\ posit[h].type \in {"posit", "nmea"}

IInv == ListIsSeq /\ QueuesOK /\ OutsideOK /\ HandlersOK

\* A sequence is one of its own elements.
LEMMA SeqOfItsElements ==
    ASSUME NEW S, NEW s \in Seq(S)
    PROVE  s \in Seq(ToSet(s)) /\ ToSet(s) \subseteq S
<1>1. Range(s) = ToSet(s)
  BY DEF Range, ToSet
<1>2. s \in Seq(Range(s)) /\ Range(s) \in SUBSET S
  BY SeqOfRange, RangeOfSeq
<1> QED
  BY <1>1, <1>2

\* Put adds at most what it is given.
LEMMA PutAdds ==
    ASSUME NEW q, q \in Seq(ToSet(q)), NEW p
    PROVE  /\ Put(q, p) \in Seq(ToSet(Put(q, p)))
           /\ ToSet(Put(q, p)) \subseteq ToSet(q) \cup {p}
<1>1. q \in Seq(ToSet(q) \cup {p})
  BY SeqMonotonic
<1>2. Append(q, p) \in Seq(ToSet(q) \cup {p})
  BY <1>1, AppendProperties
<1>3. /\ Append(q, p) \in Seq(ToSet(Append(q, p)))
      /\ ToSet(Append(q, p)) \subseteq ToSet(q) \cup {p}
  BY <1>2, SeqOfItsElements
<1> QED
  BY <1>3 DEF Put

\* A reader takes one away.
LEMMA TailTakes ==
    ASSUME NEW q, q \in Seq(ToSet(q)), q # <<>>
    PROVE  /\ Head(q) \in ToSet(q)
           /\ Tail(q) \in Seq(ToSet(Tail(q)))
           /\ ToSet(Tail(q)) \subseteq ToSet(q)
<1>1. Head(q) \in ToSet(q) /\ Tail(q) \in Seq(ToSet(q))
  BY HeadTailProperties
<1>2. /\ Tail(q) \in Seq(ToSet(Tail(q)))
      /\ ToSet(Tail(q)) \subseteq ToSet(q)
  BY <1>1, SeqOfItsElements
<1> QED
  BY <1>1, <1>2

\* A set of natural numbers has a least one, a set of indices a last one.
LEMMA LeastNumber ==
    ASSUME NEW D, D \subseteq Nat, D # {}
    PROVE  \E d \in D : \A e \in D : d <= e
<1>1. PICK d \in D : \A e \in D : ~(<<e, d>> \in OpToRel(<, Nat))
  BY NatLessThanWellFounded, WFMin
<1>2. \A e \in D : ~(e < d)
  BY <1>1 DEF OpToRel
<1> QED
  BY <1>2

LEMMA LastIndex ==
    ASSUME NEW n \in Nat, NEW I, I \subseteq 1 .. n, I # {}
    PROVE  Max(I) \in I
<1> DEFINE D == {n - i : i \in I}
<1>1. \A i \in I : n - i \in Nat
  OBVIOUS
<1>2. D \subseteq Nat /\ D # {}
  BY <1>1
<1>3. PICK d \in D : \A e \in D : d <= e
  <2> HIDE DEF D
  <2> QED
    BY <1>2, LeastNumber
<1>4. PICK x \in I : d = n - x
  OBVIOUS
<1>5. \A y \in I : x >= y
  BY <1>3, <1>4
<1> QED
  BY <1>5 DEF Max

\* What is left of a list is a list.
LEMMA KeepingIsSeq ==
    ASSUME NEW X, NEW q \in Seq(X), NEW S
    PROVE  Keeping(q, S) \in Seq(ToSet(Keeping(q, S)))
  BY KeepingEmbeds, SeqOfItsElements

\* The constructor makes a packet with the fields given.
LEMMA Constructed ==
    ASSUME NEW p, NEW mask, NEW inet
    PROVE  LET q == aprsString(p, mask, inet) IN
           /\ q = copy(q)
           /\ q.type = p.type /\ q.path = p.path /\ q.unreg = p.unreg /\ q.inet = inet
           /\ q.EchoMask \subseteq mask \cup {"src3RDPARTY"}
  BY DEF aprsString, copy

\* A packet keeps what stsmReformat and changePath do not change.
LEMMA Reformatted ==
    ASSUME NEW p, p = copy(p)
    PROVE  LET q == stsmReformat(p) IN
           /\ q = copy(q)
           /\ q.reformatted
           /\ q.type = p.type /\ q.unreg = p.unreg
<1> DEFINE q(b) == [src |-> p.src, type |-> p.type, to |-> p.to, path |-> p.path,
                    unreg |-> p.unreg, EchoMask |-> p.EchoMask, reformatted |-> b,
                    timeRF |-> p.timeRF, ID |-> p.ID, dest |-> p.dest, ttl |-> p.ttl,
                    inet |-> p.inet]
<1>1. \A b : [p EXCEPT !.reformatted = b] = q(b)
  <2> TAKE b
  <2>1. [copy(p) EXCEPT !.reformatted = b] = q(b)
    BY DEF copy
  <2> QED
    BY <2>1
<1>2. stsmReformat(p) = q(TRUE)
  BY <1>1, Zenon DEF stsmReformat
<1>3. q(TRUE).reformatted /\ q(TRUE).type = p.type /\ q(TRUE).unreg = p.unreg
  OBVIOUS
<1>4. q(TRUE) = copy(q(TRUE))
  BY DEF copy
<1> QED
  BY <1>2, <1>3, <1>4

LEMMA PathChanged ==
    ASSUME NEW p, p = copy(p), NEW new, NEW old
    PROVE  LET q == changePath(p, new, old) IN
           /\ q = copy(q)
           /\ q.type = p.type /\ q.unreg = p.unreg /\ q.inet = p.inet
           /\ q.EchoMask = p.EchoMask /\ q.reformatted = p.reformatted
           /\ q.path = IF p.path = old THEN new ELSE p.path
  BY DEF changePath, copy

LEMMA Remasked ==
    ASSUME NEW p, p = copy(p), NEW mask
    PROVE  LET q == [p EXCEPT !.EchoMask = mask] IN
           /\ q = copy(q)
           /\ q.EchoMask = mask /\ q.path = p.path
<1> DEFINE q(x) == [x EXCEPT !.EchoMask = mask]
<1>1. /\ q(copy(p)) = copy(q(copy(p)))
      /\ q(copy(p)).EchoMask = mask /\ q(copy(p)).path = copy(p).path
  BY DEF copy
<1> HIDE DEF q
<1>2. q(p) = copy(q(p)) /\ q(p).EchoMask = mask /\ q(p).path = p.path
  BY <1>1
<1> QED
  BY <1>2 DEF q

\* The server's own packets come from no user.
LEMMA OwnPacket ==
    ASSUME NEW type, NEW to, NEW mask
    PROVE  LET q == Own(type, to, mask) IN
           /\ q = copy(q) /\ ~q.unreg /\ ~q.inet
           /\ q.EchoMask \subseteq mask \cup {"src3RDPARTY"}
  BY DEF Own, aprsString, copy

\* getPosit finds a posit.
LEMMA PositFound ==
    ASSUME ListIsSeq, NEW s, NEW mask, getPosit(s, mask) # Nothing
    PROVE  LET q == getPosit(s, mask) IN
           q = copy(q) /\ q.type \in {"posit", "nmea"}
<1> DEFINE I == {i \in DOMAIN list : /\ list[i].src = s
                                     /\ list[i].type \in {"posit", "nmea"}
                                     /\ list[i].EchoMask \cap mask # {}}
<1>1. I # {} /\ getPosit(s, mask) = copy(list[Max(I)])
  BY DEF getPosit
<1>2. Len(list) \in Nat /\ I \subseteq 1 .. Len(list)
  BY LenProperties DEF ListIsSeq
<1>3. Max(I) \in I
  BY <1>1, <1>2, LastIndex
<1>4. list[Max(I)].type \in {"posit", "nmea"}
  BY <1>3
<1> HIDE DEF I
<1> QED
  BY <1>1, <1>4 DEF copy

\* A full queue or not: the packets in it stay of the right kind.
LEMMA SendQueueTakes ==
    ASSUME NEW q, q \in Seq(ToSet(q)), \A x \in ToSet(q) : ForInternet(x),
           NEW p, ForInternet(p)
    PROVE  /\ Put(q, p) \in Seq(ToSet(Put(q, p)))
           /\ \A x \in ToSet(Put(q, p)) : ForInternet(x)
  BY PutAdds

LEMMA TncQueueTakes ==
    ASSUME NEW q, q \in Seq(ToSet(q)), \A x \in ToSet(q) : ForRadio(x),
           NEW p, ForRadio(p)
    PROVE  /\ Put(q, p) \in Seq(ToSet(Put(q, p)))
           /\ \A x \in ToSet(Put(q, p)) : ForRadio(x)
  BY PutAdds

\* What a Mic-E packet decodes to is as much, or as little, an unregistered
\* user's or the Internet's as the packet itself.
LEMMA Decoded ==
    ASSUME NEW p, p = copy(p), NEW type, type # "msg"
    PROVE  LET q == mic_e_Reformat(p, type) IN
           /\ q = copy(q)
           /\ q.type = type /\ q.EchoMask = p.EchoMask /\ q.path = p.path
           /\ q.unreg = p.unreg /\ q.inet = p.inet /\ q.reformatted = p.reformatted
           /\ q.src = p.src
<1> DEFINE a == aprsString([p EXCEPT !.type = type], p.EchoMask, p.inet)
           q(b) == [a EXCEPT !.reformatted = b]
<1>1. /\ a = copy(a)
      /\ a.type = type /\ a.EchoMask = p.EchoMask /\ a.path = p.path
      /\ a.unreg = p.unreg /\ a.inet = p.inet /\ a.src = p.src
  <2>1. LET x == [copy(p) EXCEPT !.type = type] IN
        /\ x.type = type /\ x.path = copy(p).path /\ x.unreg = copy(p).unreg
        /\ x.src = copy(p).src
    BY DEF copy
  <2> QED
    BY <2>1 DEF aprsString, copy
<1> HIDE DEF a
<1>2. \A b : /\ q(b) = copy(q(b)) /\ q(b).reformatted = b
             /\ q(b).type = a.type /\ q(b).EchoMask = a.EchoMask /\ q(b).path = a.path
             /\ q(b).unreg = a.unreg /\ q(b).inet = a.inet /\ q(b).src = a.src
  <2> TAKE b
  <2>1. LET x == [copy(a) EXCEPT !.reformatted = b] IN
        /\ x = copy(x) /\ x.reformatted = b
        /\ x.type = copy(a).type /\ x.EchoMask = copy(a).EchoMask
        /\ x.path = copy(a).path /\ x.unreg = copy(a).unreg /\ x.inet = copy(a).inet
        /\ x.src = copy(a).src
    BY DEF copy
  <2> QED
    BY <1>1, <2>1
<1>3. mic_e_Reformat(p, type) = q(p.reformatted)
  BY DEF mic_e_Reformat, a
<1> HIDE DEF q
<1> QED
  BY <1>1, <1>2, <1>3

LEMMA DecodedAdded ==
    ASSUME NEW q, q \in Seq(ToSet(q)), NEW p
    PROVE  ToSet(reformatAndSendMicE(p, q)) \subseteq
              ToSet(q) \cup {mic_e_Reformat(p, "posit"), mic_e_Reformat(p, "telemetry")}
<1> DEFINE x == mic_e_Reformat(p, "posit")
           y == mic_e_Reformat(p, "telemetry")
           one == IF "posit" \in fmt_mic_e[p.src] THEN Put(q, x) ELSE q
<1> HIDE DEF x, y
<1>1. one \in Seq(ToSet(one)) /\ ToSet(one) \subseteq ToSet(q) \cup {x}
  BY PutAdds
<1> HIDE DEF one
<1>2. ToSet(Put(one, y)) \subseteq ToSet(one) \cup {y}
  BY <1>1, PutAdds
<1> QED
  BY <1>1, <1>2 DEF reformatAndSendMicE, one, x, y

LEMMA SendQueueTakesMicE ==
    ASSUME NEW q, q \in Seq(ToSet(q)), \A x \in ToSet(q) : ForInternet(x),
           NEW p, ForInternet(p)
    PROVE  /\ reformatAndSendMicE(p, q) \in Seq(ToSet(reformatAndSendMicE(p, q)))
           /\ \A x \in ToSet(reformatAndSendMicE(p, q)) : ForInternet(x)
<1> DEFINE one == IF "posit" \in fmt_mic_e[p.src]
                  THEN Put(q, mic_e_Reformat(p, "posit")) ELSE q
           two == Put(one, mic_e_Reformat(p, "telemetry"))
<1>1. ForInternet(mic_e_Reformat(p, "posit")) /\ ForInternet(mic_e_Reformat(p, "telemetry"))
  BY Decoded DEF ForInternet
<1>2. one \in Seq(ToSet(one)) /\ \A x \in ToSet(one) : ForInternet(x)
  BY <1>1, SendQueueTakes
<1>3. two \in Seq(ToSet(two)) /\ \A x \in ToSet(two) : ForInternet(x)
  <2> HIDE DEF one
  <2> QED
    BY <1>1, <1>2, SendQueueTakes
<1>4. reformatAndSendMicE(p, q) = one \/ reformatAndSendMicE(p, q) = two
  BY DEF reformatAndSendMicE
<1> HIDE DEF one, two
<1> QED
  BY <1>2, <1>3, <1>4

LEMMA TncQueueTakesMicE ==
    ASSUME NEW q, q \in Seq(ToSet(q)), \A x \in ToSet(q) : ForRadio(x),
           NEW p, ForRadio(p)
    PROVE  /\ reformatAndSendMicE(p, q) \in Seq(ToSet(reformatAndSendMicE(p, q)))
           /\ \A x \in ToSet(reformatAndSendMicE(p, q)) : ForRadio(x)
<1> DEFINE one == IF "posit" \in fmt_mic_e[p.src]
                  THEN Put(q, mic_e_Reformat(p, "posit")) ELSE q
           two == Put(one, mic_e_Reformat(p, "telemetry"))
<1>1. ForRadio(mic_e_Reformat(p, "posit")) /\ ForRadio(mic_e_Reformat(p, "telemetry"))
  BY Decoded DEF ForRadio
<1>2. one \in Seq(ToSet(one)) /\ \A x \in ToSet(one) : ForRadio(x)
  BY <1>1, TncQueueTakes
<1>3. two \in Seq(ToSet(two)) /\ \A x \in ToSet(two) : ForRadio(x)
  <2> HIDE DEF one
  <2> QED
    BY <1>1, <1>2, TncQueueTakes
<1>4. reformatAndSendMicE(p, q) = one \/ reformatAndSendMicE(p, q) = two
  BY DEF reformatAndSendMicE
<1> HIDE DEF one, two
<1> QED
  BY <1>2, <1>3, <1>4

\* An answer is queued once or twice, or there is nothing to answer.
LEMMA SendQueueTakesAnswer ==
    ASSUME NEW q, q \in Seq(ToSet(q)), \A x \in ToSet(q) : ForInternet(x),
           NEW reply, ForInternet(reply), NEW p, NEW r \in queryResp(p, reply, q)
    PROVE  r \in Seq(ToSet(r)) /\ \A x \in ToSet(r) : ForInternet(x)
<1> DEFINE one == Put(q, reply)
<1>1. one \in Seq(ToSet(one)) /\ \A x \in ToSet(one) : ForInternet(x)
  BY SendQueueTakes
<1>2. Put(one, reply) \in Seq(ToSet(Put(one, reply)))
      /\ \A x \in ToSet(Put(one, reply)) : ForInternet(x)
  <2> HIDE DEF one
  <2> QED
    BY <1>1, SendQueueTakes
<1>3. r \in {q, one, Put(one, reply)}
  BY DEF queryResp
<1> QED
  BY <1>1, <1>2, <1>3

LEMMA TncQueueTakesAnswer ==
    ASSUME NEW q, q \in Seq(ToSet(q)), \A x \in ToSet(q) : ForRadio(x),
           NEW reply, ForRadio(reply), NEW p, NEW r \in queryResp(p, reply, q)
    PROVE  r \in Seq(ToSet(r)) /\ \A x \in ToSet(r) : ForRadio(x)
<1> DEFINE one == Put(q, reply)
<1>1. one \in Seq(ToSet(one)) /\ \A x \in ToSet(one) : ForRadio(x)
  BY TncQueueTakes
<1>2. Put(one, reply) \in Seq(ToSet(Put(one, reply)))
      /\ \A x \in ToSet(Put(one, reply)) : ForRadio(x)
  <2> HIDE DEF one
  <2> QED
    BY <1>1, TncQueueTakes
<1>3. r \in {q, one, Put(one, reply)}
  BY DEF queryResp
<1> QED
  BY <1>1, <1>2, <1>3

\* The copy for the message ports is for nobody else.
LEMMA ThirdPartyTakes ==
    ASSUME ListIsSeq, NEW p,
           NEW q, q \in Seq(ToSet(q)), \A x \in ToSet(q) : ForInternet(x)
    PROVE  /\ ThirdParty(p, q) \in Seq(ToSet(ThirdParty(p, q)))
           /\ \A x \in ToSet(ThirdParty(p, q)) :
                 ForInternet(x) /\ (x \in ToSet(q) \/ "srcTNC" \notin x.EchoMask)
<1> DEFINE found == getPosit(p.src, {"srcIGATE", "srcUSERVALID", "srcTNC"})
           third == [found EXCEPT !.EchoMask = {"src3RDPARTY"}]
<1>1. CASE found # Nothing
  <2>1. found = copy(found)
    BY <1>1, PositFound
  <2>2. third = copy(third) /\ third.EchoMask = {"src3RDPARTY"}
    <3> HIDE DEF found
    <3> QED
      BY <2>1, Remasked
  <2>3. ForInternet(third)
    <3> HIDE DEF third
    <3> QED
      BY <2>2 DEF ForInternet, Outgoing
  <2>4. Put(q, third) \in Seq(ToSet(Put(q, third)))
        /\ \A x \in ToSet(Put(q, third)) : ForInternet(x)
    BY <2>3, SendQueueTakes
  <2>5. ToSet(Put(q, third)) \subseteq ToSet(q) \cup {third} /\ "srcTNC" \notin third.EchoMask
    BY <2>2, PutAdds
  <2> QED
    BY <2>4, <2>5 DEF ThirdParty
<1>2. CASE found = Nothing
  BY <1>2 DEF ThirdParty
<1> QED
  BY <1>1, <1>2

\* What a handler sends to the Internet, of a user or of another server.
LEMMA InetPacketTaken ==
    ASSUME IInv, NEW h \in Threads, NEW p,
           h \in Sessions /\ user[h].verified => ~p.unreg
    PROVE  /\ inetpacket(h, p) \in Seq(ToSet(inetpacket(h, p)))
           /\ \A x \in ToSet(inetpacket(h, p)) :
                 ForInternet(x) /\ (x \in ToSet(sendQueue) \/ "srcTNC" \notin x.EchoMask)
<1>1. CASE Verified(h)
  <2> DEFINE a == aprsString(p, Mask(h), TRUE)
             q == changePath(a, "TCPIP*", "TCPIP")
  <2>1. a = copy(a) /\ a.unreg = p.unreg /\ a.EchoMask \subseteq Mask(h) \cup {"src3RDPARTY"}
    BY DEF aprsString, copy
  <2>2. q = copy(q) /\ q.unreg = p.unreg /\ q.EchoMask = a.EchoMask
    <3> HIDE DEF a
    <3> QED
      BY <2>1, PathChanged
  <2>3. inetpacket(h, p) = reformatAndSendMicE(a, sendQueue) \/ inetpacket(h, p) = Put(sendQueue, q)
    BY <1>1 DEF inetpacket
  <2>4. h \in Igates \/ ~p.unreg
    BY <1>1 DEF Verified, Threads
  <2>5. "srcTNC" \notin q.EchoMask /\ "srcTNC" \notin a.EchoMask
    <3> HIDE DEF a, q
    <3> QED
      BY <2>1, <2>2 DEF Mask
  <2>6. q.EchoMask \cap Outgoing = {} \/ ~q.unreg
    <3> HIDE DEF a, q
    <3> QED
      BY <2>1, <2>2, <2>4 DEF Mask, Outgoing
  <2> HIDE DEF a, q
  <2>7. ForInternet(a) /\ ForInternet(q)
    BY <2>1, <2>2, <2>5, <2>6 DEF ForInternet
  <2>8. sendQueue \in Seq(ToSet(sendQueue)) /\ \A x \in ToSet(sendQueue) : ForInternet(x)
    BY DEF IInv, QueuesOK
  <2>9. /\ mic_e_Reformat(a, "posit").EchoMask = a.EchoMask
        /\ mic_e_Reformat(a, "telemetry").EchoMask = a.EchoMask
    BY <2>1, Decoded
  <2>10. /\ ToSet(Put(sendQueue, q)) \subseteq ToSet(sendQueue) \cup {q}
         /\ ToSet(reformatAndSendMicE(a, sendQueue)) \subseteq
               ToSet(sendQueue) \cup {mic_e_Reformat(a, "posit"), mic_e_Reformat(a, "telemetry")}
    BY <2>8, PutAdds, DecodedAdded
  <2>11. \A x \in ToSet(inetpacket(h, p)) :
           x \in ToSet(sendQueue) \/ "srcTNC" \notin x.EchoMask
    BY <2>3, <2>5, <2>9, <2>10
  <2>12. /\ inetpacket(h, p) \in Seq(ToSet(inetpacket(h, p)))
         /\ \A x \in ToSet(inetpacket(h, p)) : ForInternet(x)
    BY <2>3, <2>7, <2>8, SendQueueTakes, SendQueueTakesMicE
  <2> QED
    BY <2>11, <2>12
<1>2. CASE ~Verified(h)
  <2> DEFINE mask == IF p.src = user[h].call /\ p.path \in {"TCPIP", "TCPIP*"}
                     THEN {"srcUSER"} ELSE {}
             a == aprsString(p, {}, TRUE)
             b == changePath(a, "TCPIP*", "TCPIP")
             c == changePath(b, "TCPXX*", "TCPIP*")
             q == [c EXCEPT !.EchoMask = mask]
  <2>1. a = copy(a) /\ a.path = p.path
    BY DEF aprsString, copy
  <2>2. b = copy(b) /\ b.path = IF p.path = "TCPIP" THEN "TCPIP*" ELSE p.path
    <3> HIDE DEF a
    <3> QED
      BY <2>1, PathChanged
  <2>3. c = copy(c) /\ c.path = IF b.path = "TCPIP*" THEN "TCPXX*" ELSE b.path
    <3> HIDE DEF b
    <3> QED
      BY <2>2, PathChanged
  <2>4. q = copy(q) /\ q.path = c.path /\ q.EchoMask = mask
    <3> HIDE DEF c, mask
    <3> QED
      BY <2>3, Remasked
  <2>5. inetpacket(h, p) = sendQueue \/ inetpacket(h, p) = Put(sendQueue, q)
    BY <1>2 DEF inetpacket, OfUnregistered, UnregisteredPath
  <2>6. mask # {} => q.path = "TCPXX*"
    <3> HIDE DEF b, c, q
    <3> QED
      BY <2>2, <2>3, <2>4
  <2>7. "srcTNC" \notin mask /\ mask \cap Outgoing # {} => mask # {}
    OBVIOUS
  <2>8. "srcTNC" \notin mask
    OBVIOUS
  <2> HIDE DEF q, mask
  <2>9. ForInternet(q)
    BY <2>4, <2>6, <2>7, <2>8 DEF ForInternet
  <2>10. sendQueue \in Seq(ToSet(sendQueue)) /\ \A x \in ToSet(sendQueue) : ForInternet(x)
    BY DEF IInv, QueuesOK
  <2>11. ToSet(Put(sendQueue, q)) \subseteq ToSet(sendQueue) \cup {q}
         /\ "srcTNC" \notin q.EchoMask
    BY <2>4, <2>8, <2>10, PutAdds
  <2> QED
    BY <2>5, <2>9, <2>10, <2>11, SendQueueTakes
<1> QED
  BY <1>1, <1>2

\* What may be sent to the radio is marked as a third party's before it is.
LEMMA RFPacketKind ==
    ASSUME NEW p, ~p.unreg, NEW mask
    PROVE  LET q == stsmReformat(aprsString(p, mask, TRUE)) IN
           ForRadio(q) /\ ForRadio(changePath(q, "TCPIP*", "TCPIP"))
<1> DEFINE a == aprsString(p, mask, TRUE)
           q == stsmReformat(a)
           c == changePath(q, "TCPIP*", "TCPIP")
<1>1. a = copy(a) /\ ~a.unreg
  BY DEF aprsString, copy
<1> HIDE DEF a
<1>2. q = copy(q) /\ ~q.unreg /\ q.reformatted
  BY <1>1, Reformatted
<1> HIDE DEF q
<1>3. c = copy(c) /\ ~c.unreg /\ c.reformatted
  BY <1>2, PathChanged
<1> HIDE DEF c
<1>4. ForRadio(q) /\ ForRadio(c)
  BY <1>2, <1>3 DEF ForRadio
<1> QED
  BY <1>4 DEF a, q, c

LEMMA RFPositKind ==
    ASSUME NEW p, p = copy(p), p.type \in {"posit", "nmea"}
    PROVE  ForRadio(stsmReformat(p))
<1>1. stsmReformat(p) = copy(stsmReformat(p)) /\ stsmReformat(p).reformatted
      /\ stsmReformat(p).type # "msg"
  BY Reformatted
<1> QED
  BY <1>1 DEF ForRadio

LEMMA OwnPacketKind ==
    ASSUME NEW type, NEW to, NEW mask, "srcTNC" \notin mask
    PROVE  ForInternet(Own(type, to, mask)) /\ ForRadio(Own(type, to, mask))
<1> DEFINE q == Own(type, to, mask)
<1>1. q = copy(q) /\ ~q.unreg /\ ~q.inet /\ q.EchoMask \subseteq mask \cup {"src3RDPARTY"}
  BY OwnPacket
<1> HIDE DEF q
<1>2. ForInternet(q) /\ ForRadio(q)
  BY <1>1 DEF ForInternet, ForRadio
<1> QED
  BY <1>2 DEF q

\* A packet arrives: only one that may go to the radio is on its way there.
LEMMA ReceiveKeeps ==
    ASSUME IInv, NEW h \in Threads, NEW p, Receive(h, p),
           h \in Igates => p \in FromServers \cup net,
           h \in Sessions => p \in FromUsers
    PROVE  IInv'
<1> USE TrustAssumption, RoutingAssumption
<1>1. ListIsSeq'
  BY DEF IInv, ListIsSeq, Receive
<1>2. OutsideOK'
  BY DEF IInv, OutsideOK, Receive, world
<1>3. QueuesOK'
  <2>1. ForInternet(Own("msg", p.src, {"srcSYSTEM"}))
    BY OwnPacketKind
  <2>2. sendQueue' \in Answers(h, p) /\ tncQueue' = tncQueue
    BY DEF Receive
  <2>3. \/ sendQueue' = sendQueue
        \/ sendQueue' \in queryResp(p, Own("msg", p.src, {"srcSYSTEM"}), sendQueue)
    BY <2>2 DEF Answers
  <2>4. /\ sendQueue' \in Seq(ToSet(sendQueue'))
        /\ \A x \in ToSet(sendQueue') : ForInternet(x)
    BY <2>1, <2>3, SendQueueTakesAnswer DEF IInv, QueuesOK
  <2> QED
    BY <2>2, <2>4 DEF IInv, QueuesOK
<1>4. HandlersOK'
  <2> DEFINE gate == /\ p.type = "msg" /\ p.path # "TCPXX*" /\ MayUseRF(h)
                     /\ p.src \notin rfcall /\ deny[p.src] = "+"
                     /\ StationLocal(p.to) \/ p.to \in stsmDest_rfcall
  <2>1. /\ packet' = [packet EXCEPT ![h] = Marked(h, p)]
        /\ at' = [at EXCEPT ![h] = IF gate THEN "source" ELSE "inet"]
        /\ posit' = posit /\ user' = user
    BY DEF Receive
  <2>2. gate => MayUseRF(h) /\ p.path # "TCPXX*" /\ Marked(h, p) = p
    BY DEF MayUseRF, Marked, Verified, Threads
  <2>3. h \in Sessions /\ user[h].verified => ~Marked(h, p).unreg
    BY DEF Marked, Verified
  <2>4. h \in Igates /\ Marked(h, p).unreg => Marked(h, p).path = "TCPXX*"
    BY DEF Marked, Verified, IInv, OutsideOK
  <2>5. packet'[h] = Marked(h, p) /\ at'[h] \in {"source", "inet"}
        /\ (at'[h] = "source" => gate)
    BY <2>1 DEF IInv, HandlersOK
  <2>6. \A g \in Threads \ {h} : packet'[g] = packet[g] /\ at'[g] = at[g]
    BY <2>1 DEF IInv, HandlersOK
  <2>7. /\ at' = [g \in Threads |-> at'[g]]
        /\ packet' = [g \in Threads |-> packet'[g]]
    BY <2>1 DEF IInv, HandlersOK
  <2>8. \A g \in Threads : MayUseRF(g)' <=> MayUseRF(g)
    BY <2>1 DEF MayUseRF
  <2> HIDE DEF gate
  <2> QED
    BY <2>1, <2>2, <2>3, <2>4, <2>5, <2>6, <2>7, <2>8 DEF IInv, HandlersOK
<1> QED
  BY <1>1, <1>2, <1>3, <1>4 DEF IInv

\* At the end of a handler's step only its own at, packet and posit differ.
LEMMA HandlersStay ==
    ASSUME IInv, NEW h \in Threads, NEW w, w # "source",
           at' = [at EXCEPT ![h] = w], user' = user,
           \/ packet' = packet /\ at[h] # "idle"
           \/ packet' = [packet EXCEPT ![h] = Nothing] /\ w = "idle",
           \/ posit' = posit
           \/ posit' = [posit EXCEPT ![h] = posit'[h]],
           w = "stamp" => posit'[h] = copy(posit'[h]) /\ posit'[h].type \in {"posit", "nmea"}
    PROVE  HandlersOK'
<1>1. /\ at' = [g \in Threads |-> at'[g]]
      /\ packet' = [g \in Threads |-> packet'[g]]
      /\ posit' = [g \in Threads |-> posit'[g]]
      /\ user' = [g \in Sessions |-> user'[g]]
  BY DEF IInv, HandlersOK
<1>2. at'[h] = w /\ \A g \in Threads \ {h} : at'[g] = at[g]
  BY DEF IInv, HandlersOK
<1>3. \A g \in Threads : g # h => packet'[g] = packet[g] /\ posit'[g] = posit[g]
  BY DEF IInv, HandlersOK
<1>4. w # "idle" => packet'[h] = packet[h] /\ at[h] # "idle"
  OBVIOUS
<1>5. \A g \in Threads : MayUseRF(g)' <=> MayUseRF(g)
  BY DEF MayUseRF
<1>6. \A g \in Threads : at'[g] # "idle" =>
         /\ g \in Sessions /\ user[g].verified => ~packet'[g].unreg
         /\ g \in Igates /\ packet'[g].unreg => packet'[g].path = "TCPXX*"
  BY <1>2, <1>3, <1>4 DEF IInv, HandlersOK
<1>7. \A g \in Threads : at'[g] = "source" => MayUseRF(g)' /\ packet'[g].path # "TCPXX*"
  BY <1>2, <1>3, <1>5 DEF IInv, HandlersOK
<1>8. \A g \in Threads : at'[g] = "stamp" =>
         posit'[g] = copy(posit'[g]) /\ posit'[g].type \in {"posit", "nmea"}
  BY <1>2, <1>3 DEF IInv, HandlersOK
<1> QED
  BY <1>1, <1>6, <1>7, <1>8 DEF HandlersOK

\* A handler that may use the radio does not hold an unregistered user's packet,
\* or one that says so.
LEMMA RegisteredOnly ==
    ASSUME IInv, NEW h \in Threads, at[h] # "idle", MayUseRF(h), packet[h].path # "TCPXX*"
    PROVE  ~packet[h].unreg
  BY RoutingAssumption DEF IInv, HandlersOK, MayUseRF, Threads

LEMMA HandlerKeeps ==
    ASSUME IInv, NEW h \in Threads, Handler(h)
    PROVE  IInv'
<1>1. OutsideOK'
  BY DEF IInv, OutsideOK, Handler, sendOnRF, FindPosit, SendPosit, ToInternet, Always, world
<1>2. CASE sendOnRF(h)
  <2>1. ListIsSeq'
    BY <1>2 DEF IInv, ListIsSeq, sendOnRF
  <2>2. ForRadio(stsmReformat(aprsString(packet[h], Mask(h), TRUE)))
    BY <1>2, RegisteredOnly, RFPacketKind DEF sendOnRF, IInv, HandlersOK
  <2>3. QueuesOK'
    BY <1>2, <2>2, TncQueueTakes DEF IInv, QueuesOK, sendOnRF
  <2>4. HandlersOK'
    <3>1. at[h] # "idle" /\ packet' = packet /\ posit' = posit /\ user' = user
      BY <1>2 DEF sendOnRF
    <3>2. \/ at' = [at EXCEPT ![h] = "inet"]
          \/ at' = [at EXCEPT ![h] = "posit"]
      BY <1>2 DEF sendOnRF
    <3> QED
      BY <3>1, <3>2, HandlersStay
  <2> QED
    BY <1>1, <2>1, <2>3, <2>4 DEF IInv
<1>3. CASE FindPosit(h)
  <2>1. ListIsSeq' /\ QueuesOK'
    BY <1>3 DEF IInv, ListIsSeq, QueuesOK, FindPosit, shared
  <2> DEFINE q == getPosit(packet[h].src, {"srcIGATE", "srcUSERVALID"})
             w == IF q = Nothing THEN "inet" ELSE "stamp"
  <2>2. posit' = [posit EXCEPT ![h] = q] /\ posit'[h] = q
    BY <1>3 DEF FindPosit, IInv, HandlersOK
  <2>3. w = "stamp" => q = copy(q) /\ q.type \in {"posit", "nmea"}
    BY PositFound DEF IInv
  <2>4. /\ at' = [at EXCEPT ![h] = w]
        /\ at[h] # "idle" /\ packet' = packet /\ user' = user
    BY <1>3, <2>2 DEF FindPosit
  <2>5. w # "source"
    OBVIOUS
  <2> HIDE DEF q, w
  <2>6. HandlersOK'
    BY <2>2, <2>3, <2>4, <2>5, HandlersStay
  <2> QED
    BY <1>1, <2>1, <2>6 DEF IInv
<1>4. CASE SendPosit(h)
  <2>1. ListIsSeq'
    <3>1. list' = list \/ list' = timestamp(posit[h].ID)
      BY <1>4 DEF SendPosit
    <3>2. timestamp(posit[h].ID) \in Seq(ToSet(timestamp(posit[h].ID)))
      <4> DEFINE r == timestamp(posit[h].ID)
      <4>1. Len(list) \in Nat /\ list = [i \in 1 .. Len(list) |-> list[i]]
        BY LenProperties DEF IInv, ListIsSeq
      <4>2. r = [i \in 1 .. Len(list) |-> r[i]]
        BY <4>1 DEF timestamp
      <4>3. r \in [1 .. Len(list) -> ToSet(r)]
        BY <4>2 DEF ToSet
      <4> HIDE DEF r
      <4>4. r \in Seq(ToSet(r))
        BY <4>1, <4>3
      <4> QED
        BY <4>4 DEF r
    <3> QED
      BY <3>1, <3>2 DEF IInv, ListIsSeq
  <2>2. ForRadio(stsmReformat(posit[h]))
    BY <1>4, RFPositKind DEF SendPosit, IInv, HandlersOK
  <2>3. QueuesOK'
    BY <1>4, <2>2, TncQueueTakes DEF IInv, QueuesOK, SendPosit
  <2>4. /\ at' = [at EXCEPT ![h] = "inet"]
        /\ at[h] # "idle" /\ packet' = packet /\ user' = user
        /\ posit' = [posit EXCEPT ![h] = Nothing]
    BY <1>4 DEF SendPosit
  <2>5. posit'[h] = Nothing
    BY <2>4 DEF IInv, HandlersOK
  <2>6. HandlersOK'
    BY <2>4, <2>5, HandlersStay
  <2> QED
    BY <1>1, <2>1, <2>3, <2>6 DEF IInv
<1>5. CASE ToInternet(h)
  <2>1. ListIsSeq'
    BY <1>5 DEF IInv, ListIsSeq, ToInternet
  <2> DEFINE p == packet[h]
             queue == inetpacket(h, p)
  <2>2. h \in Sessions /\ user[h].verified => ~p.unreg
    BY <1>5 DEF ToInternet, IInv, HandlersOK
  <2>3. queue \in Seq(ToSet(queue)) /\ \A x \in ToSet(queue) : ForInternet(x)
    <3> HIDE DEF p
    <3> QED
      BY <2>2, InetPacketTaken
  <2>4. /\ ThirdParty(p, queue) \in Seq(ToSet(ThirdParty(p, queue)))
        /\ \A x \in ToSet(ThirdParty(p, queue)) : ForInternet(x)
    <3> HIDE DEF queue, p
    <3> QED
      BY <2>3, ThirdPartyTakes DEF IInv
  <2>5. (sendQueue' = queue \/ sendQueue' = ThirdParty(p, queue)) /\ tncQueue' = tncQueue
    BY <1>5 DEF ToInternet
  <2>6. QueuesOK'
    <3> HIDE DEF queue, p
    <3> QED
      BY <2>3, <2>4, <2>5 DEF IInv, QueuesOK
  <2>7. HandlersOK'
    <3>1. at[h] # "idle" /\ posit' = posit /\ user' = user
      BY <1>5 DEF ToInternet
    <3>2. \/ at' = [at EXCEPT ![h] = "always"] /\ packet' = packet
          \/ at' = [at EXCEPT ![h] = "idle"] /\ packet' = [packet EXCEPT ![h] = Nothing]
      BY <1>5 DEF ToInternet
    <3> QED
      BY <3>1, <3>2, HandlersStay
  <2> QED
    BY <1>1, <2>1, <2>6, <2>7 DEF IInv
<1>6. CASE Always(h)
  <2>1. ListIsSeq'
    BY <1>6 DEF IInv, ListIsSeq, Always
  <2> DEFINE mask == IF h \in Igates THEN {"srcIGATE"} ELSE {"srcUSER"}
             RFpacket == stsmReformat(aprsString(packet[h], mask, TRUE))
             may == /\ MayUseRF(h) /\ packet[h].path # "TCPXX*"
                    /\ ~StationLocal(packet[h].src)
  <2>2. /\ \/ tncQueue' = tncQueue
           \/ may /\ tncQueue' = reformatAndSendMicE(RFpacket, tncQueue)
           \/ may /\ tncQueue' = Put(tncQueue, changePath(RFpacket, "TCPIP*", "TCPIP"))
        /\ sendQueue' = sendQueue
    BY <1>6 DEF Always
  <2>3. may => ForRadio(RFpacket) /\ ForRadio(changePath(RFpacket, "TCPIP*", "TCPIP"))
    <3>1. may => ~packet[h].unreg
      BY <1>6, RegisteredOnly DEF Always
    <3> HIDE DEF mask, may
    <3> QED
      BY <3>1, RFPacketKind
  <2>4. QueuesOK'
    <3> HIDE DEF may, RFpacket
    <3> QED
      BY <2>2, <2>3, TncQueueTakes, TncQueueTakesMicE DEF IInv, QueuesOK
  <2>5. /\ at' = [at EXCEPT ![h] = "idle"]
        /\ packet' = [packet EXCEPT ![h] = Nothing]
        /\ posit' = posit /\ user' = user
    BY <1>6 DEF Always
  <2>6. HandlersOK'
    BY <2>5, HandlersStay
  <2> QED
    BY <1>1, <2>1, <2>4, <2>6 DEF IInv
<1> QED
  BY <1>2, <1>3, <1>4, <1>5, <1>6 DEF Handler

\* The other producers leave the handlers, the list and the world alone.
LEMMA ProducersKeep ==
    ASSUME IInv, UNCHANGED <<list, handlers, air, net>>, QueuesOK'
    PROVE  IInv'
  BY DEF IInv, ListIsSeq, OutsideOK, HandlersOK, handlers, MayUseRF

LEMMA ReadComKeeps ==
    ASSUME IInv, NEW raw, NEW inet, NEW again, ReadCom(raw, inet, again),
           inet \/ raw.unreg => again
    PROVE  IInv'
<1> DEFINE a == aprsString(raw, {"srcTNC"}, inet)
           p == [a EXCEPT !.reformatted = again]
           reply == stsmReformat(Own("msg", p.src, {}))
<1>1. a = copy(a) /\ a.unreg = raw.unreg /\ a.inet = inet
  BY Constructed
<1>2. p = copy(p) /\ p.unreg = raw.unreg /\ p.inet = inet /\ p.reformatted = again
  <2> HIDE DEF a
  <2>1. LET q == [copy(a) EXCEPT !.reformatted = again] IN
        /\ q = copy(q) /\ q.reformatted = again
        /\ q.unreg = copy(a).unreg /\ q.inet = copy(a).inet
    BY DEF copy
  <2>2. copy(a).unreg = a.unreg /\ copy(a).inet = a.inet
    BY DEF copy
  <2> QED
    BY <1>1, <2>1, <2>2
<1>3. ~ComesBack(p) => ForInternet(p)
  <2> HIDE DEF p
  <2> QED
    BY <1>2 DEF ComesBack, ForInternet
<1>4. ForRadio(reply)
  <2> DEFINE own == Own("msg", p.src, {})
  <2>1. own = copy(own) /\ ~own.unreg
    BY OwnPacket
  <2> HIDE DEF own
  <2>2. ForRadio(stsmReformat(own))
    BY <2>1, Reformatted DEF ForRadio
  <2> QED
    BY <2>2 DEF own
<1>5. /\ tncQueue' \in queryResp(p, reply, tncQueue)
      /\ \/ sendQueue' = sendQueue
         \/ ~ComesBack(p) /\ sendQueue' = reformatAndSendMicE(p, sendQueue)
         \/ ~ComesBack(p) /\ sendQueue' = Put(ThirdParty(p, sendQueue), p)
      /\ UNCHANGED <<list, handlers, air, net>>
  BY DEF ReadCom
<1>6. /\ ThirdParty(p, sendQueue) \in Seq(ToSet(ThirdParty(p, sendQueue)))
      /\ \A x \in ToSet(ThirdParty(p, sendQueue)) : ForInternet(x)
  <2> HIDE DEF p
  <2> QED
    BY ThirdPartyTakes DEF IInv, QueuesOK
<1>7. QueuesOK'
  <2> HIDE DEF p, reply
  <2> QED
    BY <1>3, <1>4, <1>5, <1>6, SendQueueTakes, SendQueueTakesMicE, TncQueueTakesAnswer
       DEF IInv, QueuesOK
<1> QED
  BY <1>5, <1>7, ProducersKeep

LEMMA UDPKeeps ==
    ASSUME IInv, NEW p, UDPServerThread(p), ~p.unreg
    PROVE  IInv'
<1> DEFINE q == aprsString(p, {"srcUDP"}, FALSE)
<1>1. q = copy(q) /\ ~q.unreg /\ ~q.inet /\ q.EchoMask \subseteq {"srcUDP", "src3RDPARTY"}
  BY DEF aprsString, copy
<1>2. ForInternet(q) /\ ForRadio(q)
  <2> HIDE DEF q
  <2> QED
    BY <1>1 DEF ForInternet, ForRadio, Outgoing
<1>3. /\ \/ tncQueue' = Put(tncQueue, q) /\ sendQueue' = sendQueue
         \/ sendQueue' = Put(sendQueue, q) /\ tncQueue' = tncQueue
      /\ UNCHANGED <<list, handlers, air, net>>
  BY DEF UDPServerThread
<1>4. QueuesOK'
  <2> HIDE DEF q
  <2> QED
    BY <1>2, <1>3, SendQueueTakes, TncQueueTakes DEF IInv, QueuesOK
<1> QED
  BY <1>3, <1>4, ProducersKeep

LEMMA MainKeeps ==
    ASSUME IInv, NetBeacon \/ TncBeacon \/ \E s \in posit_rfcall : schedule_posit2RF(s)
    PROVE  IInv'
<1>1. CASE NetBeacon
  <2>1. ForInternet(Own("status", None, {"srcSYSTEM"}))
    BY OwnPacketKind
  <2>2. QueuesOK' /\ UNCHANGED <<list, handlers, air, net>>
    BY <1>1, <2>1, SendQueueTakes DEF IInv, QueuesOK, NetBeacon, world
  <2> QED
    BY <2>2, ProducersKeep
<1>2. CASE TncBeacon
  <2>1. ForRadio(Own("status", None, {"srcSYSTEM"}))
    BY OwnPacketKind
  <2>2. QueuesOK' /\ UNCHANGED <<list, handlers, air, net>>
    BY <1>2, <2>1, TncQueueTakes DEF IInv, QueuesOK, TncBeacon, world
  <2> QED
    BY <2>2, ProducersKeep
<1>3. ASSUME NEW s \in posit_rfcall, schedule_posit2RF(s)
      PROVE  IInv'
  <2> DEFINE q == getPosit(s, {"srcIGATE", "srcUSERVALID", "srcUSER"})
  <2>1. q # Nothing /\ tncQueue' = Put(tncQueue, stsmReformat(q)) /\ sendQueue' = sendQueue
        /\ UNCHANGED <<list, handlers, air, net>>
    BY <1>3 DEF schedule_posit2RF, world
  <2>2. q = copy(q) /\ q.type \in {"posit", "nmea"}
    BY <2>1, PositFound DEF IInv
  <2> HIDE DEF q
  <2>3. ForRadio(stsmReformat(q))
    BY <2>2, RFPositKind
  <2>4. QueuesOK'
    BY <2>1, <2>3, TncQueueTakes DEF IInv, QueuesOK
  <2> QED
    BY <2>1, <2>4, ProducersKeep
<1> QED
  BY <1>1, <1>2, <1>3

\* The list stays a sequence.
LEMMA AddedIsSeq ==
    ASSUME ListIsSeq, NEW p
    PROVE  Added(p) \in Seq(ToSet(Added(p)))
<1> DEFINE K == {e \in ToSet(list) : ~SameKind(e, p)}
           r == IF Len(list) <= 1 THEN list ELSE Keeping(list, K)
<1>1. Keeping(list, K) \in Seq(ToSet(Keeping(list, K)))
  BY KeepingIsSeq DEF ListIsSeq
<1>2. r \in Seq(ToSet(r))
  BY <1>1 DEF ListIsSeq
<1>3. Added(p) = Append(r, p)
  BY DEF Added
<1> HIDE DEF r
<1>4. r \in Seq(ToSet(r) \cup {p})
  BY <1>2, SeqMonotonic
<1>5. Append(r, p) \in Seq(ToSet(r) \cup {p})
  BY <1>4, AppendProperties
<1> QED
  BY <1>3, <1>5, SeqOfItsElements

LEMMA LogonKeeps ==
    ASSUME IInv, NEW h \in Sessions, NEW l, Logon(h, l)
    PROVE  IInv'
<1>1. /\ at[h] = "idle" /\ at' = at /\ packet' = packet /\ posit' = posit
      /\ user' = [user EXCEPT ![h] = user'[h]]
      /\ UNCHANGED <<shared, world>>
  BY DEF Logon, IInv, HandlersOK
<1>2. user' = [g \in Sessions |-> user'[g]] /\ \A g \in Sessions : g # h => user'[g] = user[g]
  BY <1>1 DEF IInv, HandlersOK
<1>3. HandlersOK'
  <2>1. \A g \in Threads : at[g] # "idle" => (MayUseRF(g)' <=> MayUseRF(g))
    BY <1>1, <1>2, RoutingAssumption DEF MayUseRF, Threads
  <2>2. \A g \in Threads : at[g] # "idle" =>
           /\ g \in Sessions /\ user'[g].verified => ~packet[g].unreg
           /\ g \in Igates /\ packet[g].unreg => packet[g].path = "TCPXX*"
    BY <1>1, <1>2 DEF IInv, HandlersOK
  <2> QED
    BY <1>1, <1>2, <2>1, <2>2 DEF IInv, HandlersOK
<1> QED
  BY <1>1, <1>3 DEF IInv, ListIsSeq, QueuesOK, OutsideOK, shared, world

\* What other servers get of an unregistered user's says TCPXX*.
LEMMA DeQueueKeeps ==
    ASSUME IInv, DeQueue
    PROVE  IInv'
<1> DEFINE head == Head(sendQueue)
           abuff == [head EXCEPT !.dest = "INET", !.ttl = ttlDefault]
<1>1. /\ sendQueue # <<>> /\ sendQueue' = Tail(sendQueue)
      /\ net' = Passed(abuff)
      /\ list' = list \/ list' = Added(abuff)
      /\ UNCHANGED <<tncQueue, handlers, air>>
  BY DEF DeQueue
<1>2. head \in ToSet(sendQueue)
      /\ sendQueue' \in Seq(ToSet(sendQueue')) /\ ToSet(sendQueue') \subseteq ToSet(sendQueue)
  BY <1>1, TailTakes DEF IInv, QueuesOK
<1>3. ForInternet(head)
  BY <1>2 DEF IInv, QueuesOK
<1>4. abuff.EchoMask = head.EchoMask /\ abuff.path = head.path /\ abuff.unreg = head.unreg
  <2> HIDE DEF head
  <2>1. LET q == [copy(head) EXCEPT !.dest = "INET", !.ttl = ttlDefault] IN
        q.EchoMask = copy(head).EchoMask /\ q.path = copy(head).path
        /\ q.unreg = copy(head).unreg
    BY DEF copy
  <2> QED
    BY <1>3, <2>1 DEF ForInternet
<1>5. OutsideOK'
  <2> HIDE DEF head, abuff
  <2>1. \A x \in Passed(abuff) : x \in net \/ (x.unreg => x.path = "TCPXX*")
    <3>1. CASE abuff.EchoMask \cap Outgoing = {}
      BY <3>1 DEF Passed, Outgoing
    <3>2. CASE abuff.EchoMask \cap Outgoing # {}
      <4>1. abuff.unreg => abuff.path = "TCPXX*"
        BY <1>3, <1>4, <3>2 DEF ForInternet
      <4> QED
        BY <4>1 DEF Passed
    <3> QED
      BY <3>1, <3>2
  <2> QED
    BY <1>1, <2>1 DEF IInv, OutsideOK
<1>6. ListIsSeq'
  <2> HIDE DEF abuff
  <2> QED
    BY <1>1, AddedIsSeq DEF IInv, ListIsSeq
<1>7. QueuesOK'
  BY <1>1, <1>2 DEF IInv, QueuesOK
<1>8. HandlersOK'
  BY <1>1 DEF IInv, HandlersOK, handlers, MayUseRF
<1> QED
  BY <1>5, <1>6, <1>7, <1>8 DEF IInv

\* What the TNC transmits of the Internet's or of an unregistered user's is marked.
LEMMA dequeueTNCKeeps ==
    ASSUME IInv, dequeueTNC
    PROVE  IInv'
<1> DEFINE head == Head(tncQueue)
           abuff == [head EXCEPT !.dest = "TNC", !.ttl = ttlTNC, !.EchoMask = {}]
           sentNow == [type |-> abuff.type, to |-> abuff.to, unreg |-> abuff.unreg,
                       inet |-> abuff.inet, reformatted |-> abuff.reformatted]
<1>1. /\ tncQueue # <<>> /\ tncQueue' = Tail(tncQueue)
      /\ \/ UNCHANGED <<list, air>>
         \/ list' = Added(abuff) /\ air' = air \cup {sentNow}
      /\ UNCHANGED <<sendQueue, handlers, net>>
  BY DEF dequeueTNC
<1>2. head \in ToSet(tncQueue)
      /\ tncQueue' \in Seq(ToSet(tncQueue')) /\ ToSet(tncQueue') \subseteq ToSet(tncQueue)
  BY <1>1, TailTakes DEF IInv, QueuesOK
<1>3. ForRadio(head)
  BY <1>2 DEF IInv, QueuesOK
<1>4. abuff.inet = head.inet /\ abuff.reformatted = head.reformatted
      /\ abuff.unreg = head.unreg
  <2> HIDE DEF head
  <2>1. LET q == [copy(head) EXCEPT !.dest = "TNC", !.ttl = ttlTNC, !.EchoMask = {}] IN
        q.inet = copy(head).inet /\ q.reformatted = copy(head).reformatted
        /\ q.unreg = copy(head).unreg
    BY DEF copy
  <2> QED
    BY <1>3, <2>1 DEF ForRadio
<1>5. sentNow.inet \/ sentNow.unreg => sentNow.reformatted
  <2> HIDE DEF head, abuff
  <2> QED
    BY <1>3, <1>4 DEF ForRadio
<1>6. OutsideOK'
  <2> HIDE DEF sentNow
  <2> QED
    BY <1>1, <1>5 DEF IInv, OutsideOK
<1>7. ListIsSeq'
  <2> HIDE DEF abuff
  <2> QED
    BY <1>1, AddedIsSeq DEF IInv, ListIsSeq
<1>8. QueuesOK'
  BY <1>1, <1>2 DEF IInv, QueuesOK
<1>9. HandlersOK'
  BY <1>1 DEF IInv, HandlersOK, handlers, MayUseRF
<1> QED
  BY <1>6, <1>7, <1>8, <1>9 DEF IInv

\* Ageing takes packets out of the list, and a round changes only the clock.
LEMMA DeleteOldItemsKeeps ==
    ASSUME IInv, DeleteOldItems
    PROVE  IInv'
<1>1. Older \in Seq(ToSet(Older))
  <2>1. Len(list) \in Nat /\ DOMAIN list = 1 .. Len(list)
    BY LenProperties DEF IInv, ListIsSeq
  <2>2. Older \in [1 .. Len(list) -> ToSet(Older)]
    BY <2>1 DEF Older, ToSet
  <2> QED
    BY <2>1, <2>2
<1>2. Aged \in Seq(ToSet(Aged))
  BY <1>1, KeepingIsSeq DEF Aged
<1>3. list' = list \/ list' = Aged
  BY DEF DeleteOldItems
<1>4. ListIsSeq'
  BY <1>2, <1>3 DEF IInv, ListIsSeq
<1>5. UNCHANGED <<sendQueue, tncQueue, handlers, air, net>>
  BY DEF DeleteOldItems, world
<1>6. QueuesOK' /\ OutsideOK' /\ HandlersOK'
  BY <1>5 DEF IInv, QueuesOK, OutsideOK, HandlersOK, handlers, MayUseRF
<1> QED
  BY <1>4, <1>6 DEF IInv

LEMMA RoundKeeps ==
    ASSUME IInv, Round
    PROVE  IInv'
<1>1. UNCHANGED <<list, sendQueue, tncQueue, handlers, air, net>>
  BY DEF Round, shared, world
<1> QED
  BY <1>1 DEF IInv, ListIsSeq, QueuesOK, OutsideOK, HandlersOK, handlers, MayUseRF

LEMMA IInvHolds == Spec => []IInv
<1>1. Init => IInv
  <2> SUFFICES ASSUME Init PROVE IInv
    OBVIOUS
  <2>1. ToSet(<<>>) = {} /\ <<>> \in Seq({})
    BY DEF ToSet
  <2>2. ListIsSeq /\ QueuesOK
    BY <2>1 DEF Init, ListIsSeq, QueuesOK
  <2>3. OutsideOK
    BY DEF Init, OutsideOK
  <2>4. HandlersOK
    BY DEF Init, HandlersOK
  <2> QED
    BY <2>2, <2>3, <2>4 DEF IInv
<1>2. IInv /\ [Next]_vars => IInv'
  <2> SUFFICES ASSUME IInv, [Next]_vars PROVE IInv'
    OBVIOUS
  <2> USE RoutingAssumption, TrustAssumption
  <2>1. CASE \E h \in Igates, p \in FromServers \cup net : Receive(h, p)
    BY <2>1, ReceiveKeeps DEF Threads
  <2>2. CASE \E h \in Sessions, p \in FromUsers : Receive(h, p)
    BY <2>2, ReceiveKeeps DEF Threads
  <2>3. CASE \E h \in Sessions, l \in Logons : Logon(h, l)
    BY <2>3, LogonKeeps
  <2>4. CASE \E h \in Threads : Handler(h)
    BY <2>4, HandlerKeeps
  <2>5. CASE \E p \in HeardOnRF : ReadCom(p, FALSE, FALSE)
    BY <2>5, ReadComKeeps
  <2>6. CASE \E p \in air : ReadCom(Digipeated(p), p.inet, p.reformatted)
    BY <2>6, ReadComKeeps DEF IInv, OutsideOK, Digipeated
  <2>7. CASE \E p \in FromUDP : UDPServerThread(p)
    BY <2>7, UDPKeeps
  <2>8. CASE NetBeacon \/ TncBeacon \/ \E s \in posit_rfcall : schedule_posit2RF(s)
    BY <2>8, MainKeeps
  <2>9. CASE DeQueue \/ dequeueTNC \/ DeleteOldItems \/ Round
    BY <2>9, DeQueueKeeps, dequeueTNCKeeps, DeleteOldItemsKeeps, RoundKeeps
  <2>10. CASE UNCHANGED vars
    BY <2>10 DEF vars, shared, handlers, world, IInv, ListIsSeq, QueuesOK, OutsideOK,
                 HandlersOK, MayUseRF
  <2> QED
    BY <2>1, <2>2, <2>3, <2>4, <2>5, <2>6, <2>7, <2>8, <2>9, <2>10 DEF Next
<1> QED
  BY <1>1, <1>2, PTL DEF Spec

\* No message of an unregistered user is ever queued for the radio, neither by
\* his own session nor when another server sends it back (aprsd.cpp 1563-1619,
\* 2243-2248).
THEOREM UnregisteredStayOffRF == Spec => []UnregisteredNotOnRF
<1>1. IInv => UnregisteredNotOnRF
  BY DEF IInv, QueuesOK, ForRadio, UnregisteredNotOnRF
<1> QED
  BY <1>1, IInvHolds, PTL

\* What the TNC transmitted of the Internet's is never sent to the Internet
\* again, whatever igateMyCall says (serialp.cpp 399-406).
THEOREM TransmittedDoesNotReturn == Spec => []NothingReturns
<1>1. IInv => NothingReturns
  BY DEF IInv, QueuesOK, ForInternet, NothingReturns
<1> QED
  BY <1>1, IInvHolds, PTL
-------------------------------------------------------------------------------
(***************************************************************************)
(* What the packets are, where their numbers are, and what the list says of *)
(* the past: for the types, for DestinationHeard and PositPacedByHandler.   *)
(***************************************************************************)
Posits == {"posit", "nmea"}
Addressed == Callers \cup {None, "TNC", ServerCall}

\* A packet there may be at time t.
Formed(t) ==
    {p \in Packets :
       /\ p.timeRF <= t
       /\ p.ID # 0 <=> p.type \in Posits
       /\ p.EchoMask \cap Outgoing # {} => p.src \in Callers}

Everywhere ==
    ToSet(list) \cup ToSet(sendQueue) \cup ToSet(tncQueue) \cup {posit[h] : h \in Threads}

\* r is q with packets behind it that have no number, are copies in C, or, one
\* of them, have the number n that was given.
Adds(r, q, C, n) ==
    /\ r \in Seq(Formed(now)) /\ Len(q) <= Len(r) /\ Len(r) <= QueueSize
    /\ \A i \in 1 .. Len(q) : r[i] = q[i]
    /\ \A i \in 1 .. Len(r) : i > Len(q) => r[i].ID = 0 \/ r[i] \in C \/ r[i].ID = n
    /\ n # 0 => \A i, j \in 1 .. Len(r) :
                   i > Len(q) /\ j > Len(q) /\ r[i].ID = n /\ r[j].ID = n => i = j

Same(x, e) == x.ID = e.ID /\ x.src = e.src /\ x.type = e.type

\* What ThirdParty and schedule_posit2RF make of the packets in the list.
ThirdParties ==
    {x \in Formed(now) : "src3RDPARTY" \in x.EchoMask /\ \E e \in ToSet(list) : Same(x, e)}
Scheduled ==
    {x \in Formed(now) : x.src \in posit_rfcall /\ \E e \in ToSet(list) : Same(x, e)}

QueueOK(q) == q \in Seq(Formed(now)) /\ Len(q) <= QueueSize

\* The number that the next posit gets.
NewNumber == CHOOSE n \in Numbers : n \notin Used

LEMMA AddsNothing ==
    ASSUME NEW q, QueueOK(q), NEW C, NEW n
    PROVE  Adds(q, q, C, n)
<1>1. q \in Seq(Formed(now)) /\ Len(q) \in Nat
  BY DEF QueueOK
<1> QED
  BY <1>1 DEF Adds, QueueOK

\* One more packet, if there is room, without a number, a copy, or the one with
\* the number.
LEMMA AddsOneMore ==
    ASSUME NEW q, QueueOK(q), NEW C, NEW n, NEW r, Adds(r, q, C, n), NEW x \in Formed(now),
           x.ID = 0 \/ x \in C \/ x.ID = n,
           n # 0 /\ x.ID = n => \A i \in 1 .. Len(r) : i > Len(q) => r[i].ID # n
    PROVE  Adds(Put(r, x), q, C, n)
<1>1. r \in Seq(Formed(now)) /\ Len(r) \in Nat /\ Len(q) \in Nat
  BY DEF QueueOK, Adds
<1>2. CASE ~(Len(r) < QueueSize)
  BY <1>2 DEF Put
<1>3. CASE Len(r) < QueueSize
  <2> DEFINE s == Append(r, x)
  <2>1. /\ s \in Seq(Formed(now)) /\ Len(s) = Len(r) + 1 /\ s[Len(s)] = x
        /\ \A i \in 1 .. Len(r) : s[i] = r[i]
    BY <1>1, AppendProperties
  <2> HIDE DEF s
  <2>2. \A i \in 1 .. Len(s) : i \in 1 .. Len(r) \/ i = Len(s)
    BY <1>1, <2>1
  <2>3. Len(s) <= QueueSize
    BY <1>1, <1>3, <2>1, RoutingAssumption
  <2>4. \A i \in 1 .. Len(q) : s[i] = q[i]
    BY <1>1, <2>1 DEF Adds
  <2>5. \A i \in 1 .. Len(s) : i > Len(q) => s[i].ID = 0 \/ s[i] \in C \/ s[i].ID = n
    BY <2>1, <2>2 DEF Adds
  <2>6. n # 0 => \A i, j \in 1 .. Len(s) :
                    i > Len(q) /\ j > Len(q) /\ s[i].ID = n /\ s[j].ID = n => i = j
    BY <2>1, <2>2 DEF Adds
  <2>7. Adds(s, q, C, n)
    BY <1>1, <2>1, <2>3, <2>4, <2>5, <2>6 DEF Adds
  <2> QED
    BY <1>3, <2>7 DEF Put, s
<1> QED
  BY <1>2, <1>3

\* A packet that is parsed gets a number if it is a posit.
LEMMA MadeAnew ==
    ASSUME NEW p, p.src \in Callers \cup {ServerCall}, p.type \in Types, p.to \in Addressed,
           p.path \in Paths, p.unreg \in BOOLEAN,
           NEW mask \in SUBSET Masks, mask \cap Outgoing # {} => p.src \in Callers,
           NEW inet \in BOOLEAN, now \in Nat, HasNumber \/ p.type \notin Posits
    PROVE  LET a == aprsString(p, mask, inet) IN
           /\ a \in Formed(now)
           /\ a.ID = IF p.type \in Posits THEN NewNumber ELSE 0
           /\ a.src = p.src /\ a.type = p.type /\ a.to = p.to /\ a.path = p.path
           /\ a.unreg = p.unreg /\ a.inet = inet
           /\ a.EchoMask = IF p.type = "msg" THEN mask \cup {"src3RDPARTY"} ELSE mask
<1> DEFINE id == IF p.type \in Posits THEN NewNumber ELSE 0
           m == IF p.type = "msg" THEN mask \cup {"src3RDPARTY"} ELSE mask
<1>1. id \in Numbers \cup {0} /\ (id # 0 <=> p.type \in Posits)
  <2>1. CASE p.type \in Posits
    <3>1. \E n \in Numbers : n \notin Used
      BY <2>1 DEF HasNumber
    <3>2. NewNumber \in Numbers
      BY <3>1 DEF NewNumber
    <3>3. 0 \notin Numbers
      BY RoutingAssumption
    <3> QED
      BY <2>1, <3>2, <3>3
  <2>2. CASE p.type \notin Posits
    BY <2>2
  <2> QED
    BY <2>1, <2>2
<1>2. m \in SUBSET Masks /\ m \cap Outgoing = mask \cap Outgoing
  BY DEF Masks, Outgoing
<1>3. aprsString(p, mask, inet) =
        [src |-> p.src, type |-> p.type, to |-> p.to, path |-> p.path, unreg |-> p.unreg,
         EchoMask |-> m, reformatted |-> FALSE, timeRF |-> Never, ID |-> id,
         dest |-> None, ttl |-> 0, inet |-> inet]
  BY DEF aprsString, Posits, NewNumber
<1> HIDE DEF id, m
<1>4. aprsString(p, mask, inet) \in Packets
  BY <1>1, <1>2, <1>3 DEF Packets, Addressed
<1>5. Never <= now
  BY DEF Never
<1>6. aprsString(p, mask, inet) \in Formed(now)
  BY <1>1, <1>2, <1>3, <1>4, <1>5 DEF Formed
<1> QED
  BY <1>3, <1>6 DEF id, m

\* A packet stays the same packet when its marks are changed.
LEMMA Edited ==
    ASSUME NEW p \in Formed(now), NEW path \in Paths, NEW mask \in SUBSET Masks,
           mask \cap Outgoing # {} => p.src \in Callers, NEW b \in BOOLEAN
    PROVE  /\ [p EXCEPT !.reformatted = b] \in Formed(now)
           /\ Same([p EXCEPT !.reformatted = b], p)
           /\ [p EXCEPT !.reformatted = b].EchoMask = p.EchoMask
           /\ [p EXCEPT !.path = path] \in Formed(now)
           /\ Same([p EXCEPT !.path = path], p)
           /\ [p EXCEPT !.path = path].EchoMask = p.EchoMask
           /\ [p EXCEPT !.EchoMask = mask] \in Formed(now)
           /\ Same([p EXCEPT !.EchoMask = mask], p)
           /\ [p EXCEPT !.EchoMask = mask].EchoMask = mask
  BY DEF Formed, Packets, Same

LEMMA PathEdited ==
    ASSUME NEW p \in Formed(now), NEW new \in Paths, NEW old
    PROVE  /\ changePath(p, new, old) \in Formed(now) /\ Same(changePath(p, new, old), p)
           /\ changePath(p, new, old).EchoMask = p.EchoMask
<1>1. Same(p, p)
  BY DEF Same
<1>2. p.EchoMask \in SUBSET Masks /\ (p.EchoMask \cap Outgoing # {} => p.src \in Callers)
  BY DEF Formed, Packets
<1> QED
  BY <1>1, <1>2, Edited DEF changePath

LEMMA Marked3rdParty ==
    ASSUME NEW p \in Formed(now)
    PROVE  /\ stsmReformat(p) \in Formed(now) /\ Same(stsmReformat(p), p)
           /\ stsmReformat(p).EchoMask = p.EchoMask
<1>1. {} \in SUBSET Masks /\ {} \cap Outgoing = {} /\ "rf" \in Paths
  BY DEF Paths
<1> QED
  BY <1>1, Edited DEF stsmReformat

\* getPosit returns what is in the list.
LEMMA PositListed ==
    ASSUME list \in Seq(Formed(now)), NEW s, NEW mask, getPosit(s, mask) # Nothing
    PROVE  LET g == getPosit(s, mask) IN
           /\ g \in ToSet(list) /\ g \in Formed(now)
           /\ g.src = s /\ g.type \in Posits /\ g.EchoMask \cap mask # {}
<1> DEFINE I == {i \in DOMAIN list : /\ list[i].src = s
                                     /\ list[i].type \in {"posit", "nmea"}
                                     /\ list[i].EchoMask \cap mask # {}}
<1>1. I # {} /\ getPosit(s, mask) = copy(list[Max(I)])
  BY DEF getPosit
<1>2. Len(list) \in Nat /\ I \subseteq 1 .. Len(list)
  OBVIOUS
<1>3. Max(I) \in I
  BY <1>1, <1>2, LastIndex
<1>4. /\ list[Max(I)] \in Formed(now) /\ list[Max(I)] \in ToSet(list)
      /\ list[Max(I)].src = s /\ list[Max(I)].type \in Posits
      /\ list[Max(I)].EchoMask \cap mask # {}
  <2>1. \A i \in I : /\ i \in DOMAIN list /\ list[i].src = s
                      /\ list[i].type \in {"posit", "nmea"} /\ list[i].EchoMask \cap mask # {}
    OBVIOUS
  <2> HIDE DEF I
  <2>2. Max(I) \in DOMAIN list
    BY <1>3, <2>1
  <2>3. list[Max(I)] \in Formed(now) /\ list[Max(I)] \in ToSet(list)
    BY <2>2 DEF ToSet
  <2> QED
    BY <1>3, <2>1, <2>3 DEF Posits
<1> HIDE DEF I
<1>5. \A p \in Packets : copy(p) = p
  BY DEF copy, Packets
<1> QED
  BY <1>1, <1>4, <1>5 DEF Formed

\* What a Mic-E packet decodes to.
LEMMA DecodedForm ==
    ASSUME now \in Nat, HasNumber, NEW p \in Formed(now), NEW type \in {"posit", "telemetry"}
    PROVE  LET d == mic_e_Reformat(p, type) IN
           /\ d \in Formed(now) /\ d.type = type /\ d.EchoMask = p.EchoMask
           /\ d.ID = IF type = "posit" THEN NewNumber ELSE 0
<1> DEFINE q == [p EXCEPT !.type = type]
           mask == p.EchoMask
           inet == p.inet
           new == aprsString(q, mask, inet)
<1>1. /\ p \in Packets /\ mask \in SUBSET Masks /\ inet \in BOOLEAN
      /\ p.reformatted \in BOOLEAN
  BY DEF Formed, Packets
<1>2. mask \cap Outgoing # {} => p.src \in Callers
  BY DEF Formed
<1>3. /\ q.src = p.src /\ q.type = type
      /\ q.src \in Callers \cup {ServerCall} /\ q.to \in Addressed /\ q.path \in Paths
      /\ q.unreg \in BOOLEAN
  BY <1>1 DEF Packets, Addressed
<1>4. type \in Types /\ type # "msg" /\ (type \in Posits <=> type = "posit")
  BY DEF Types, Posits
<1>5. mic_e_Reformat(p, type) = [new EXCEPT !.reformatted = p.reformatted]
  BY DEF mic_e_Reformat
<1> HIDE DEF q, mask, inet
<1>6. q.type \in Types /\ (mask \cap Outgoing # {} => q.src \in Callers)
  BY <1>2, <1>3, <1>4
<1>7. HasNumber \/ q.type \notin Posits
  OBVIOUS
<1>8. /\ new \in Formed(now) /\ new.ID = IF q.type \in Posits THEN NewNumber ELSE 0
      /\ new.type = q.type
      /\ new.EchoMask = IF q.type = "msg" THEN mask \cup {"src3RDPARTY"} ELSE mask
  BY <1>1, <1>3, <1>6, <1>7, MadeAnew
<1>9. /\ new.type = type /\ new.EchoMask = mask
      /\ new.ID = IF type = "posit" THEN NewNumber ELSE 0
  BY <1>3, <1>4, <1>8
<1> HIDE DEF new
<1> QED
  BY <1>1, <1>5, <1>8, <1>9 DEF Formed, Packets, mask

\* What the list, the queues and the handlers hold.
PacketsTyped ==
    /\ now \in Nat
    /\ list \in Seq(Formed(now))
    /\ QueueOK(sendQueue) /\ QueueOK(tncQueue)

HandlersTyped ==
    /\ at \in [Threads -> {"idle", "source", "posit", "stamp", "inet", "always"}]
    /\ packet \in [Threads -> Raw \cup {Nothing}]
    /\ posit \in [Threads -> Formed(now) \cup {Nothing}]
    /\ \A h \in Threads :
         /\ at[h] = "idle" <=> packet[h] = Nothing
         /\ at[h] = "stamp" <=> posit[h] # Nothing
         /\ posit[h] # Nothing => posit[h].type \in Posits
         /\ at[h] = "source" => packet[h].type = "msg"

WorldTyped ==
    /\ air \subseteq [type : Types, to : Addressed, unreg : BOOLEAN, inet : BOOLEAN,
                      reformatted : BOOLEAN]
    /\ net \subseteq Raw
    /\ sent \in [Threads -> [Numbers -> {Never} \cup 0 .. now]]

Typed == PacketsTyped /\ HandlersTyped /\ WorldTyped

\* A number stands for one packet and its copies.
Numbered ==
    \A x, y \in Everywhere : x.ID = y.ID /\ x.ID # 0 => Same(x, y)

\* A posit that is not in the list yet has no copies, and no handler has sent it.
Fresh ==
    \A i \in 1 .. Len(sendQueue) :
       sendQueue[i].ID # 0 /\ "src3RDPARTY" \notin sendQueue[i].EchoMask =>
          /\ \A j \in 1 .. Len(sendQueue) : sendQueue[j].ID = sendQueue[i].ID => j = i
          /\ \A x \in ToSet(list) \cup ToSet(tncQueue) \cup {posit[h] : h \in Threads} :
                x.ID # sendQueue[i].ID
          /\ \A h \in Threads : sent[h][sendQueue[i].ID] = Never

\* The posits that PositPacedByHandler is about, and those of them that getPosit
\* gives to a handler.
Paced(p) == p.type = "posit" /\ p.src \notin posit_rfcall
Original(p) == Paced(p) /\ p.EchoMask \cap {"srcIGATE", "srcUSERVALID"} # {}

\* A packet was stamped in this round, or in the last one and main has not yet
\* aged the list since; a handler that holds it has found it since then.
StampedLately(e, t, done, ps) ==
    \/ e.timeRF = t
    \/ /\ ~done /\ e.timeRF = t - 1
       /\ \A h \in Threads : ps[h] # Nothing /\ ps[h].ID = e.ID => ps[h].timeRF >= t - 1

\* The stamp of the original is no older than what was sent of it; copies are
\* those that were made of it since the list was aged.
Stamped ==
    \A i \in 1 .. Len(list) : Original(list[i]) =>
       /\ \A h \in Threads : sent[h][list[i].ID] <= list[i].timeRF
       /\ \A j \in 1 .. Len(list) : j # i /\ list[j].ID = list[i].ID =>
             StampedLately(list[i], now, aged, posit) /\ list[j].ttl <= ttlTNC
       /\ \A j \in 1 .. Len(tncQueue) : tncQueue[j].ID = list[i].ID =>
             list[i].timeRF = now

StampKnown ==
    \A h \in Threads : posit[h] # Nothing /\ Paced(posit[h]) =>
       sent[h][posit[h].ID] <= posit[h].timeRF

Pacing == Numbered /\ Fresh /\ Stamped /\ StampKnown

RInv == Typed /\ Pacing

LEMMA NumberIsNew ==
    ASSUME HasNumber
    PROVE  NewNumber \in Numbers /\ NewNumber \notin Used /\ NewNumber # 0
<1>1. \E n \in Numbers : n \notin Used
  BY DEF HasNumber
<1>2. NewNumber \in Numbers /\ NewNumber \notin Used
  BY <1>1 DEF NewNumber
<1> QED
  BY <1>2, RoutingAssumption

LEMMA InUse ==
    ASSUME NEW e \in Everywhere
    PROVE  e.ID \in Used
  BY DEF Everywhere, Used

\* A packet without a number changes nothing about the numbers.
LEMMA AddsUnnumbered ==
    ASSUME NEW q, QueueOK(q), NEW C, NEW n, NEW r, Adds(r, q, C, n), NEW x \in Formed(now),
           x.ID = 0
    PROVE  Adds(Put(r, x), q, C, n)
  BY AddsOneMore

LEMMA AnswersAdded ==
    ASSUME NEW q, QueueOK(q), NEW C, NEW p, NEW reply \in Formed(now), reply.ID = 0,
           NEW r \in queryResp(p, reply, q)
    PROVE  Adds(r, q, C, 0)
<1>1. Adds(q, q, C, 0)
  BY AddsNothing
<1>2. Adds(Put(q, reply), q, C, 0)
  BY <1>1, AddsUnnumbered
<1>3. Adds(Put(Put(q, reply), reply), q, C, 0)
  BY <1>2, AddsUnnumbered
<1> QED
  BY <1>1, <1>2, <1>3 DEF queryResp

LEMMA MicEAdded ==
    ASSUME now \in Nat, HasNumber, NEW q, QueueOK(q), NEW C, NEW p \in Formed(now)
    PROVE  Adds(reformatAndSendMicE(p, q), q, C, NewNumber)
<1> DEFINE x == mic_e_Reformat(p, "posit")
           y == mic_e_Reformat(p, "telemetry")
           one == IF "posit" \in fmt_mic_e[p.src] THEN Put(q, x) ELSE q
           n == NewNumber
<1>1. x \in Formed(now) /\ x.ID = n /\ y \in Formed(now) /\ y.ID = 0
  BY DecodedForm
<1>2. Adds(q, q, C, n)
  BY AddsNothing
<1>3. Len(q) \in Nat
  BY DEF QueueOK
<1> HIDE DEF x, y, n
<1>4. Adds(Put(q, x), q, C, n)
  BY <1>1, <1>2, <1>3, AddsOneMore
<1>5. Adds(one, q, C, n)
  BY <1>2, <1>4
<1> HIDE DEF one
<1>6. Adds(Put(one, y), q, C, n)
  BY <1>1, <1>5, AddsUnnumbered
<1> QED
  BY <1>5, <1>6 DEF reformatAndSendMicE, one, x, y, n

\* The copy for the message ports has the number of a packet in the list.
LEMMA ThirdPartyAdded ==
    ASSUME PacketsTyped, NEW n, n = 0 \/ n \notin Used, NEW p, NEW q, QueueOK(q),
           NEW r, Adds(r, q, ThirdParties, n)
    PROVE  /\ Adds(ThirdParty(p, r), q, ThirdParties, n)
           /\ \A x \in ToSet(ThirdParty(p, r)) : x \in ToSet(r) \/ x.ID \in Used
<1> DEFINE found == getPosit(p.src, {"srcIGATE", "srcUSERVALID", "srcTNC"})
           third == [found EXCEPT !.EchoMask = {"src3RDPARTY"}]
<1>1. CASE p.type = "msg" /\ found # Nothing
  <2>1. found \in ToSet(list) /\ found \in Formed(now)
    BY <1>1, PositListed DEF PacketsTyped
  <2>2. {"src3RDPARTY"} \in SUBSET Masks /\ {"src3RDPARTY"} \cap Outgoing = {}
        /\ "rf" \in Paths
    BY DEF Masks, Outgoing, Paths
  <2> HIDE DEF found
  <2>3. third \in Formed(now) /\ Same(third, found) /\ third.EchoMask = {"src3RDPARTY"}
    BY <2>1, <2>2, Edited
  <2>4. third.ID \in Used
    BY <2>1, <2>3, InUse DEF Same, Everywhere
  <2> HIDE DEF third
  <2>5. third \in ThirdParties
    BY <2>1, <2>3 DEF ThirdParties
  <2>6. n # 0 /\ third.ID = n => FALSE
    BY <2>4
  <2>7. Adds(Put(r, third), q, ThirdParties, n)
    BY <2>3, <2>5, <2>6, AddsOneMore
  <2>8. r \in Seq(ToSet(r))
    BY SeqOfItsElements DEF Adds
  <2>9. ToSet(Put(r, third)) \subseteq ToSet(r) \cup {third}
    BY <2>8, PutAdds
  <2> QED
    BY <1>1, <2>4, <2>7, <2>9 DEF ThirdParty, third, found
<1>2. CASE ~(p.type = "msg" /\ found # Nothing)
  BY <1>2 DEF ThirdParty
<1> QED
  BY <1>1, <1>2

LEMMA NewAdded ==
    ASSUME NEW q, QueueOK(q), NEW C, NEW n, NEW x \in Formed(now), x.ID = 0 \/ x.ID = n
    PROVE  Adds(Put(q, x), q, C, n)
<1>1. Adds(q, q, C, n)
  BY AddsNothing
<1>2. Len(q) \in Nat
  BY DEF QueueOK
<1> QED
  BY <1>1, <1>2, AddsOneMore

LEMMA InetAdded ==
    ASSUME PacketsTyped, HasNumber, NEW h \in Threads, NEW p \in Raw
    PROVE  Adds(inetpacket(h, p), sendQueue, ThirdParties, NewNumber)
<1> DEFINE new == aprsString(p, Mask(h), TRUE)
           bare == aprsString(p, {}, TRUE)
           mask == IF p.src = user[h].call /\ p.path \in {"TCPIP", "TCPIP*"}
                   THEN {"srcUSER"} ELSE {}
           q == changePath(new, "TCPIP*", "TCPIP")
           u == UnregisteredPath(bare)
           x == [u EXCEPT !.EchoMask = mask]
<1>1. /\ p.src \in Callers \cup {ServerCall} /\ p.src \in Callers /\ p.type \in Types
      /\ p.to \in Addressed /\ p.path \in Paths /\ p.unreg \in BOOLEAN
  BY DEF Raw, Addressed
<1>2. now \in Nat /\ QueueOK(sendQueue)
  BY DEF PacketsTyped
<1>3. Mask(h) \in SUBSET Masks /\ {} \in SUBSET Masks /\ mask \in SUBSET Masks
      /\ TRUE \in BOOLEAN
  BY DEF Mask, Masks
<1>4. /\ new \in Formed(now) /\ (new.ID = 0 \/ new.ID = NewNumber)
      /\ bare \in Formed(now) /\ (bare.ID = 0 \/ bare.ID = NewNumber)
      /\ bare.src = p.src
  <2> HIDE DEF mask
  <2>1. \A m \in SUBSET Masks :
          /\ aprsString(p, m, TRUE) \in Formed(now)
          /\ aprsString(p, m, TRUE).ID = IF p.type \in Posits THEN NewNumber ELSE 0
          /\ aprsString(p, m, TRUE).src = p.src
    BY <1>1, <1>2, <1>3, MadeAnew
  <2> QED
    BY <1>3, <2>1
<1>5. "TCPIP" \in Paths /\ "TCPIP*" \in Paths /\ "TCPXX*" \in Paths
  BY DEF Paths
<1> HIDE DEF new, bare, mask
<1>6. q \in Formed(now) /\ (q.ID = 0 \/ q.ID = NewNumber)
  BY <1>4, <1>5, PathEdited DEF Same
<1>7. u \in Formed(now) /\ (u.ID = 0 \/ u.ID = NewNumber) /\ u.src = p.src
  <2> DEFINE b == changePath(bare, "TCPIP*", "TCPIP")
  <2>1. b \in Formed(now) /\ Same(b, bare)
    BY <1>4, <1>5, PathEdited
  <2> HIDE DEF b
  <2>2. changePath(b, "TCPXX*", "TCPIP*") \in Formed(now) /\ Same(changePath(b, "TCPXX*", "TCPIP*"), b)
    BY <2>1, <1>5, PathEdited
  <2> QED
    BY <1>4, <2>1, <2>2 DEF UnregisteredPath, b, Same
<1> HIDE DEF q, u
<1>8. x \in Formed(now) /\ (x.ID = 0 \/ x.ID = NewNumber)
  <2>1. x \in Formed(now) /\ Same(x, u)
    BY <1>1, <1>3, <1>5, <1>7, Edited
  <2> HIDE DEF x
  <2> QED
    BY <1>7, <2>1 DEF Same
<1> HIDE DEF x
<1>9. Adds(Put(sendQueue, q), sendQueue, ThirdParties, NewNumber)
  BY <1>2, <1>6, NewAdded
<1>10. Adds(Put(sendQueue, x), sendQueue, ThirdParties, NewNumber)
  BY <1>2, <1>8, NewAdded
<1>11. Adds(reformatAndSendMicE(new, sendQueue), sendQueue, ThirdParties, NewNumber)
  BY <1>2, <1>4, MicEAdded
<1>12. Adds(sendQueue, sendQueue, ThirdParties, NewNumber)
  BY <1>2, AddsNothing
<1>13. inetpacket(h, p) \in {reformatAndSendMicE(new, sendQueue), Put(sendQueue, q),
                             sendQueue, Put(sendQueue, x)}
  BY DEF inetpacket, OfUnregistered, new, q, u, x, bare, mask
<1> QED
  BY <1>9, <1>10, <1>11, <1>12, <1>13

\* What handlers sent is forgotten at most, and of a number given out anew it is.
LEMMA SentForgets ==
    ASSUME WorldTyped, now' = now, aged' = aged, NEW r, NEW q, NumberGiven(r, q)
    PROVE  /\ sent' \in [Threads -> [Numbers -> {Never} \cup 0 .. now']]
           /\ \A h \in Threads, k \in Numbers : sent'[h][k] \in {sent[h][k], Never}
           /\ \A x \in ToSet(r) : x.ID \in Numbers \ Used =>
                 \A h \in Threads : sent'[h][x.ID] = Never \/ x \in ToSet(q)
<1> DEFINE new == {p.ID : p \in ToSet(r) \ ToSet(q)} \ Used
<1>1. sent' = [h \in Threads |-> [n \in Numbers |-> IF n \in new THEN Never ELSE sent[h][n]]]
  BY DEF NumberGiven
<1>2. \A x \in ToSet(r) : x.ID \notin Used => x \in ToSet(q) \/ x.ID \in new
  OBVIOUS
<1> HIDE DEF new
<1>3. sent \in [Threads -> [Numbers -> {Never} \cup 0 .. now]]
  BY DEF WorldTyped
<1>4. \A h \in Threads, k \in Numbers :
        sent'[h][k] = IF k \in new THEN Never ELSE sent[h][k]
  BY <1>1
<1>5. \A h \in Threads : sent'[h] = [n \in Numbers |-> IF n \in new THEN Never ELSE sent[h][n]]
  BY <1>1
<1>6. \A h \in Threads : sent'[h] \in [Numbers -> {Never} \cup 0 .. now]
  <2> SUFFICES ASSUME NEW h \in Threads
               PROVE  sent'[h] \in [Numbers -> {Never} \cup 0 .. now]
    OBVIOUS
  <2>1. \A n \in Numbers : sent'[h][n] \in {Never} \cup 0 .. now
    BY <1>3, <1>4
  <2>2. sent'[h] = [n \in Numbers |-> sent'[h][n]]
    BY <1>4, <1>5
  <2> QED
    BY <2>1, <2>2
<1>7. sent' \in [Threads -> [Numbers -> {Never} \cup 0 .. now]]
  BY <1>1, <1>5, <1>6
<1> QED
  BY <1>2, <1>4, <1>7

\* What a step leaves of the numbers if its packets are old, unnumbered, copies
\* of old ones, or one new.
LEMMA StaysNumbered ==
    ASSUME Numbered, NEW n,
           \A x \in Everywhere' : x.ID = 0 \/ x.ID = n \/ \E e \in Everywhere : Same(x, e),
           \A x, y \in Everywhere' : x.ID = n /\ y.ID = n /\ n # 0 => x = y
    PROVE  Numbered'
<1> SUFFICES ASSUME NEW x \in Everywhere', NEW y \in Everywhere', x.ID = y.ID, x.ID # 0
             PROVE  Same(x, y)
  BY DEF Numbered, Same
<1>1. CASE x.ID = n
  BY <1>1 DEF Same
<1>2. CASE x.ID # n
  <2>1. PICK e \in Everywhere : Same(x, e)
    BY <1>2
  <2>2. PICK f \in Everywhere : Same(y, f)
    BY <1>2
  <2>3. Same(e, f)
    BY ZenonT(60), <2>1, <2>2 DEF Numbered, Same
  <2> QED
    BY <2>1, <2>2, <2>3 DEF Same
<1> QED
  BY <1>1, <1>2

\* The places of what is in a queue.
LEMMA InQueue ==
    ASSUME NEW X, NEW q \in Seq(X)
    PROVE  /\ \A i \in 1 .. Len(q) : q[i] \in ToSet(q) /\ q[i] \in X
           /\ \A x \in ToSet(q) : \E i \in 1 .. Len(q) : q[i] = x
           /\ Len(q) \in Nat
  BY DEF ToSet

\* The producers: a number that is given out is nowhere else.
LEMMA ProducedKeeps ==
    ASSUME PacketsTyped, HandlersTyped, Pacing, list' = list, posit' = posit, now' = now, aged' = aged,
           NEW n, n = 0 \/ n \notin Used, NEW m, m = 0 \/ m \notin Used, n = 0 \/ m = 0,
           Adds(sendQueue', sendQueue, ThirdParties, n),
           Adds(tncQueue', tncQueue, Scheduled, m),
           \A h \in Threads, k \in Numbers : sent'[h][k] \in {sent[h][k], Never},
           \A i \in 1 .. Len(sendQueue') :
              i > Len(sendQueue) /\ sendQueue'[i].ID = n /\ n # 0 =>
                 \A h \in Threads : sent'[h][n] = Never
    PROVE  Pacing'
<1> DEFINE k == IF n = 0 THEN m ELSE n
<1>1. /\ sendQueue \in Seq(Formed(now)) /\ sendQueue' \in Seq(Formed(now))
      /\ tncQueue \in Seq(Formed(now)) /\ tncQueue' \in Seq(Formed(now))
      /\ list \in Seq(Formed(now))
  BY DEF PacketsTyped, QueueOK, Adds
<1>2. /\ Len(sendQueue) \in Nat /\ Len(sendQueue') \in Nat
      /\ Len(tncQueue) \in Nat /\ Len(tncQueue') \in Nat
  BY <1>1
<1>3. \A e \in Everywhere : e.ID \in Used
  BY InUse
<1>4. \A x \in ThirdParties \cup Scheduled : \E e \in ToSet(list) : Same(x, e)
  BY DEF ThirdParties, Scheduled
<1>5. \A x \in ThirdParties \cup Scheduled : x.ID \in Used
  BY <1>3, <1>4 DEF Same, Everywhere
<1>6. ASSUME NEW i \in 1 .. Len(sendQueue')
      PROVE  \/ i \in 1 .. Len(sendQueue) /\ sendQueue'[i] = sendQueue[i]
                /\ sendQueue[i] \in Everywhere
             \/ i > Len(sendQueue) /\ (\/ sendQueue'[i].ID = 0
                                       \/ sendQueue'[i] \in ThirdParties
                                       \/ sendQueue'[i].ID = n)
  BY <1>1, <1>2, InQueue DEF Adds, Everywhere
<1>7. ASSUME NEW i \in 1 .. Len(tncQueue')
      PROVE  \/ i \in 1 .. Len(tncQueue) /\ tncQueue'[i] = tncQueue[i]
                /\ tncQueue[i] \in Everywhere
             \/ i > Len(tncQueue) /\ (\/ tncQueue'[i].ID = 0
                                      \/ tncQueue'[i] \in Scheduled
                                      \/ tncQueue'[i].ID = m)
  BY <1>1, <1>2, InQueue DEF Adds, Everywhere
<1>8. Numbered'
  <2>1. ASSUME NEW x \in Everywhere'
        PROVE  \/ x.ID = 0 \/ x.ID = k \/ \E e \in Everywhere : Same(x, e)
    <3>1. CASE x \in ToSet(list) \cup {posit[h] : h \in Threads}
      BY <3>1 DEF Everywhere, Same
    <3>2. CASE x \in ToSet(sendQueue')
      <4>1. PICK i \in 1 .. Len(sendQueue') : sendQueue'[i] = x
        BY <1>1, <3>2, InQueue
      <4> QED
        BY <1>4, <1>6, <4>1 DEF Everywhere, Same
    <3>3. CASE x \in ToSet(tncQueue')
      <4>1. PICK i \in 1 .. Len(tncQueue') : tncQueue'[i] = x
        BY <1>1, <3>3, InQueue
      <4> QED
        BY <1>4, <1>7, <4>1 DEF Everywhere, Same
    <3>4. x \in ToSet(list) \cup {posit[h] : h \in Threads} \/ x \in ToSet(sendQueue') \/ x \in ToSet(tncQueue')
      BY DEF Everywhere
    <3> QED
      BY <3>1, <3>2, <3>3, <3>4
  <2>2. ASSUME NEW x \in Everywhere', x.ID = k, k # 0
        PROVE  \/ n # 0 /\ \E i \in 1 .. Len(sendQueue') : i > Len(sendQueue) /\ sendQueue'[i] = x
               \/ n = 0 /\ \E i \in 1 .. Len(tncQueue') : i > Len(tncQueue) /\ tncQueue'[i] = x
    <3>1. k \notin Used /\ (n = 0 \/ k = n) /\ (n # 0 \/ k = m)
      BY <2>2
    <3>2. x \notin Everywhere /\ x.ID \notin Used
      BY <1>3, <2>2, <3>1
    <3>3. x \in ToSet(sendQueue') \/ x \in ToSet(tncQueue')
      BY <3>2 DEF Everywhere
    <3>4. CASE x \in ToSet(sendQueue')
      <4>1. PICK i \in 1 .. Len(sendQueue') : sendQueue'[i] = x
        BY <1>1, <3>4, InQueue
      <4>2. i > Len(sendQueue) /\ x.ID = n
        BY <1>5, <1>6, <2>2, <3>2, <4>1
      <4> QED
        BY <2>2, <4>1, <4>2
    <3>5. CASE x \in ToSet(tncQueue')
      <4>1. PICK i \in 1 .. Len(tncQueue') : tncQueue'[i] = x
        BY <1>1, <3>5, InQueue
      <4>2. i > Len(tncQueue) /\ x.ID = m
        BY <1>5, <1>7, <2>2, <3>2, <4>1
      <4> QED
        BY <2>2, <4>1, <4>2
    <3> QED
      BY <3>3, <3>4, <3>5
  <2>3. ASSUME NEW x \in Everywhere', NEW y \in Everywhere', x.ID = k, y.ID = k, k # 0
        PROVE  x = y
    BY SMTT(30), <2>2, <2>3 DEF Adds
  <2>4. /\ \A x \in Everywhere' : x.ID = 0 \/ x.ID = k \/ \E e \in Everywhere : Same(x, e)
        /\ \A x, y \in Everywhere' : x.ID = k /\ y.ID = k /\ k # 0 => x = y
    BY <2>1, <2>3
  <2> HIDE DEF k
  <2> QED
    BY <2>4, StaysNumbered DEF Pacing
<1>9. \A h \in Threads, l \in Numbers : sent'[h][l] = sent[h][l] \/ sent'[h][l] = Never
  OBVIOUS
<1>10. Fresh'
  <2> SUFFICES ASSUME NEW i \in 1 .. Len(sendQueue'), sendQueue'[i].ID # 0,
                      "src3RDPARTY" \notin sendQueue'[i].EchoMask
               PROVE  /\ \A j \in 1 .. Len(sendQueue') :
                            sendQueue'[j].ID = sendQueue'[i].ID => j = i
                      /\ \A x \in ToSet(list) \cup ToSet(tncQueue') \cup {posit[h] : h \in Threads} :
                            x.ID # sendQueue'[i].ID
                      /\ \A h \in Threads : sent'[h][sendQueue'[i].ID] = Never
    BY DEF Fresh
  <2> DEFINE id == sendQueue'[i].ID
  <2>1. CASE i \in 1 .. Len(sendQueue) /\ sendQueue'[i] = sendQueue[i]
    <3>1. id \in Used /\ id \in Numbers
      <4>1. sendQueue[i] \in Everywhere /\ sendQueue[i] \in Packets
        BY <1>1, <2>1, InQueue DEF Everywhere, Formed
      <4> QED
        BY <1>3, <4>1, <2>1 DEF Packets
    <3>2. /\ \A j \in 1 .. Len(sendQueue) : sendQueue[j].ID = id => j = i
          /\ \A x \in ToSet(list) \cup ToSet(tncQueue) \cup {posit[h] : h \in Threads} : x.ID # id
          /\ \A h \in Threads : sent[h][id] = Never
      BY <2>1 DEF Pacing, Fresh
    <3>3. \A x \in ThirdParties \cup Scheduled : x.ID # id
      BY <1>4, <3>2 DEF Same
    <3> HIDE DEF id
    <3>4. ASSUME NEW j \in 1 .. Len(sendQueue'), sendQueue'[j].ID = id PROVE j = i
      BY <1>6, <2>1, <3>1, <3>2, <3>3, <3>4 DEF id
    <3>5. ASSUME NEW x \in ToSet(tncQueue') PROVE x.ID # id
      <4>1. PICK j \in 1 .. Len(tncQueue') : tncQueue'[j] = x
        BY <1>1, InQueue
      <4>2. tncQueue[j] \in ToSet(tncQueue) \/ j > Len(tncQueue)
        BY <1>1, <1>7, InQueue
      <4> QED
        BY <1>7, <2>1, <3>1, <3>2, <3>3, <4>1, <4>2 DEF id
    <3>6. \A h \in Threads : sent'[h][id] = Never
      BY <1>9, <3>1, <3>2
    <3> QED
      BY <3>2, <3>4, <3>5, <3>6 DEF id
  <2>2. CASE i > Len(sendQueue)
    <3>1. id = n /\ n # 0 /\ n \notin Used /\ m = 0
      BY <1>6, <2>2 DEF ThirdParties
    <3>2. ASSUME NEW j \in 1 .. Len(sendQueue'), sendQueue'[j].ID = id PROVE j = i
      <4>1. j > Len(sendQueue)
        BY <1>3, <1>6, <3>1, <3>2
      <4> QED
        BY <2>2, <3>1, <3>2, <4>1 DEF Adds
    <3>3. ASSUME NEW x \in ToSet(tncQueue') PROVE x.ID # id
      <4>1. PICK j \in 1 .. Len(tncQueue') : tncQueue'[j] = x
        BY <1>1, InQueue
      <4> HIDE DEF id
      <4> QED
        BY <1>3, <1>5, <1>7, <3>1, <4>1
    <3>4. \A x \in ToSet(list) \cup {posit[h] : h \in Threads} : x.ID # id
      BY <1>3, <3>1 DEF Everywhere
    <3>5. \A h \in Threads : sent'[h][id] = Never
      BY <2>2, <3>1
    <3> QED
      BY <3>2, <3>3, <3>4, <3>5
  <2> QED
    BY <1>6, <2>1, <2>2
<1>11. \A p \in Packets : p.timeRF \in Int /\ Never <= p.timeRF
  BY DEF Packets, Never
<1>12. Stamped'
  <2> SUFFICES ASSUME NEW i \in 1 .. Len(list), Original(list[i])
               PROVE  /\ \A h \in Threads : sent'[h][list[i].ID] <= list[i].timeRF
                      /\ \A j \in 1 .. Len(list) : j # i /\ list[j].ID = list[i].ID =>
                            StampedLately(list[i], now, aged, posit)
                            /\ list[j].ttl <= ttlTNC
                      /\ \A j \in 1 .. Len(tncQueue') : tncQueue'[j].ID = list[i].ID =>
                            list[i].timeRF = now
    BY DEF Stamped
  <2>1. /\ \A h \in Threads : sent[h][list[i].ID] <= list[i].timeRF
        /\ \A j \in 1 .. Len(list) : j # i /\ list[j].ID = list[i].ID =>
              StampedLately(list[i], now, aged, posit)
                            /\ list[j].ttl <= ttlTNC
        /\ \A j \in 1 .. Len(tncQueue) : tncQueue[j].ID = list[i].ID =>
              list[i].timeRF = now
    BY DEF Pacing, Stamped
  <2>2. /\ list[i] \in Everywhere /\ list[i] \in Packets /\ list[i].ID \in Used
        /\ list[i].ID \in Numbers /\ list[i].ID # 0
    <3>1. list[i] \in ToSet(list) /\ list[i] \in Formed(now)
      BY <1>1, InQueue
    <3>2. list[i] \in Everywhere /\ list[i].ID \in Used
      BY <1>3, <3>1 DEF Everywhere
    <3>3. list[i].type \in Posits
      BY DEF Original, Paced, Posits
    <3> QED
      BY <3>1, <3>2, <3>3 DEF Formed, Packets
  <2>3. \A h \in Threads : sent'[h][list[i].ID] <= list[i].timeRF
    BY <1>9, <1>11, <2>1, <2>2
  <2>4. ASSUME NEW j \in 1 .. Len(tncQueue'), tncQueue'[j].ID = list[i].ID
        PROVE  list[i].timeRF = now
    <3>1. tncQueue'[j] \notin Scheduled
      <4> SUFFICES ASSUME tncQueue'[j] \in Scheduled PROVE FALSE
        OBVIOUS
      <4>1. PICK e \in ToSet(list) : Same(tncQueue'[j], e)
        BY DEF Scheduled
      <4>2. e.src = list[i].src
        BY <2>2, <2>4, <4>1 DEF Same, Pacing, Numbered, Everywhere
      <4> QED
        BY <4>1, <4>2 DEF Scheduled, Same, Original, Paced
    <3>2. j \in 1 .. Len(tncQueue) /\ tncQueue'[j] = tncQueue[j]
      BY <1>7, <2>2, <2>4, <3>1
    <3> QED
      BY <2>1, <2>4, <3>2
  <2> QED
    BY <2>1, <2>3, <2>4
<1>13. StampKnown'
  <2> SUFFICES ASSUME NEW h \in Threads, posit[h] # Nothing, Paced(posit[h])
               PROVE  sent'[h][posit[h].ID] <= posit[h].timeRF
    BY DEF StampKnown
  <2>1. sent[h][posit[h].ID] <= posit[h].timeRF
    BY DEF Pacing, StampKnown
  <2>2. posit[h] \in Packets /\ posit[h].ID \in Numbers
    <3>1. posit[h] \in Formed(now)
      BY DEF HandlersTyped
    <3> QED
      BY <3>1 DEF Formed, Packets, Paced, Posits
  <2> QED
    BY <1>9, <1>11, <2>1, <2>2
<1> QED
  BY <1>8, <1>10, <1>12, <1>13 DEF Pacing

LEMMA NothingIsNoPacket == Nothing \notin Raw /\ Nothing \notin Packets
  BY DEF Nothing, Raw, Packets

\* A handler moves on to w, with the packet pk and the posit ps.
Fits(w, pk, ps) ==
    /\ w \in {"idle", "source", "posit", "stamp", "inet", "always"}
    /\ pk \in Raw \cup {Nothing} /\ ps \in Formed(now) \cup {Nothing}
    /\ w = "idle" <=> pk = Nothing
    /\ w = "stamp" <=> ps # Nothing
    /\ ps # Nothing => ps.type \in Posits
    /\ w = "source" => pk.type = "msg"

MovesTo(h, w, pk, ps) ==
    /\ at' = [at EXCEPT ![h] = w]
    /\ packet' = [packet EXCEPT ![h] = pk]
    /\ posit' = [posit EXCEPT ![h] = ps]

LEMMA HandlerMoves ==
    ASSUME HandlersTyped, now' = now, NEW h \in Threads, NEW w, NEW pk, NEW ps, Fits(w, pk, ps), MovesTo(h, w, pk, ps)
    PROVE  HandlersTyped'
<1> USE DEF Fits, MovesTo
<1>1. /\ at'[h] = w /\ packet'[h] = pk /\ posit'[h] = ps
      /\ \A g \in Threads : g # h => at'[g] = at[g] /\ packet'[g] = packet[g] /\ posit'[g] = posit[g]
  BY DEF HandlersTyped
<1>2. at' \in [Threads -> {"idle", "source", "posit", "stamp", "inet", "always"}]
  BY DEF HandlersTyped
<1>3. packet' \in [Threads -> Raw \cup {Nothing}] /\ posit' \in [Threads -> Formed(now) \cup {Nothing}]
  BY DEF HandlersTyped
<1>4. ASSUME NEW g \in Threads
      PROVE  /\ at'[g] = "idle" <=> packet'[g] = Nothing
             /\ at'[g] = "stamp" <=> posit'[g] # Nothing
             /\ posit'[g] # Nothing => posit'[g].type \in Posits
             /\ at'[g] = "source" => packet'[g].type = "msg"
  BY <1>1 DEF HandlersTyped
<1> QED
  BY <1>2, <1>3, <1>4 DEF HandlersTyped

LEMMA SamePosit ==
    ASSUME HandlersTyped, NEW h \in Threads
    PROVE  /\ posit = [posit EXCEPT ![h] = posit[h]]
           /\ packet = [packet EXCEPT ![h] = packet[h]]
  BY DEF HandlersTyped

\* What producers leave as it is.
LEMMA ProducerKeeps ==
    ASSUME RInv, HandlersTyped', list' = list, posit' = posit, now' = now, aged' = aged,
           air' = air, net' = net,
           NEW n, n = 0 \/ n \notin Used, NEW m, m = 0 \/ m \notin Used, n = 0 \/ m = 0,
           Adds(sendQueue', sendQueue, ThirdParties, n),
           Adds(tncQueue', tncQueue, Scheduled, m),
           sent' \in [Threads -> [Numbers -> {Never} \cup 0 .. now]],
           \A h \in Threads, k \in Numbers : sent'[h][k] \in {sent[h][k], Never},
           \A i \in 1 .. Len(sendQueue') :
              i > Len(sendQueue) /\ sendQueue'[i].ID = n /\ n # 0 =>
                 \A h \in Threads : sent'[h][n] = Never
    PROVE  RInv'
<1>1. PacketsTyped'
  BY DEF RInv, Typed, PacketsTyped, QueueOK, Adds
<1>2. WorldTyped'
  BY DEF RInv, Typed, WorldTyped
<1>3. Pacing'
  BY ProducedKeeps DEF RInv, Typed
<1> QED
  BY <1>1, <1>2, <1>3 DEF RInv, Typed

\* Most producers give no number.
LEMMA UnnumberedKeeps ==
    ASSUME RInv, HandlersTyped', list' = list, posit' = posit, now' = now, aged' = aged,
           air' = air, net' = net, sent' = sent,
           Adds(sendQueue', sendQueue, ThirdParties, 0),
           Adds(tncQueue', tncQueue, Scheduled, 0)
    PROVE  RInv'
<1>1. sent' \in [Threads -> [Numbers -> {Never} \cup 0 .. now]]
  BY DEF RInv, Typed, WorldTyped
<1>2. /\ \A h \in Threads, k \in Numbers : sent'[h][k] \in {sent[h][k], Never}
      /\ \A i \in 1 .. Len(sendQueue') :
            i > Len(sendQueue) /\ sendQueue'[i].ID = 0 /\ 0 # 0 =>
               \A h \in Threads : sent'[h][0] = Never
  OBVIOUS
<1> QED
  BY <1>1, <1>2, ProducerKeeps

LEMMA OwnForm ==
    ASSUME now \in Nat, NEW type \in {"msg", "status"}, NEW to \in Addressed,
           NEW mask \in {{}, {"srcSYSTEM"}}
    PROVE  LET q == Own(type, to, mask) IN q \in Formed(now) /\ q.ID = 0
<1> DEFINE p == [src |-> ServerCall, type |-> type, to |-> to, path |-> "TCPIP*", unreg |-> FALSE]
<1>1. /\ p.src \in Callers \cup {ServerCall} /\ p.type \in Types /\ p.to \in Addressed
      /\ p.path \in Paths /\ p.unreg \in BOOLEAN /\ p.type \notin Posits
  BY DEF Types, Paths, Posits
<1>2. mask \in SUBSET Masks /\ mask \cap Outgoing = {} /\ FALSE \in BOOLEAN
  BY DEF Masks, Outgoing
<1>3. Own(type, to, mask) = aprsString(p, mask, FALSE)
  BY DEF Own
<1> HIDE DEF p
<1>4. aprsString(p, mask, FALSE) \in Formed(now) /\ aprsString(p, mask, FALSE).ID = 0
  BY <1>1, <1>2, MadeAnew
<1> QED
  BY <1>3, <1>4

LEMMA ReceiveHolds ==
    ASSUME RInv, NEW h \in Threads, NEW p \in Raw, Receive(h, p)
    PROVE  RInv'
<1> DEFINE gate == /\ p.type = "msg" /\ p.path # "TCPXX*" /\ MayUseRF(h)
                   /\ p.src \notin rfcall /\ deny[p.src] = "+"
                   /\ StationLocal(p.to) \/ p.to \in stsmDest_rfcall
           w == IF gate THEN "source" ELSE "inet"
           reply == Own("msg", p.src, {"srcSYSTEM"})
<1>1. /\ at[h] = "idle" /\ at' = [at EXCEPT ![h] = w]
      /\ packet' = [packet EXCEPT ![h] = Marked(h, p)]
      /\ sendQueue' \in Answers(h, p)
      /\ UNCHANGED <<list, tncQueue, posit, air, net, sent, now, aged>>
  BY DEF Receive, world, clock
<1>2. Marked(h, p) \in Raw /\ Marked(h, p).type = p.type /\ Marked(h, p).to = p.to
  BY DEF Marked, Raw
<1>3. gate => p.type = "msg"
  OBVIOUS
<1>4. posit[h] = Nothing
  BY <1>1 DEF RInv, Typed, HandlersTyped
<1>5. w \in {"source", "inet"} /\ (w = "source" => gate)
  OBVIOUS
<1>6. Marked(h, p) # Nothing
  BY <1>2, NothingIsNoPacket
<1> HIDE DEF w, gate
<1>7. HandlersTyped'
  <2>1. HandlersTyped
    BY DEF RInv, Typed
  <2>2. MovesTo(h, w, Marked(h, p), Nothing)
    BY <1>1, <1>4, <2>1, SamePosit DEF MovesTo
  <2>3. Fits(w, Marked(h, p), Nothing)
    BY <1>2, <1>3, <1>5, <1>6 DEF Fits
  <2> QED
    BY <1>1, <2>1, <2>2, <2>3, HandlerMoves
<1>8. now \in Nat /\ QueueOK(sendQueue) /\ QueueOK(tncQueue)
  BY DEF RInv, Typed, PacketsTyped
<1>9. Adds(sendQueue', sendQueue, ThirdParties, 0)
  <2>1. reply \in Formed(now) /\ reply.ID = 0
    BY <1>8, OwnForm DEF Raw, Addressed
  <2> HIDE DEF reply
  <2>2. sendQueue' = sendQueue \/ sendQueue' \in queryResp(p, reply, sendQueue)
    BY <1>1 DEF Answers, reply
  <2> QED
    BY <1>8, <2>1, <2>2, AddsNothing, AnswersAdded
<1>10. Adds(tncQueue', tncQueue, Scheduled, 0)
  BY <1>1, <1>8, AddsNothing
<1> QED
  BY <1>1, <1>7, <1>9, <1>10, UnnumberedKeeps

LEMMA sendOnRFHolds ==
    ASSUME RInv, NEW h \in Threads, sendOnRF(h)
    PROVE  RInv'
<1> DEFINE new == aprsString(packet[h], Mask(h), TRUE)
           q == stsmReformat(new)
<1>1. /\ at[h] = "source" /\ tncQueue' \in {tncQueue, Put(tncQueue, q)}
      /\ UNCHANGED <<list, sendQueue, packet, posit, air, net, sent, now, aged>>
  BY DEF sendOnRF, world, clock
<1>2. PICK w \in {"inet", "posit"} : at' = [at EXCEPT ![h] = w]
  BY DEF sendOnRF
<1>3. packet[h] \in Raw /\ packet[h].type = "msg" /\ packet[h] # Nothing /\ posit[h] = Nothing
  BY <1>1 DEF RInv, Typed, HandlersTyped
<1>4. HandlersTyped'
  <2>1. HandlersTyped
    BY DEF RInv, Typed
  <2>2. MovesTo(h, w, packet[h], Nothing)
    BY <1>1, <1>2, <1>3, <2>1, SamePosit DEF MovesTo
  <2>3. Fits(w, packet[h], Nothing)
    BY <1>2, <1>3 DEF Fits
  <2> QED
    BY <1>1, <2>1, <2>2, <2>3, HandlerMoves
<1>5. now \in Nat /\ QueueOK(sendQueue) /\ QueueOK(tncQueue)
  BY DEF RInv, Typed, PacketsTyped
<1>6. new \in Formed(now) /\ new.ID = 0
  <2>1. Mask(h) \in SUBSET Masks /\ TRUE \in BOOLEAN
    BY DEF Mask, Masks
  <2> DEFINE p == packet[h]
  <2>2. /\ p.src \in Callers /\ p.src \in Callers \cup {ServerCall} /\ p.type \in Types
        /\ p.to \in Addressed /\ p.path \in Paths /\ p.unreg \in BOOLEAN /\ p.type \notin Posits
    BY <1>3 DEF Raw, Addressed, Posits
  <2> HIDE DEF p
  <2>3. aprsString(p, Mask(h), TRUE) \in Formed(now) /\ aprsString(p, Mask(h), TRUE).ID = 0
    BY <1>5, <2>1, <2>2, MadeAnew
  <2> QED
    BY <2>3 DEF p
<1> HIDE DEF new
<1>7. q \in Formed(now) /\ q.ID = 0
  BY <1>6, Marked3rdParty DEF Same
<1> HIDE DEF q
<1>8. Adds(tncQueue', tncQueue, Scheduled, 0)
  BY <1>1, <1>5, <1>7, AddsNothing, NewAdded
<1>9. Adds(sendQueue', sendQueue, ThirdParties, 0)
  BY <1>1, <1>5, AddsNothing
<1> QED
  BY <1>1, <1>4, <1>8, <1>9, UnnumberedKeeps

LEMMA FindPositHolds ==
    ASSUME RInv, NEW h \in Threads, FindPosit(h)
    PROVE  RInv'
<1> DEFINE valid == {"srcIGATE", "srcUSERVALID"}
           q == getPosit(packet[h].src, valid)
           w == IF q = Nothing THEN "inet" ELSE "stamp"
<1>1. PacketsTyped /\ HandlersTyped /\ WorldTyped /\ Pacing
  BY DEF RInv, Typed
<1>2. /\ at[h] = "posit" /\ posit' = [posit EXCEPT ![h] = q] /\ posit'[h] = q
      /\ UNCHANGED <<list, sendQueue, tncQueue, packet, air, net, sent, now, aged>>
  BY <1>1 DEF FindPosit, world, shared, clock, HandlersTyped
<1>3. at' = [at EXCEPT ![h] = w] /\ w \in {"inet", "stamp"} /\ (w = "stamp" <=> q # Nothing)
  BY <1>2 DEF FindPosit
<1>4. q # Nothing => /\ q \in ToSet(list) /\ q \in Formed(now) /\ q.type \in Posits
                     /\ q.EchoMask \cap valid # {}
  <2> HIDE DEF valid
  <2> QED
    BY <1>1, PositListed DEF PacketsTyped
<1> HIDE DEF w, q
<1>5. HandlersTyped'
  <2>1. packet[h] \in Raw /\ packet[h] # Nothing
    BY <1>1, <1>2 DEF HandlersTyped
  <2>2. MovesTo(h, w, packet[h], q)
    BY <1>1, <1>2, <1>3, SamePosit DEF MovesTo
  <2>3. Fits(w, packet[h], q)
    BY <1>3, <1>4, <2>1 DEF Fits
  <2> QED
    BY <1>1, <1>2, <2>2, <2>3, HandlerMoves
<1>6. \A g \in Threads : posit'[g] = IF g = h THEN q ELSE posit[g]
  BY <1>1, <1>2 DEF HandlersTyped
<1>7. Nothing.ID = 0
  BY DEF Nothing
<1>8. \A x \in Everywhere' : x \in Everywhere \/ x.ID = 0
  BY <1>2, <1>4, <1>6, <1>7 DEF Everywhere
<1>9. Numbered'
  BY <1>1, <1>8 DEF Numbered, Pacing
<1>10. Fresh'
  <2>1. \A x \in {posit'[g] : g \in Threads} : x \in ToSet(list) \cup {posit[g] : g \in Threads} \/ x.ID = 0
    BY <1>4, <1>6, <1>7
  <2> QED
    BY <1>1, <1>2, <2>1 DEF Pacing, Fresh
<1>11. Stamped'
  <2> SUFFICES ASSUME NEW i \in 1 .. Len(list), Original(list[i]),
                      NEW j \in 1 .. Len(list), j # i, list[j].ID = list[i].ID
               PROVE  StampedLately(list[i], now, aged, posit')
    BY <1>1, <1>2 DEF Pacing, Stamped
  <2>1. StampedLately(list[i], now, aged, posit)
    BY <1>1 DEF Pacing, Stamped
  <2>2. ASSUME ~aged, list[i].timeRF = now - 1, q # Nothing, q.ID = list[i].ID
        PROVE  q.timeRF >= now - 1
    <3>1. PICK k \in 1 .. Len(list) : list[k] = q
      BY <1>1, <1>4, <2>2, InQueue DEF PacketsTyped
    <3>2. list[i] \in ToSet(list) /\ list[i] \in Formed(now)
      BY <1>1, InQueue DEF PacketsTyped
    <3>3. list[i].ID # 0
      BY <3>2 DEF Formed, Original, Paced, Posits
    <3>4. Original(list[k])
      <4>1. Same(list[k], list[i])
        BY <1>1, <1>4, <2>2, <3>1, <3>2, <3>3 DEF Pacing, Numbered, Everywhere
      <4> QED
        BY <1>4, <2>2, <3>1, <4>1 DEF Original, Paced, Same
    <3>5. CASE k = i
      BY <1>1, <2>2, <3>1, <3>5 DEF PacketsTyped
    <3>6. CASE k # i
      <4>1. StampedLately(list[k], now, aged, posit)
        BY <1>1, <2>2, <3>1, <3>4, <3>6 DEF Pacing, Stamped
      <4> QED
        BY <1>1, <3>1, <4>1 DEF StampedLately, PacketsTyped
    <3> QED
      BY <3>5, <3>6
  <2> QED
    BY <1>6, <2>1, <2>2 DEF StampedLately
<1>12. StampKnown'
  <2> SUFFICES ASSUME NEW g \in Threads, posit'[g] # Nothing, Paced(posit'[g])
               PROVE  sent[g][posit'[g].ID] <= posit'[g].timeRF
    BY <1>2 DEF StampKnown
  <2>1. CASE g # h
    BY <1>1, <1>6, <2>1 DEF Pacing, StampKnown
  <2>2. CASE g = h
    <3>1. posit'[g] = q /\ q # Nothing /\ Original(q)
      BY <1>4, <1>6, <2>2 DEF Original
    <3>2. PICK i \in 1 .. Len(list) : list[i] = q
      BY <1>1, <1>4, <3>1, InQueue DEF PacketsTyped
    <3> QED
      BY <1>1, <3>1, <3>2 DEF Pacing, Stamped
  <2> QED
    BY <2>1, <2>2
<1> QED
  <2>1. PacketsTyped' /\ WorldTyped'
    BY <1>1, <1>2 DEF PacketsTyped, QueueOK, WorldTyped
  <2> QED
    BY <1>5, <1>9, <1>10, <1>11, <1>12, <2>1 DEF RInv, Typed, Pacing

\* A new packet for the radio may have the number.
LEMMA RadioNumberedKeeps ==
    ASSUME RInv, HasNumber, HandlersTyped', list' = list, posit' = posit,
           now' = now, aged' = aged, air' = air, net' = net, sendQueue' = sendQueue,
           Adds(tncQueue', tncQueue, Scheduled, NewNumber), NEW r, NEW q, NumberGiven(r, q)
    PROVE  RInv'
<1>1. PacketsTyped /\ WorldTyped
  BY DEF RInv, Typed
<1>2. Adds(sendQueue', sendQueue, ThirdParties, 0)
  BY <1>1, AddsNothing DEF PacketsTyped
<1>3. NewNumber \notin Used
  BY NumberIsNew
<1>4. /\ sent' \in [Threads -> [Numbers -> {Never} \cup 0 .. now]]
      /\ \A g \in Threads, k \in Numbers : sent'[g][k] \in {sent[g][k], Never}
  BY <1>1, SentForgets
<1>5. \A i \in 1 .. Len(sendQueue') :
         i > Len(sendQueue) /\ sendQueue'[i].ID = 0 /\ 0 # 0 =>
            \A g \in Threads : sent'[g][0] = Never
  OBVIOUS
<1> QED
  BY <1>2, <1>3, <1>4, <1>5, ProducerKeeps

\* A new packet for the Internet may have it, with copies before or behind it.
LEMMA InternetNumberedKeeps ==
    ASSUME RInv, HasNumber, HandlersTyped', list' = list, posit' = posit,
           now' = now, aged' = aged, air' = air, net' = net,
           Adds(sendQueue', sendQueue, ThirdParties, NewNumber),
           Adds(tncQueue', tncQueue, Scheduled, 0),
           NEW r, NEW q, NumberGiven(r, q),
           \A x \in ToSet(sendQueue') : x \in ToSet(r) \/ x.ID \in Used,
           \A x \in ToSet(q) : x.ID \in Used
    PROVE  RInv'
<1> DEFINE n == NewNumber
<1>1. PacketsTyped /\ WorldTyped
  BY DEF RInv, Typed
<1>2. n \in Numbers /\ n \notin Used /\ n # 0
  BY NumberIsNew
<1>3. /\ sent' \in [Threads -> [Numbers -> {Never} \cup 0 .. now]]
      /\ \A g \in Threads, k \in Numbers : sent'[g][k] \in {sent[g][k], Never}
      /\ \A x \in ToSet(r) : x.ID \in Numbers \ Used =>
            \A g \in Threads : sent'[g][x.ID] = Never \/ x \in ToSet(q)
  BY <1>1, SentForgets
<1> HIDE DEF n
<1>4. ASSUME NEW i \in 1 .. Len(sendQueue'), i > Len(sendQueue), sendQueue'[i].ID = n, n # 0
      PROVE  \A g \in Threads : sent'[g][n] = Never
  <2>1. sendQueue'[i] \in ToSet(sendQueue')
    BY InQueue DEF Adds
  <2> QED
    BY <1>2, <1>3, <1>4, <2>1
<1>5. \A i \in 1 .. Len(sendQueue') :
         i > Len(sendQueue) /\ sendQueue'[i].ID = n /\ n # 0 =>
            \A g \in Threads : sent'[g][n] = Never
  BY <1>4
<1>6. Adds(sendQueue', sendQueue, ThirdParties, n)
  BY DEF n
<1> QED
  BY <1>2, <1>3, <1>5, <1>6, ProducerKeeps

LEMMA ToInternetHolds ==
    ASSUME RInv, NEW h \in Threads, ToInternet(h)
    PROVE  RInv'
<1> DEFINE p == packet[h]
           queue == inetpacket(h, p)
<1>1. PacketsTyped /\ HandlersTyped /\ WorldTyped /\ Pacing
  BY DEF RInv, Typed
<1>2. /\ at[h] = "inet" /\ HasNumber
      /\ sendQueue' \in {queue, ThirdParty(p, queue)}
      /\ NumberGiven(queue, sendQueue)
      /\ UNCHANGED <<list, tncQueue, posit, air, net, now, aged>>
  BY DEF ToInternet, clock
<1>3. \/ at' = [at EXCEPT ![h] = "idle"] /\ packet' = [packet EXCEPT ![h] = Nothing]
      \/ at' = [at EXCEPT ![h] = "always"] /\ packet' = packet
  BY DEF ToInternet
<1>4. p \in Raw /\ p # Nothing /\ posit[h] = Nothing
  BY <1>1, <1>2 DEF HandlersTyped
<1>5. HandlersTyped'
  <2>1. \/ MovesTo(h, "idle", Nothing, Nothing)
        \/ MovesTo(h, "always", p, Nothing)
    BY <1>1, <1>2, <1>3, <1>4, SamePosit DEF MovesTo
  <2>2. Fits("idle", Nothing, Nothing) /\ Fits("always", p, Nothing)
    BY <1>4 DEF Fits
  <2> HIDE DEF p
  <2> QED
    BY <1>1, <1>2, <2>1, <2>2, HandlerMoves
<1> DEFINE n == NewNumber
<1>6. n \in Numbers /\ n \notin Used /\ n # 0
  BY <1>2, NumberIsNew
<1>7. QueueOK(sendQueue) /\ QueueOK(tncQueue)
  BY <1>1 DEF PacketsTyped
<1> HIDE DEF p
<1>8. Adds(queue, sendQueue, ThirdParties, n)
  BY <1>1, <1>2, <1>4, InetAdded
<1> HIDE DEF queue, n
<1>9. /\ Adds(ThirdParty(p, queue), sendQueue, ThirdParties, n)
      /\ \A x \in ToSet(ThirdParty(p, queue)) : x \in ToSet(queue) \/ x.ID \in Used
  BY <1>1, <1>6, <1>7, <1>8, ThirdPartyAdded
<1>10. /\ Adds(sendQueue', sendQueue, ThirdParties, n)
       /\ \A x \in ToSet(sendQueue') : x \in ToSet(queue) \/ x.ID \in Used
  BY <1>2, <1>8, <1>9
<1>11. Adds(tncQueue', tncQueue, Scheduled, 0)
  BY <1>2, <1>7, AddsNothing
<1>12. \A x \in ToSet(sendQueue) : x.ID \in Used
  BY InUse DEF Everywhere
<1> QED
  BY <1>2, <1>5, <1>10, <1>11, <1>12, InternetNumberedKeeps DEF n

LEMMA AlwaysHolds ==
    ASSUME RInv, NEW h \in Threads, Always(h)
    PROVE  RInv'
<1> DEFINE p == packet[h]
           mask == IF h \in Igates THEN {"srcIGATE"} ELSE {"srcUSER"}
           new == aprsString(p, mask, TRUE)
           RFpacket == stsmReformat(new)
           q == changePath(RFpacket, "TCPIP*", "TCPIP")
<1>1. PacketsTyped /\ HandlersTyped /\ WorldTyped /\ Pacing
  BY DEF RInv, Typed
<1>2. /\ at[h] = "always" /\ HasNumber
      /\ tncQueue' \in {tncQueue, reformatAndSendMicE(RFpacket, tncQueue), Put(tncQueue, q)}
      /\ NumberGiven(tncQueue', tncQueue)
      /\ at' = [at EXCEPT ![h] = "idle"] /\ packet' = [packet EXCEPT ![h] = Nothing]
      /\ UNCHANGED <<list, sendQueue, posit, air, net, now, aged>>
  BY DEF Always, clock
<1>3. p \in Raw /\ posit[h] = Nothing
  <2>1. p \in Raw \cup {Nothing} /\ p # Nothing /\ posit[h] = Nothing
    BY <1>1, <1>2 DEF HandlersTyped
  <2> QED
    BY <2>1
<1>4. HandlersTyped'
  <2>1. MovesTo(h, "idle", Nothing, Nothing)
    BY <1>1, <1>2, <1>3, SamePosit DEF MovesTo
  <2>2. Fits("idle", Nothing, Nothing)
    BY DEF Fits
  <2> QED
    BY <1>1, <1>2, <2>1, <2>2, HandlerMoves
<1>5. now \in Nat /\ QueueOK(tncQueue)
  BY <1>1 DEF PacketsTyped
<1>6. new \in Formed(now) /\ (new.ID = 0 \/ new.ID = NewNumber)
  <2>1. mask \in SUBSET Masks /\ TRUE \in BOOLEAN
    BY DEF Masks
  <2>2. /\ p.src \in Callers /\ p.src \in Callers \cup {ServerCall} /\ p.type \in Types
        /\ p.to \in Addressed /\ p.path \in Paths /\ p.unreg \in BOOLEAN
    BY <1>3 DEF Raw, Addressed
  <2> HIDE DEF p, mask
  <2> QED
    BY <1>2, <1>5, <2>1, <2>2, MadeAnew
<1> HIDE DEF new
<1>7. RFpacket \in Formed(now) /\ (RFpacket.ID = 0 \/ RFpacket.ID = NewNumber)
  BY <1>6, Marked3rdParty DEF Same
<1> HIDE DEF RFpacket
<1>8. q \in Formed(now) /\ (q.ID = 0 \/ q.ID = NewNumber)
  <2>1. "TCPIP*" \in Paths
    BY DEF Paths
  <2> QED
    BY <1>7, <2>1, PathEdited DEF Same
<1> HIDE DEF q
<1>9. Adds(tncQueue', tncQueue, Scheduled, NewNumber)
  BY <1>2, <1>5, <1>7, <1>8, AddsNothing, NewAdded, MicEAdded
<1> QED
  BY <1>2, <1>4, <1>9, RadioNumberedKeeps

LEMMA ReadComHolds ==
    ASSUME RInv, NEW raw \in Raw, NEW inet \in BOOLEAN, NEW again \in BOOLEAN,
           ReadCom(raw, inet, again)
    PROVE  RInv'
<1> DEFINE new == aprsString(raw, {"srcTNC"}, inet)
           p == [new EXCEPT !.reformatted = again]
           own == Own("msg", p.src, {})
           reply == stsmReformat(own)
           third == ThirdParty(p, sendQueue)
<1>1. PacketsTyped /\ HandlersTyped /\ WorldTyped /\ Pacing
  BY DEF RInv, Typed
<1>2. /\ HasNumber
      /\ tncQueue' \in queryResp(p, reply, tncQueue)
      /\ sendQueue' \in {sendQueue, reformatAndSendMicE(p, sendQueue), Put(third, p)}
      /\ NumberGiven(sendQueue', sendQueue)
      /\ UNCHANGED <<list, at, packet, posit, air, net, now, aged>>
  BY DEF ReadCom, Input, handlers, clock
<1>3. now \in Nat /\ QueueOK(sendQueue) /\ QueueOK(tncQueue)
  BY <1>1 DEF PacketsTyped
<1>4. HandlersTyped'
  BY <1>1, <1>2 DEF HandlersTyped
<1>5. new \in Formed(now) /\ (new.ID = 0 \/ new.ID = NewNumber) /\ new.src \in Callers
  <2>1. {"srcTNC"} \in SUBSET Masks
    BY DEF Masks
  <2>2. /\ raw.src \in Callers /\ raw.src \in Callers \cup {ServerCall} /\ raw.type \in Types
        /\ raw.to \in Addressed /\ raw.path \in Paths /\ raw.unreg \in BOOLEAN
    BY DEF Raw, Addressed
  <2>3. \A m \in SUBSET Masks :
          /\ aprsString(raw, m, inet) \in Formed(now)
          /\ aprsString(raw, m, inet).ID = IF raw.type \in Posits THEN NewNumber ELSE 0
          /\ aprsString(raw, m, inet).src = raw.src
    BY ZenonT(60), <1>2, <1>3, <2>2, MadeAnew
  <2> QED
    BY <2>1, <2>2, <2>3
<1> HIDE DEF new
<1>6. p \in Formed(now) /\ (p.ID = 0 \/ p.ID = NewNumber) /\ p.src \in Callers
  <2>1. {} \in SUBSET Masks /\ {} \cap Outgoing = {} /\ "rf" \in Paths
    BY DEF Paths
  <2>2. p \in Formed(now) /\ Same(p, new)
    BY <1>5, <2>1, Edited
  <2> HIDE DEF p
  <2> QED
    BY <1>5, <2>2 DEF Same
<1>7. own \in Formed(now) /\ own.ID = 0
  BY <1>3, <1>6, OwnForm DEF Addressed
<1> HIDE DEF p, own
<1>8. reply \in Formed(now) /\ reply.ID = 0
  BY <1>7, Marked3rdParty DEF Same
<1> HIDE DEF reply
<1>9. Adds(tncQueue', tncQueue, Scheduled, 0)
  BY <1>2, <1>3, <1>8, AnswersAdded
<1>10. NewNumber \in Numbers /\ NewNumber \notin Used /\ NewNumber # 0
  BY <1>2, NumberIsNew
<1>11. Adds(sendQueue, sendQueue, ThirdParties, NewNumber)
  BY <1>3, AddsNothing
<1>12. /\ Adds(third, sendQueue, ThirdParties, NewNumber)
       /\ \A x \in ToSet(third) : x \in ToSet(sendQueue) \/ x.ID \in Used
  BY <1>1, <1>3, <1>10, <1>11, ThirdPartyAdded
<1>13. \A x \in ToSet(sendQueue) : x.ID \in Used
  BY InUse DEF Everywhere
<1> HIDE DEF third
<1>14. Adds(Put(third, p), sendQueue, ThirdParties, NewNumber)
  <2>1. \A i \in 1 .. Len(third) : third[i].ID # NewNumber
    <3>1. third \in Seq(Formed(now))
      BY <1>12 DEF Adds
    <3> QED
      BY <3>1, <1>10, <1>12, <1>13, InQueue
  <2> QED
    BY <1>3, <1>6, <1>12, <2>1, AddsOneMore
<1>15. Adds(sendQueue', sendQueue, ThirdParties, NewNumber)
  BY <1>2, <1>3, <1>6, <1>11, <1>14, MicEAdded
<1> QED
  BY <1>2, <1>4, <1>9, <1>13, <1>15, InternetNumberedKeeps

LEMMA ElementsOfBoth ==
    ASSUME NEW X, NEW q \in Seq(X), NEW r \in Seq(X)
    PROVE  ToSet(q \o r) = ToSet(q) \cup ToSet(r)
<1>1. /\ q \o r \in Seq(X) /\ Len(q \o r) = Len(q) + Len(r) /\ Len(q) \in Nat /\ Len(r) \in Nat
      /\ \A i \in 1 .. Len(q) + Len(r) :
            (q \o r)[i] = IF i <= Len(q) THEN q[i] ELSE r[i - Len(q)]
  BY ConcatProperties
<1> DEFINE b == q \o r
<1> HIDE DEF b
<1>2. /\ \A x \in ToSet(b) : \E i \in 1 .. Len(b) : b[i] = x
      /\ \A i \in 1 .. Len(b) : b[i] \in ToSet(b)
  BY <1>1, InQueue DEF b
<1>3. ToSet(b) \subseteq ToSet(q) \cup ToSet(r)
  <2> SUFFICES ASSUME NEW i \in 1 .. Len(b) PROVE b[i] \in ToSet(q) \cup ToSet(r)
    BY <1>2
  <2>1. b[i] = IF i <= Len(q) THEN q[i] ELSE r[i - Len(q)]
    BY <1>1 DEF b
  <2>2. i \in 1 .. Len(q) \/ (i - Len(q) \in 1 .. Len(r) /\ ~(i <= Len(q)))
    BY <1>1 DEF b
  <2> QED
    BY <2>1, <2>2, InQueue
<1>4. ToSet(q) \subseteq ToSet(b)
  <2> SUFFICES ASSUME NEW i \in 1 .. Len(q) PROVE q[i] \in ToSet(b)
    BY InQueue
  <2>1. i \in 1 .. Len(b) /\ b[i] = q[i]
    BY <1>1 DEF b
  <2> QED
    BY <1>2, <2>1
<1>5. ToSet(r) \subseteq ToSet(b)
  <2> SUFFICES ASSUME NEW i \in 1 .. Len(r) PROVE r[i] \in ToSet(b)
    BY InQueue
  <2>1. i + Len(q) \in 1 .. Len(b) /\ b[i + Len(q)] = r[i]
    BY <1>1 DEF b
  <2> QED
    BY <1>2, <2>1
<1> QED
  BY <1>3, <1>4, <1>5 DEF b

LEMMA UDPHolds ==
    ASSUME RInv, NEW p \in Raw, UDPServerThread(p)
    PROVE  RInv'
<1> DEFINE q == aprsString(p, {"srcUDP"}, FALSE)
           before == tncQueue \o sendQueue
           after == tncQueue' \o sendQueue'
<1>1. PacketsTyped /\ HandlersTyped
  BY DEF RInv, Typed
<1>2. /\ HasNumber /\ NumberGiven(after, before)
      /\ \/ tncQueue' = Put(tncQueue, q) /\ sendQueue' = sendQueue
         \/ sendQueue' = Put(sendQueue, q) /\ tncQueue' = tncQueue
      /\ UNCHANGED <<list, at, packet, posit, air, net, now, aged>>
  BY DEF UDPServerThread, Input, handlers, clock
<1>3. HandlersTyped'
  BY <1>1, <1>2 DEF HandlersTyped
<1>4. now \in Nat /\ QueueOK(sendQueue) /\ QueueOK(tncQueue)
  BY <1>1 DEF PacketsTyped
<1>5. q \in Formed(now) /\ (q.ID = 0 \/ q.ID = NewNumber)
  <2>1. {"srcUDP"} \in SUBSET Masks /\ FALSE \in BOOLEAN
    BY DEF Masks
  <2>2. /\ p.src \in Callers /\ p.src \in Callers \cup {ServerCall} /\ p.type \in Types
        /\ p.to \in Addressed /\ p.path \in Paths /\ p.unreg \in BOOLEAN
    BY DEF Raw, Addressed
  <2>3. \A m \in SUBSET Masks :
          /\ aprsString(p, m, FALSE) \in Formed(now)
          /\ aprsString(p, m, FALSE).ID = IF p.type \in Posits THEN NewNumber ELSE 0
    BY <1>2, <1>4, <2>1, <2>2, MadeAnew
  <2> QED
    BY <2>1, <2>3
<1> HIDE DEF q, before, after
<1>6. CASE tncQueue' = Put(tncQueue, q) /\ sendQueue' = sendQueue
  <2>1. Adds(tncQueue', tncQueue, Scheduled, NewNumber)
    BY <1>4, <1>5, <1>6, NewAdded
  <2> QED
    BY <1>2, <1>3, <1>6, <2>1, RadioNumberedKeeps
<1>7. CASE sendQueue' = Put(sendQueue, q) /\ tncQueue' = tncQueue
  <2>1. Adds(sendQueue', sendQueue, ThirdParties, NewNumber)
    BY <1>4, <1>5, <1>7, NewAdded
  <2>2. Adds(tncQueue', tncQueue, Scheduled, 0)
    BY <1>4, <1>7, AddsNothing
  <2>3. ToSet(before) = ToSet(tncQueue) \cup ToSet(sendQueue)
    BY <1>4, ElementsOfBoth DEF QueueOK, before
  <2>4. ToSet(after) = ToSet(tncQueue') \cup ToSet(sendQueue')
    BY <2>1, <2>2, ElementsOfBoth DEF Adds, after
  <2>5. \A x \in ToSet(before) : x.ID \in Used
    BY <2>3, InUse DEF Everywhere
  <2> QED
    BY <1>2, <1>3, <2>1, <2>2, <2>4, <2>5, InternetNumberedKeeps
<1> QED
  BY <1>2, <1>6, <1>7

LEMMA MainHolds ==
    ASSUME RInv, NetBeacon \/ TncBeacon \/ \E s \in posit_rfcall : schedule_posit2RF(s)
    PROVE  RInv'
<1>1. PacketsTyped /\ HandlersTyped
  BY DEF RInv, Typed
<1>2. UNCHANGED <<list, at, packet, posit, air, net, sent, now, aged>>
  BY DEF NetBeacon, TncBeacon, schedule_posit2RF, handlers, world, clock
<1>3. HandlersTyped'
  BY <1>1, <1>2 DEF HandlersTyped
<1>4. now \in Nat /\ QueueOK(sendQueue) /\ QueueOK(tncQueue)
  BY <1>1 DEF PacketsTyped
<1> DEFINE own == Own("status", None, {"srcSYSTEM"})
<1>5. own \in Formed(now) /\ own.ID = 0
  BY <1>4, OwnForm DEF Addressed
<1> HIDE DEF own
<1>6. /\ Adds(sendQueue, sendQueue, ThirdParties, 0)
      /\ Adds(Put(sendQueue, own), sendQueue, ThirdParties, 0)
      /\ Adds(tncQueue, tncQueue, Scheduled, 0)
      /\ Adds(Put(tncQueue, own), tncQueue, Scheduled, 0)
  BY <1>4, <1>5, AddsNothing, NewAdded
<1>7. CASE NetBeacon
  <2>1. sendQueue' = Put(sendQueue, own) /\ tncQueue' = tncQueue
    BY <1>7 DEF NetBeacon, own
  <2> QED
    BY <1>2, <1>3, <1>6, <2>1, UnnumberedKeeps
<1>8. CASE TncBeacon
  <2>1. tncQueue' = Put(tncQueue, own) /\ sendQueue' = sendQueue
    BY <1>8 DEF TncBeacon, own
  <2> QED
    BY <1>2, <1>3, <1>6, <2>1, UnnumberedKeeps
<1>9. ASSUME NEW s \in posit_rfcall, schedule_posit2RF(s)
      PROVE  RInv'
  <2> DEFINE found == getPosit(s, {"srcIGATE", "srcUSERVALID", "srcUSER"})
             q == stsmReformat(found)
  <2>1. found # Nothing /\ tncQueue' = Put(tncQueue, q) /\ sendQueue' = sendQueue
    BY <1>9 DEF schedule_posit2RF
  <2>2. found \in ToSet(list) /\ found \in Formed(now) /\ found.src = s
    BY <1>1, <2>1, PositListed DEF PacketsTyped
  <2> HIDE DEF found
  <2>3. q \in Formed(now) /\ Same(q, found)
    BY <2>2, Marked3rdParty
  <2> HIDE DEF q
  <2>4. q \in Scheduled
    BY <2>2, <2>3 DEF Scheduled, Same
  <2>5. Adds(tncQueue, tncQueue, Scheduled, 0)
    BY <1>6
  <2>6. Adds(Put(tncQueue, q), tncQueue, Scheduled, 0)
    BY <1>4, <2>3, <2>4, <2>5, AddsOneMore
  <2> QED
    BY <1>2, <1>3, <1>6, <2>1, <2>6, UnnumberedKeeps
<1> QED
  BY <1>7, <1>8, <1>9

LEMMA LogonHolds ==
    ASSUME RInv, NEW h \in Sessions, NEW l, Logon(h, l)
    PROVE  RInv'
<1>1. UNCHANGED <<list, sendQueue, tncQueue, at, packet, posit, air, net, sent, now, aged>>
  BY DEF Logon, shared, world, clock
<1>2. Typed'
  BY <1>1 DEF RInv, Typed, PacketsTyped, QueueOK, HandlersTyped, WorldTyped
<1>3. Pacing'
  BY <1>1 DEF RInv, Pacing, Numbered, Everywhere, Fresh, Stamped, StampKnown
<1> QED
  BY <1>2, <1>3 DEF RInv

\* The newest entry with the number gets the stamp: if an entry does not, there
\* is another one.
LEMMA Timestamped ==
    ASSUME now \in Nat, list \in Seq(Formed(now)), NEW id
    PROVE  LET r == timestamp(id) IN
           /\ r \in Seq(Formed(now)) /\ Len(r) = Len(list)
           /\ \A i \in 1 .. Len(list) :
                /\ Same(r[i], list[i]) /\ r[i].EchoMask = list[i].EchoMask
                /\ r[i].path = list[i].path /\ r[i].ttl = list[i].ttl
                /\ r[i].timeRF = list[i].timeRF \/ r[i].timeRF = now
           /\ \A i \in 1 .. Len(list) : list[i].ID = id =>
                \/ r[i].timeRF = now
                \/ \E j \in 1 .. Len(list) : j # i /\ list[j].ID = id
<1> DEFINE I == {i \in DOMAIN list : list[i].ID = id}
           r == timestamp(id)
<1>1. Len(list) \in Nat /\ DOMAIN list = 1 .. Len(list)
      /\ \A i \in 1 .. Len(list) : list[i] \in Formed(now)
  OBVIOUS
<1>2. \A p \in Formed(now) :
        LET q == [p EXCEPT !.timeRF = now] IN
        /\ q \in Formed(now) /\ Same(q, p) /\ q.EchoMask = p.EchoMask
        /\ q.path = p.path /\ q.ttl = p.ttl /\ q.timeRF = now
  BY SMTT(30) DEF Formed, Packets, Same
<1>3. CASE I = {}
  <2>1. r = list
    BY <1>3 DEF timestamp
  <2>2. \A i \in 1 .. Len(list) : list[i].ID # id
    BY <1>1, <1>3
  <2> QED
    BY <1>1, <2>1, <2>2 DEF Same
<1>4. CASE I # {}
  <2> DEFINE k == Max(I)
  <2>1. k \in I
    BY <1>1, <1>4, LastIndex
  <2>2. k \in 1 .. Len(list) /\ list[k].ID = id
    BY <1>1, <2>1
  <2>3. r = [list EXCEPT ![k].timeRF = now]
    BY <1>4 DEF timestamp
  <2> HIDE DEF k, I, r
  <2>4. r = [list EXCEPT ![k] = [list[k] EXCEPT !.timeRF = now]]
    BY <2>3
  <2>5. r \in Seq(Formed(now)) /\ Len(r) = Len(list)
    BY <1>1, <1>2, <2>2, <2>4
  <2>6. \A i \in 1 .. Len(list) :
          r[i] = IF i = k THEN [list[k] EXCEPT !.timeRF = now] ELSE list[i]
    BY <1>1, <2>4
  <2>7. \A i \in 1 .. Len(list) : i # k => r[i] = list[i]
    BY <2>6
  <2>8. /\ Same(r[k], list[k]) /\ r[k].EchoMask = list[k].EchoMask
        /\ r[k].path = list[k].path /\ r[k].ttl = list[k].ttl /\ r[k].timeRF = now
    BY <1>1, <1>2, <2>2, <2>6
  <2>9. \A i \in 1 .. Len(list) :
          /\ Same(r[i], list[i]) /\ r[i].EchoMask = list[i].EchoMask
          /\ r[i].path = list[i].path /\ r[i].ttl = list[i].ttl
          /\ r[i].timeRF = list[i].timeRF \/ r[i].timeRF = now
    BY <2>7, <2>8 DEF Same
  <2> QED
    BY <2>2, <2>5, <2>8, <2>9 DEF r
<1> QED
  BY <1>3, <1>4

LEMMA SendPositHolds ==
    ASSUME RInv, NEW h \in Threads, SendPosit(h)
    PROVE  RInv'
<1> DEFINE id == posit[h].ID
           q == stsmReformat(posit[h])
<1>1. PacketsTyped /\ HandlersTyped /\ WorldTyped /\ Pacing
  BY DEF RInv, Typed
<1>2. /\ at[h] = "stamp" /\ at' = [at EXCEPT ![h] = "inet"]
      /\ posit' = [posit EXCEPT ![h] = Nothing]
      /\ UNCHANGED <<sendQueue, packet, air, net, now, aged>>
  BY DEF SendPosit, clock
<1>3. \/ UNCHANGED <<list, tncQueue, sent>>
      \/ /\ now - posit[h].timeRF >= TenMinutes
         /\ list' = timestamp(id) /\ tncQueue' = Put(tncQueue, q)
         /\ sent' = [sent EXCEPT ![h][id] = IF tncQueue' = tncQueue THEN @ ELSE now]
  BY DEF SendPosit
<1>4. posit[h] \in Formed(now) /\ id \in Numbers /\ id # 0
  <2>1. posit[h] \in Formed(now) /\ posit[h].type \in Posits
    BY <1>1, <1>2 DEF HandlersTyped
  <2> QED
    BY <2>1 DEF Formed, Packets
<1>5. HandlersTyped'
  <2>1. packet[h] \in Raw /\ packet[h] # Nothing
    BY <1>1, <1>2 DEF HandlersTyped
  <2>2. MovesTo(h, "inet", packet[h], Nothing)
    BY <1>1, <1>2, SamePosit DEF MovesTo
  <2>3. Fits("inet", packet[h], Nothing)
    BY <2>1 DEF Fits
  <2> QED
    BY <1>1, <1>2, <2>2, <2>3, HandlerMoves
<1>6. \A g \in Threads : posit'[g] = IF g = h THEN Nothing ELSE posit[g]
  BY <1>1, <1>2 DEF HandlersTyped
<1>7. now \in Nat /\ list \in Seq(Formed(now)) /\ QueueOK(tncQueue) /\ QueueOK(sendQueue)
  BY <1>1 DEF PacketsTyped
<1>8. q \in Formed(now) /\ Same(q, posit[h])
  BY <1>4, Marked3rdParty
<1> HIDE DEF q
<1>9. /\ list' \in Seq(Formed(now)) /\ Len(list') = Len(list)
      /\ \A i \in 1 .. Len(list) :
           /\ Same(list'[i], list[i]) /\ list'[i].EchoMask = list[i].EchoMask
           /\ list'[i].path = list[i].path /\ list'[i].ttl = list[i].ttl
           /\ list'[i].timeRF = list[i].timeRF \/ list'[i].timeRF = now
  BY <1>3, <1>7, Timestamped DEF Same
<1>10. Adds(tncQueue', tncQueue, {q}, 0)
  <2>1. tncQueue' = tncQueue \/ tncQueue' = Put(tncQueue, q)
    BY <1>3
  <2>2. Adds(tncQueue, tncQueue, {q}, 0)
    BY <1>7, AddsNothing
  <2>3. Adds(Put(tncQueue, q), tncQueue, {q}, 0)
    BY <1>7, <1>8, <2>2, AddsOneMore
  <2> QED
    BY <2>1, <2>2, <2>3
<1>11. /\ sent' \in [Threads -> [Numbers -> {Never} \cup 0 .. now]]
       /\ \A g \in Threads, n \in Numbers : n # id \/ g # h => sent'[g][n] = sent[g][n]
  <2>1. sent \in [Threads -> [Numbers -> {Never} \cup 0 .. now]]
    BY <1>1 DEF WorldTyped
  <2>2. sent[h][id] \in {Never} \cup 0 .. now /\ now \in 0 .. now
    BY <1>4, <1>7, <2>1
  <2> HIDE DEF id
  <2>3. \/ sent' = sent
        \/ sent' = [sent EXCEPT ![h][id] = sent[h][id]]
        \/ sent' = [sent EXCEPT ![h][id] = now]
    BY <1>3 DEF id
  <2>4. \E v \in {Never} \cup 0 .. now : sent' = sent \/ sent' = [sent EXCEPT ![h][id] = v]
    BY <2>2, <2>3
  <2>5. id \in Numbers
    BY <1>4 DEF id
  <2> QED
    BY <2>1, <2>4, <2>5 DEF id
<1>12. ASSUME NEW j \in 1 .. Len(tncQueue')
       PROVE  \/ j \in 1 .. Len(tncQueue) /\ tncQueue'[j] = tncQueue[j]
              \/ tncQueue'[j].ID = 0
              \/ tncQueue'[j] = q
  BY <1>7, <1>10 DEF Adds, QueueOK
<1>13. tncQueue' \in Seq(Formed(now)) /\ tncQueue \in Seq(Formed(now))
       /\ sendQueue \in Seq(Formed(now))
  BY <1>7, <1>10 DEF Adds, QueueOK
<1>14. q.ID = id /\ Nothing.ID = 0 /\ posit[h] \in Everywhere
  BY <1>8 DEF Same, Nothing, Everywhere
<1>15. \A x \in ToSet(list') : \E e \in ToSet(list) : Same(x, e)
  <2> SUFFICES ASSUME NEW i \in 1 .. Len(list') PROVE \E e \in ToSet(list) : Same(list'[i], e)
    BY <1>9, InQueue
  <2> QED
    BY <1>7, <1>9, InQueue
<1>16. \A x \in ToSet(tncQueue') : x.ID = 0 \/ x = q \/ x \in ToSet(tncQueue)
  BY <1>12, <1>13, InQueue
<1> HIDE DEF id
<1>17. Numbered'
  <2>1. ASSUME NEW x \in Everywhere'
        PROVE  x.ID = 0 \/ \E e \in Everywhere : Same(x, e)
    <3>1. CASE x \in ToSet(list')
      BY <1>15, <3>1 DEF Everywhere
    <3>2. CASE x \in ToSet(tncQueue')
      BY <1>8, <1>14, <1>16, <3>2 DEF Everywhere, Same
    <3>3. CASE x \in ToSet(sendQueue) \cup {posit'[g] : g \in Threads}
      BY <1>6, <1>14, <3>3 DEF Everywhere, Same
    <3> QED
      BY <1>2, <3>1, <3>2, <3>3 DEF Everywhere
  <2>2. /\ \A x \in Everywhere' : x.ID = 0 \/ x.ID = 0 \/ \E e \in Everywhere : Same(x, e)
        /\ \A x, y \in Everywhere' : x.ID = 0 /\ y.ID = 0 /\ 0 # 0 => x = y
    BY <2>1
  <2> QED
    BY <1>1, <2>2, StaysNumbered DEF Pacing
<1>18. Fresh'
  <2> SUFFICES ASSUME NEW i \in 1 .. Len(sendQueue), sendQueue[i].ID # 0,
                      "src3RDPARTY" \notin sendQueue[i].EchoMask
               PROVE  /\ \A j \in 1 .. Len(sendQueue) : sendQueue[j].ID = sendQueue[i].ID => j = i
                      /\ \A x \in ToSet(list') \cup ToSet(tncQueue') \cup {posit'[g] : g \in Threads} :
                            x.ID # sendQueue[i].ID
                      /\ \A g \in Threads : sent'[g][sendQueue[i].ID] = Never
    BY <1>2 DEF Fresh
  <2>1. /\ \A j \in 1 .. Len(sendQueue) : sendQueue[j].ID = sendQueue[i].ID => j = i
        /\ \A x \in ToSet(list) \cup ToSet(tncQueue) \cup {posit[g] : g \in Threads} :
              x.ID # sendQueue[i].ID
        /\ \A g \in Threads : sent[g][sendQueue[i].ID] = Never
    BY <1>1 DEF Pacing, Fresh
  <2>2. sendQueue[i].ID # id /\ sendQueue[i].ID \in Numbers
    <3>1. sendQueue[i] \in Packets
      BY <1>13, InQueue DEF Formed
    <3> QED
      BY <2>1, <3>1 DEF id, Packets
  <2>3. \A x \in ToSet(list') \cup ToSet(tncQueue') \cup {posit'[g] : g \in Threads} :
          x.ID # sendQueue[i].ID
    BY <1>6, <1>14, <1>15, <1>16, <2>1, <2>2 DEF Same
  <2> QED
    BY <1>11, <2>1, <2>2, <2>3
<1>19. Stamped'
  <2> SUFFICES ASSUME NEW i \in 1 .. Len(list), Original(list'[i])
               PROVE  /\ \A g \in Threads : sent'[g][list'[i].ID] <= list'[i].timeRF
                      /\ \A j \in 1 .. Len(list) : j # i /\ list'[j].ID = list'[i].ID =>
                            /\ StampedLately(list'[i], now, aged, posit')
                            /\ list'[j].ttl <= ttlTNC
                      /\ \A j \in 1 .. Len(tncQueue') : tncQueue'[j].ID = list'[i].ID =>
                            list'[i].timeRF = now
    BY <1>2, <1>9 DEF Stamped
  <2>1. Original(list[i]) /\ list'[i].ID = list[i].ID
    BY <1>9 DEF Same, Original, Paced
  <2>2. /\ \A g \in Threads : sent[g][list[i].ID] <= list[i].timeRF
        /\ \A j \in 1 .. Len(list) : j # i /\ list[j].ID = list[i].ID =>
              StampedLately(list[i], now, aged, posit) /\ list[j].ttl <= ttlTNC
        /\ \A j \in 1 .. Len(tncQueue) : tncQueue[j].ID = list[i].ID =>
              list[i].timeRF = now
    BY <1>1, <2>1 DEF Pacing, Stamped
  <2>3. list'[i].timeRF = list[i].timeRF \/ list'[i].timeRF = now
    BY <1>9
  <2>4. list[i].ID \in Numbers /\ list[i].ID # 0 /\ list[i].timeRF \in {Never} \cup 0 .. now
    <3>1. list[i] \in Formed(now) /\ list[i].type \in Posits
      BY <1>7, <2>1 DEF Original, Paced, Posits
    <3> QED
      BY <1>7, <3>1 DEF Formed, Packets
  <2>7. StampedLately(list[i], now, aged, posit) =>
           StampedLately(list'[i], now, aged, posit')
    BY <1>6, <2>1, <2>3 DEF StampedLately
  <2>5. CASE UNCHANGED <<list, tncQueue, sent>>
    BY <2>2, <2>5, <2>7
  <2>6. CASE now - posit[h].timeRF >= TenMinutes /\ list' = timestamp(id)
    <3>1. list[i].ID = id => list'[i].timeRF = now
      <4> SUFFICES ASSUME list[i].ID = id, list'[i].timeRF # now PROVE FALSE
        OBVIOUS
      <4>1. PICK j \in 1 .. Len(list) : j # i /\ list[j].ID = id
        BY <1>7, <2>6, Timestamped
      <4>2. StampedLately(list[i], now, aged, posit)
        BY <2>2, <4>1
      <4>3. posit[h].timeRF >= now - 1
        BY <1>4, <2>3, <4>2 DEF StampedLately, id, Nothing
      <4>4. now - posit[h].timeRF >= 2
        BY <2>6 DEF TenMinutes
      <4>5. posit[h].timeRF \in Int
        BY <1>4 DEF Formed, Packets, Never
      <4> QED
        BY <1>7, <4>3, <4>4, <4>5
    <3>2. ASSUME NEW g \in Threads
          PROVE  sent'[g][list[i].ID] <= list'[i].timeRF
      <4>1. sent'[g][list[i].ID] \in {Never} \cup 0 .. now
        BY <1>11, <2>4
      <4>2. CASE list[i].ID = id
        BY <1>7, <3>1, <4>1, <4>2 DEF Never
      <4>3. CASE list[i].ID # id
        BY <1>7, <1>11, <2>2, <2>3, <2>4, <4>1, <4>3 DEF Never
      <4> QED
        BY <4>2, <4>3
    <3>3. ASSUME NEW j \in 1 .. Len(list), j # i, list'[j].ID = list'[i].ID
          PROVE  StampedLately(list'[i], now, aged, posit') /\ list'[j].ttl <= ttlTNC
      <4>1. list[j].ID = list[i].ID /\ list'[j].ttl = list[j].ttl
        BY <1>9, <2>1, <3>3 DEF Same
      <4>2. StampedLately(list[i], now, aged, posit) /\ list[j].ttl <= ttlTNC
        BY <2>2, <3>3, <4>1
      <4> QED
        BY <2>1, <2>7, <4>1, <4>2
    <3>4. ASSUME NEW j \in 1 .. Len(tncQueue'), tncQueue'[j].ID = list[i].ID
          PROVE  list'[i].timeRF = now
      BY <1>12, <1>14, <2>2, <2>3, <2>4, <3>1, <3>4
    <3> QED
      BY <2>1, <3>2, <3>3, <3>4
  <2> QED
    BY <1>3, <2>5, <2>6
<1>20. StampKnown'
  <2> SUFFICES ASSUME NEW g \in Threads, posit'[g] # Nothing, Paced(posit'[g])
               PROVE  sent'[g][posit'[g].ID] <= posit'[g].timeRF
    BY DEF StampKnown
  <2>1. g # h /\ posit'[g] = posit[g]
    BY <1>6
  <2>2. posit[g].ID \in Numbers
    <3>1. posit[g] \in Formed(now)
      BY <1>1, <2>1 DEF HandlersTyped
    <3> QED
      BY <2>1, <3>1 DEF Formed, Packets, Paced, Posits
  <2> QED
    BY <1>1, <1>11, <2>1, <2>2 DEF Pacing, StampKnown
<1> QED
  <2>1. PacketsTyped'
    BY <1>2, <1>7, <1>9, <1>10 DEF PacketsTyped, QueueOK, Adds
  <2>2. WorldTyped'
    BY <1>1, <1>2, <1>11 DEF WorldTyped
  <2> QED
    BY <1>5, <1>17, <1>18, <1>19, <1>20, <2>1, <2>2 DEF RInv, Typed, Pacing

\* A list without some of its entries: place says where each was before.
Places(r, s, place) ==
    /\ place \in [1 .. Len(r) -> 1 .. Len(s)]
    /\ \A i \in 1 .. Len(r) : r[i] = s[place[i]]
    /\ \A i, j \in 1 .. Len(r) : i # j => place[i] # place[j]

LEMMA KeepingPlaces ==
    ASSUME NEW X, NEW s \in Seq(X), NEW S
    PROVE  LET r == Keeping(s, S) IN
           /\ r \in Seq(X)
           /\ \A i \in 1 .. Len(r) : r[i] \in S
           /\ \E place : Places(r, s, place)
<1> DEFINE r == Keeping(s, S)
<1>1. r \in Seq(X)
  BY KeepingEmbeds
<1>2. PICK place \in [1 .. Len(r) -> 1 .. Len(s)] : Embeds(place, r, s, S)
  BY KeepingEmbeds
<1> HIDE DEF r
<1>3. Len(r) \in Nat /\ Len(s) \in Nat
  BY <1>1
<1>4. /\ \A i \in 1 .. Len(r) : r[i] = s[place[i]] /\ r[i] \in S
      /\ \A i, j \in 1 .. Len(r) : i < j => place[i] < place[j]
  BY <1>2 DEF Embeds
<1>5. ASSUME NEW i \in 1 .. Len(r), NEW j \in 1 .. Len(r), i # j
      PROVE  place[i] # place[j]
  <2>1. place[i] \in Nat /\ place[j] \in Nat /\ (i < j \/ j < i)
    BY <1>3, <1>5
  <2> QED
    BY <1>4, <2>1
<1>6. Places(r, s, place)
  BY <1>4, <1>5 DEF Places
<1> QED
  BY <1>1, <1>4, <1>6 DEF r

\* The packet is last; before it is what was there.
LEMMA AddedPlaces ==
    ASSUME NEW X, list \in Seq(X), NEW p \in X
    PROVE  \E r \in Seq(X) :
              Added(p) = Append(r, p) /\ \E place : Places(r, list, place)
<1> DEFINE K == {e \in ToSet(list) : ~SameKind(e, p)}
<1>1. CASE Len(list) <= 1
  <2>1. Places(list, list, [i \in 1 .. Len(list) |-> i])
    BY DEF Places
  <2> QED
    BY <1>1, <2>1 DEF Added
<1>2. CASE ~(Len(list) <= 1)
  <2>1. Keeping(list, K) \in Seq(X) /\ \E place : Places(Keeping(list, K), list, place)
    <3> HIDE DEF K
    <3> QED
      BY KeepingPlaces
  <2>2. Added(p) = Append(Keeping(list, K), p)
    BY <1>2 DEF Added
  <2> QED
    BY <2>1, <2>2
<1> QED
  BY <1>1, <1>2

\* A packet that is added is the original, with a number of its own, or a copy
\* whose original has been stamped.
LEMMA AddedStamped ==
    ASSUME PacketsTyped, Stamped, NEW p \in Formed(now), list' = Added(p), now' = now, aged' = aged,
           posit' = posit,
           sent' = sent, tncQueue' \in Seq(Formed(now)), ToSet(tncQueue') \subseteq ToSet(tncQueue),
           \A i \in 1 .. Len(list) : Original(list[i]) /\ list[i].ID = p.ID =>
              list[i].timeRF = now /\ p.ttl <= ttlTNC,
           Original(p) => /\ \A h \in Threads : sent[h][p.ID] <= p.timeRF
                          /\ \A x \in ToSet(list) \cup ToSet(tncQueue') : x.ID # p.ID
    PROVE  Stamped'
<1>1. list \in Seq(Formed(now)) /\ tncQueue \in Seq(Formed(now))
  BY DEF PacketsTyped, QueueOK
<1>2. PICK r \in Seq(Formed(now)) :
        list' = Append(r, p) /\ \E place : Places(r, list, place)
  BY <1>1, AddedPlaces
<1>3. PICK place : Places(r, list, place)
  BY <1>2
<1> DEFINE l == Len(r) + 1
<1>4. /\ Len(r) \in Nat /\ Len(list') = l /\ list'[l] = p
      /\ \A i \in 1 .. Len(r) : list'[i] = r[i]
  BY <1>2, AppendProperties
<1>5. \A i \in 1 .. l : i \in 1 .. Len(r) \/ i = l
  BY <1>4
<1>6. ASSUME NEW i \in 1 .. Len(r)
      PROVE  place[i] \in 1 .. Len(list) /\ list'[i] = list[place[i]]
             /\ list[place[i]] \in ToSet(list)
  BY <1>1, <1>3, <1>4, InQueue DEF Places
<1>7. \A x \in ToSet(tncQueue') : \E j \in 1 .. Len(tncQueue) : tncQueue[j] = x
  BY <1>1, InQueue
<1>8. \A j \in 1 .. Len(tncQueue') : tncQueue'[j] \in ToSet(tncQueue')
  BY InQueue
<1> HIDE DEF l
<1> SUFFICES ASSUME NEW i \in 1 .. l, Original(list'[i])
             PROVE  /\ \A h \in Threads : sent[h][list'[i].ID] <= list'[i].timeRF
                    /\ \A j \in 1 .. l : j # i /\ list'[j].ID = list'[i].ID =>
                          /\ StampedLately(list'[i], now, aged, posit)
                          /\ list'[j].ttl <= ttlTNC
                    /\ \A j \in 1 .. Len(tncQueue') : tncQueue'[j].ID = list'[i].ID =>
                          list'[i].timeRF = now
  BY <1>4 DEF Stamped
<1>9. CASE i = l
  <2>1. list'[i] = p /\ Original(p)
    BY <1>4, <1>9
  <2>2. ASSUME NEW j \in 1 .. l, j # i PROVE list'[j].ID # p.ID
    BY <1>5, <1>6, <1>9, <2>1, <2>2
  <2> QED
    BY <1>8, <2>1, <2>2
<1>10. CASE i \in 1 .. Len(r)
  <2> DEFINE k == place[i]
  <2>1. k \in 1 .. Len(list) /\ list'[i] = list[k] /\ Original(list[k])
    BY <1>6, <1>10
  <2> HIDE DEF k
  <2>2. /\ \A h \in Threads : sent[h][list[k].ID] <= list[k].timeRF
        /\ \A j \in 1 .. Len(list) : j # k /\ list[j].ID = list[k].ID =>
              StampedLately(list[k], now, aged, posit) /\ list[j].ttl <= ttlTNC
        /\ \A j \in 1 .. Len(tncQueue) : tncQueue[j].ID = list[k].ID =>
              list[k].timeRF = now
    BY <2>1 DEF Stamped
  <2>3. ASSUME NEW j \in 1 .. l, j # i, list'[j].ID = list'[i].ID
        PROVE  StampedLately(list'[i], now, aged, posit) /\ list'[j].ttl <= ttlTNC
    <3>1. CASE j = l
      BY <1>4, <2>1, <2>3, <3>1 DEF StampedLately
    <3>2. CASE j \in 1 .. Len(r)
      <4>1. place[j] # k
        BY <1>3, <1>10, <2>3, <3>2 DEF Places, k
      <4> QED
        BY <1>6, <2>1, <2>2, <2>3, <3>2, <4>1
    <3> QED
      BY <1>5, <3>1, <3>2
  <2>4. ASSUME NEW j \in 1 .. Len(tncQueue'), tncQueue'[j].ID = list'[i].ID
        PROVE  list'[i].timeRF = now
    <3>1. PICK m \in 1 .. Len(tncQueue) : tncQueue[m] = tncQueue'[j]
      BY <1>7, <1>8
    <3> QED
      BY <2>1, <2>2, <2>4, <3>1
  <2> QED
    BY <2>1, <2>2, <2>3, <2>4
<1> QED
  BY <1>5, <1>9, <1>10

LEMMA AddedElements ==
    ASSUME NEW X, list \in Seq(X), NEW p \in X
    PROVE  Added(p) \in Seq(X) /\ ToSet(Added(p)) \subseteq ToSet(list) \cup {p}
<1>1. PICK r \in Seq(X) : Added(p) = Append(r, p) /\ \E place : Places(r, list, place)
  BY AddedPlaces
<1> DEFINE a == Append(r, p)
<1>2. /\ a \in Seq(X) /\ Len(r) \in Nat /\ Len(a) = Len(r) + 1 /\ a[Len(a)] = p
      /\ \A i \in 1 .. Len(r) : a[i] = r[i]
  BY AppendProperties
<1> HIDE DEF a
<1>3. ASSUME NEW i \in 1 .. Len(a)
      PROVE  a[i] \in ToSet(list) \cup {p}
  <2>1. i \in 1 .. Len(r) \/ i = Len(a)
    BY <1>2
  <2>2. CASE i \in 1 .. Len(r)
    <3>1. PICK k \in 1 .. Len(list) : r[i] = list[k]
      BY <1>1, <2>2 DEF Places
    <3> QED
      BY <1>2, <2>2, <3>1, InQueue
  <2> QED
    BY <1>2, <2>1, <2>2
<1>4. ToSet(a) \subseteq ToSet(list) \cup {p}
  BY <1>2, <1>3, InQueue
<1> QED
  BY <1>1, <1>2, <1>4 DEF a

\* What is left of a queue when its first packet is taken.
LEMMA TailPlaces ==
    ASSUME NEW q, QueueOK(q), q # <<>>
    PROVE  /\ QueueOK(Tail(q)) /\ Head(q) \in Formed(now) /\ Head(q) = q[1] /\ 1 \in 1 .. Len(q)
           /\ Head(q) \in ToSet(q) /\ ToSet(Tail(q)) \subseteq ToSet(q)
           /\ \A i \in 1 .. Len(Tail(q)) : i + 1 \in 1 .. Len(q) /\ Tail(q)[i] = q[i + 1]
<1>1. q \in Seq(Formed(now)) /\ Len(q) <= QueueSize
  BY DEF QueueOK
<1> DEFINE t == Tail(q)
<1>2. /\ t \in Seq(Formed(now)) /\ Len(q) \in Nat \ {0} /\ Len(t) = Len(q) - 1
      /\ \A i \in 1 .. Len(t) : t[i] = q[i + 1]
      /\ Head(q) = q[1]
  BY <1>1, HeadTailProperties, EmptySeq
<1> HIDE DEF t
<1>3. \A i \in 1 .. Len(t) : i + 1 \in 1 .. Len(q)
  BY <1>2
<1>4. ToSet(t) \subseteq ToSet(q)
  BY <1>1, <1>2, <1>3, InQueue
<1>5. QueueOK(t)
  BY <1>1, <1>2, RoutingAssumption DEF QueueOK
<1>6. Head(q) \in Formed(now) /\ Head(q) \in ToSet(q) /\ 1 \in 1 .. Len(q)
  BY <1>1, <1>2, InQueue
<1> QED
  BY <1>2, <1>3, <1>4, <1>5, <1>6 DEF t

LEMMA DeQueueHolds ==
    ASSUME RInv, DeQueue
    PROVE  RInv'
<1> DEFINE head == Head(sendQueue)
           abuff == [head EXCEPT !.dest = "INET", !.ttl = ttlDefault]
           noHist == \/ "src3RDPARTY" \in abuff.EchoMask /\ abuff.type = "posit"
                     \/ "srcSYSTEM" \in abuff.EchoMask
<1> USE RoutingAssumption
<1>1. PacketsTyped /\ HandlersTyped /\ WorldTyped /\ Pacing
  BY DEF RInv, Typed
<1>2. /\ sendQueue # <<>> /\ sendQueue' = Tail(sendQueue)
      /\ UNCHANGED <<tncQueue, at, packet, posit, air, sent, now, aged>>
      /\ \/ list' = list
         \/ ~noHist /\ list' = Added(abuff)
      /\ net' = Passed(abuff)
  BY DEF DeQueue, handlers, clock
<1>3. now \in Nat /\ list \in Seq(Formed(now)) /\ QueueOK(sendQueue) /\ QueueOK(tncQueue)
  BY <1>1 DEF PacketsTyped
<1>4. /\ QueueOK(sendQueue') /\ head \in Formed(now) /\ head = sendQueue[1]
      /\ 1 \in 1 .. Len(sendQueue) /\ head \in ToSet(sendQueue)
      /\ ToSet(sendQueue') \subseteq ToSet(sendQueue)
      /\ \A i \in 1 .. Len(sendQueue') :
            i + 1 \in 1 .. Len(sendQueue) /\ sendQueue'[i] = sendQueue[i + 1]
  BY <1>2, <1>3, TailPlaces
<1> HIDE DEF head
<1>5. /\ abuff \in Formed(now) /\ Same(abuff, head) /\ abuff.EchoMask = head.EchoMask
      /\ abuff.timeRF = head.timeRF
  BY <1>4 DEF Formed, Packets, Same
<1>6. abuff \in Packets /\ (abuff.type \in Posits <=> abuff.ID # 0)
      /\ (abuff.EchoMask \cap Outgoing # {} => abuff.src \in Callers)
  BY <1>5 DEF Formed
<1> HIDE DEF abuff
<1>7. list' \in Seq(Formed(now)) /\ ToSet(list') \subseteq ToSet(list) \cup {abuff}
  BY <1>2, <1>3, <1>5, AddedElements
<1>8. Numbered'
  <2>1. ASSUME NEW x \in Everywhere'
        PROVE  \E e \in Everywhere : Same(x, e)
    BY <1>2, <1>4, <1>5, <1>7 DEF Everywhere, Same
  <2>2. /\ \A x \in Everywhere' : x.ID = 0 \/ x.ID = 0 \/ \E e \in Everywhere : Same(x, e)
        /\ \A x, y \in Everywhere' : x.ID = 0 /\ y.ID = 0 /\ 0 # 0 => x = y
    BY <2>1
  <2> QED
    BY <1>1, <2>2, StaysNumbered DEF Pacing
<1>9. Fresh'
  <2> SUFFICES ASSUME NEW i \in 1 .. Len(sendQueue'), sendQueue'[i].ID # 0,
                      "src3RDPARTY" \notin sendQueue'[i].EchoMask
               PROVE  /\ \A j \in 1 .. Len(sendQueue') : sendQueue'[j].ID = sendQueue'[i].ID => j = i
                      /\ \A x \in ToSet(list') \cup ToSet(tncQueue) \cup {posit[h] : h \in Threads} :
                            x.ID # sendQueue'[i].ID
                      /\ \A h \in Threads : sent[h][sendQueue'[i].ID] = Never
    <3>1. tncQueue' = tncQueue /\ posit' = posit /\ sent' = sent
      BY <1>2
    <3> QED
      BY <3>1 DEF Fresh
  <2> DEFINE k == i + 1
  <2>1. k \in 1 .. Len(sendQueue) /\ sendQueue'[i] = sendQueue[k] /\ k # 1
    BY <1>4
  <2> HIDE DEF k
  <2>2. /\ \A j \in 1 .. Len(sendQueue) : sendQueue[j].ID = sendQueue[k].ID => j = k
        /\ \A x \in ToSet(list) \cup ToSet(tncQueue) \cup {posit[h] : h \in Threads} :
              x.ID # sendQueue[k].ID
        /\ \A h \in Threads : sent[h][sendQueue[k].ID] = Never
    BY <1>1, <2>1 DEF Pacing, Fresh
  <2>3. abuff.ID # sendQueue[k].ID
    BY <1>4, <1>5, <2>1, <2>2 DEF Same
  <2>4. ASSUME NEW j \in 1 .. Len(sendQueue'), sendQueue'[j].ID = sendQueue'[i].ID PROVE j = i
    <3>1. j + 1 \in 1 .. Len(sendQueue) /\ sendQueue'[j] = sendQueue[j + 1]
      BY <1>4
    <3>2. j + 1 = k
      BY <2>1, <2>2, <2>4, <3>1
    <3> QED
      BY <3>2 DEF k
  <2> QED
    BY <1>7, <2>1, <2>2, <2>3, <2>4
<1>10. Stamped'
  <2>1. CASE list' = list
    BY <1>1, <1>2, <2>1 DEF Pacing, Stamped
  <2>2. CASE ~noHist /\ list' = Added(abuff)
    <3>1. tncQueue' = tncQueue /\ tncQueue \in Seq(Formed(now))
          /\ now' = now /\ sent' = sent /\ aged' = aged /\ posit' = posit
      BY <1>2, <1>3 DEF QueueOK
    <3>2. abuff.type = "posit" => abuff.ID # 0 /\ "src3RDPARTY" \notin head.EchoMask
      BY <1>5, <1>6, <2>2 DEF Posits
    <3>3. abuff.type = "posit" =>
            /\ \A x \in ToSet(list) \cup ToSet(tncQueue) : x.ID # abuff.ID
            /\ \A h \in Threads : sent[h][abuff.ID] = Never
      BY <1>1, <1>4, <1>5, <3>2 DEF Pacing, Fresh, Same
    <3>4. ASSUME NEW i \in 1 .. Len(list), Original(list[i]), list[i].ID = abuff.ID
          PROVE  FALSE
      <4>1. list[i] \in ToSet(list) /\ list[i] \in Formed(now) /\ list[i].type = "posit"
        BY <1>3, <3>4, InQueue DEF Original, Paced
      <4>2. list[i].ID # 0
        BY <4>1 DEF Formed, Posits
      <4>3. abuff.type = "posit"
        BY <1>1, <1>4, <1>5, <3>4, <4>1, <4>2 DEF Pacing, Numbered, Same, Everywhere
      <4> QED
        BY <3>3, <3>4, <4>1, <4>3
    <3>5. Never <= abuff.timeRF
      BY <1>6 DEF Packets, Never
    <3>6. Original(abuff) =>
            /\ \A h \in Threads : sent[h][abuff.ID] <= abuff.timeRF
            /\ \A x \in ToSet(list) \cup ToSet(tncQueue') : x.ID # abuff.ID
      BY <3>1, <3>3, <3>5 DEF Original, Paced
    <3>7. \A i \in 1 .. Len(list) : Original(list[i]) /\ list[i].ID = abuff.ID =>
            list[i].timeRF = now /\ abuff.ttl <= ttlTNC
      BY <3>4
    <3>8. Stamped
      BY <1>1 DEF Pacing
    <3>9. ToSet(tncQueue') \subseteq ToSet(tncQueue)
      BY <3>1
    <3> QED
      BY <1>1, <1>2, <1>5, <2>2, <3>1, <3>6, <3>7, <3>8, <3>9, AddedStamped
  <2> QED
    BY <1>2, <2>1, <2>2
<1>11. StampKnown'
  BY <1>1, <1>2 DEF Pacing, StampKnown
<1>12. net' \subseteq Raw
  <2> DEFINE given == [src |-> abuff.src, type |-> abuff.type, to |-> abuff.to,
                       path |-> abuff.path, unreg |-> abuff.unreg]
  <2>1. CASE abuff.EchoMask \cap Outgoing = {}
    BY <1>1, <1>2, <2>1 DEF Passed, Outgoing, WorldTyped
  <2>2. CASE abuff.EchoMask \cap Outgoing # {}
    <3>1. given \in Raw
      BY <1>6, <2>2 DEF Raw, Packets
    <3>2. net' = net \cup {given}
      BY <1>2, <2>2 DEF Passed, Outgoing
    <3> HIDE DEF given
    <3> QED
      BY <1>1, <3>1, <3>2 DEF WorldTyped
  <2> QED
    BY <2>1, <2>2
<1> QED
  <2>1. PacketsTyped'
    BY <1>2, <1>3, <1>4, <1>7 DEF PacketsTyped, QueueOK
  <2>2. HandlersTyped'
    BY <1>1, <1>2 DEF HandlersTyped
  <2>3. WorldTyped'
    BY <1>1, <1>2, <1>12 DEF WorldTyped
  <2> QED
    BY <1>8, <1>9, <1>10, <1>11, <2>1, <2>2, <2>3 DEF RInv, Typed, Pacing

LEMMA dequeueTNCHolds ==
    ASSUME RInv, dequeueTNC
    PROVE  RInv'
<1> DEFINE head == Head(tncQueue)
           abuff == [head EXCEPT !.dest = "TNC", !.ttl = ttlTNC, !.EchoMask = {}]
           given == [type |-> abuff.type, to |-> abuff.to, unreg |-> abuff.unreg,
                     inet |-> abuff.inet, reformatted |-> abuff.reformatted]
<1>1. PacketsTyped /\ HandlersTyped /\ WorldTyped /\ Pacing
  BY DEF RInv, Typed
<1>2. /\ tncQueue # <<>> /\ tncQueue' = Tail(tncQueue)
      /\ UNCHANGED <<sendQueue, at, packet, posit, net, sent, now, aged>>
      /\ \/ list' = list /\ air' = air
         \/ list' = Added(abuff) /\ air' = air \cup {given}
  BY DEF dequeueTNC, handlers, clock
<1>3. now \in Nat /\ list \in Seq(Formed(now)) /\ QueueOK(sendQueue) /\ QueueOK(tncQueue)
  BY <1>1 DEF PacketsTyped
<1>4. /\ QueueOK(tncQueue') /\ head \in Formed(now) /\ head = tncQueue[1]
      /\ 1 \in 1 .. Len(tncQueue) /\ head \in ToSet(tncQueue)
      /\ ToSet(tncQueue') \subseteq ToSet(tncQueue)
      /\ \A i \in 1 .. Len(tncQueue') :
            i + 1 \in 1 .. Len(tncQueue) /\ tncQueue'[i] = tncQueue[i + 1]
  BY <1>2, <1>3, TailPlaces
<1> HIDE DEF head
<1>5. abuff \in Formed(now) /\ Same(abuff, head) /\ abuff.EchoMask = {} /\ abuff.ttl = ttlTNC
  BY <1>4 DEF Formed, Packets, Same, ttlTNC
<1>6. abuff \in Packets
  BY <1>5 DEF Formed
<1> HIDE DEF abuff
<1>7. list' \in Seq(Formed(now)) /\ ToSet(list') \subseteq ToSet(list) \cup {abuff}
  BY <1>2, <1>3, <1>5, AddedElements
<1>8. Numbered'
  <2>1. ASSUME NEW x \in Everywhere'
        PROVE  \E e \in Everywhere : Same(x, e)
    BY <1>2, <1>4, <1>5, <1>7 DEF Everywhere, Same
  <2>2. /\ \A x \in Everywhere' : x.ID = 0 \/ x.ID = 0 \/ \E e \in Everywhere : Same(x, e)
        /\ \A x, y \in Everywhere' : x.ID = 0 /\ y.ID = 0 /\ 0 # 0 => x = y
    BY <2>1
  <2> QED
    BY <1>1, <2>2, StaysNumbered DEF Pacing
<1>9. Fresh'
  <2>1. sendQueue' = sendQueue /\ posit' = posit /\ sent' = sent
    BY <1>2
  <2>2. ASSUME NEW x \in ToSet(list') \cup ToSet(tncQueue')
        PROVE  \E e \in ToSet(list) \cup ToSet(tncQueue) : e.ID = x.ID
    BY <1>4, <1>5, <1>7 DEF Same
  <2>3. Fresh
    BY <1>1 DEF Pacing
  <2> QED
    BY <2>1, <2>2, <2>3 DEF Fresh
<1>10. Stamped'
  <2>1. CASE list' = list
    <3>1. sent' = sent /\ now' = now /\ aged' = aged /\ posit' = posit
      BY <1>2
    <3>2. \A j \in 1 .. Len(tncQueue') : \E k \in 1 .. Len(tncQueue) : tncQueue'[j] = tncQueue[k]
      BY <1>4
    <3> QED
      BY <1>1, <2>1, <3>1, <3>2 DEF Pacing, Stamped
  <2>2. CASE list' = Added(abuff)
    <3>1. tncQueue' \in Seq(Formed(now)) /\ now' = now /\ sent' = sent
          /\ aged' = aged /\ posit' = posit
      BY <1>2, <1>4 DEF QueueOK
    <3>2. \A i \in 1 .. Len(list) : Original(list[i]) /\ list[i].ID = abuff.ID =>
            list[i].timeRF = now /\ abuff.ttl <= ttlTNC
      BY <1>1, <1>4, <1>5 DEF Pacing, Stamped, Same, ttlTNC
    <3>3. ~Original(abuff)
      BY <1>5 DEF Original
    <3>4. Stamped
      BY <1>1 DEF Pacing
    <3> QED
      BY <1>1, <1>4, <1>5, <2>2, <3>1, <3>2, <3>3, <3>4, AddedStamped
  <2> QED
    BY <1>2, <2>1, <2>2
<1>11. StampKnown'
  BY <1>1, <1>2 DEF Pacing, StampKnown
<1> QED
  <2>1. PacketsTyped'
    BY <1>2, <1>3, <1>4, <1>7 DEF PacketsTyped, QueueOK
  <2>2. HandlersTyped'
    BY <1>1, <1>2 DEF HandlersTyped
  <2>3. given \in [type : Types, to : Addressed, unreg : BOOLEAN, inet : BOOLEAN,
                   reformatted : BOOLEAN]
    BY <1>6 DEF Packets, Addressed
  <2>4. WorldTyped'
    <3> HIDE DEF given
    <3> QED
      BY <1>1, <1>2, <2>3 DEF WorldTyped
  <2> QED
    BY <1>8, <1>9, <1>10, <1>11, <2>1, <2>2, <2>4 DEF RInv, Typed, Pacing

\* What is in the list was in it, younger by one round, or the list is as it was.
LEMMA AgedPlaces ==
    ASSUME list \in Seq(Formed(now)), now \in Nat,
           (Len(list) <= 1 /\ list' = list) \/ list' = Aged
    PROVE  /\ list' \in Seq(Formed(now))
           /\ \E place :
                /\ place \in [1 .. Len(list') -> 1 .. Len(list)]
                /\ \A i, j \in 1 .. Len(list') : i # j => place[i] # place[j]
                /\ \A i \in 1 .. Len(list') :
                     /\ Same(list'[i], list[place[i]])
                     /\ list'[i].EchoMask = list[place[i]].EchoMask
                     /\ list'[i].path = list[place[i]].path
                     /\ list'[i].timeRF = list[place[i]].timeRF
                     /\ \/ list' = list /\ Len(list) <= 1 /\ place[i] = i
                        \/ list'[i].ttl > 0 /\ list'[i].ttl = list[place[i]].ttl - 1
                     /\ list' = Aged => list'[i].ttl > 0 /\ list'[i].ttl = list[place[i]].ttl - 1
<1> DEFINE K == {e \in ToSet(Older) : e.ttl > 0}
<1>1. Len(list) \in Nat /\ \A i \in 1 .. Len(list) : list[i] \in Formed(now)
  OBVIOUS
<1>2. CASE Len(list) <= 1 /\ list' = list /\ list' # Aged
  <2>1. LET id == [i \in 1 .. Len(list) |-> i] IN
        /\ id \in [1 .. Len(list) -> 1 .. Len(list)]
        /\ \A i \in 1 .. Len(list) : id[i] = i
    OBVIOUS
  <2> QED
    BY <1>2, <2>1 DEF Same
<1>3. CASE list' = Aged
  <2>1. \A p \in Formed(now) :
          LET q == [p EXCEPT !.ttl = @ - 1] IN
          /\ Same(q, p) /\ q.EchoMask = p.EchoMask /\ q.path = p.path /\ q.timeRF = p.timeRF
          /\ q.ttl = p.ttl - 1
          /\ q.ttl > 0 => q \in Formed(now)
    <3> SUFFICES ASSUME NEW p \in Formed(now), NEW q, q = [p EXCEPT !.ttl = @ - 1]
                 PROVE  /\ Same(q, p) /\ q.EchoMask = p.EchoMask /\ q.path = p.path
                        /\ q.timeRF = p.timeRF /\ q.ttl = p.ttl - 1
                        /\ q.ttl > 0 => q \in Formed(now)
      OBVIOUS
    <3>1. p \in Packets /\ p.ttl \in Nat
      BY DEF Formed, Packets
    <3>2. /\ Same(q, p) /\ q.EchoMask = p.EchoMask /\ q.path = p.path
          /\ q.timeRF = p.timeRF /\ q.ttl = p.ttl - 1
      BY <3>1 DEF Packets, Same
    <3>3. q.ttl > 0 => q \in Packets
      BY <3>1 DEF Packets
    <3> QED
      BY <3>2, <3>3 DEF Formed, Same
  <2>2. /\ Older \in Seq(ToSet(Older)) /\ Len(Older) = Len(list)
        /\ \A i \in 1 .. Len(list) : Older[i] = [list[i] EXCEPT !.ttl = @ - 1]
    <3>1. Older = [i \in 1 .. Len(list) |-> [list[i] EXCEPT !.ttl = @ - 1]]
      BY <1>1 DEF Older
    <3>2. Older \in [1 .. Len(list) -> ToSet(Older)]
      BY <3>1 DEF ToSet
    <3> HIDE DEF K
    <3>3. Older \in Seq(ToSet(Older)) /\ Len(Older) = Len(list)
      BY <1>1, <3>1, <3>2
    <3> QED
      BY <3>1, <3>3
  <2>3. list' = Keeping(Older, K)
    BY <1>3 DEF Aged
  <2> HIDE DEF K
  <2>4. /\ \A i \in 1 .. Len(list') : list'[i] \in K
        /\ \E place : Places(list', Older, place)
        /\ list' \in Seq(ToSet(Older))
    BY <2>2, <2>3, KeepingPlaces
  <2>5. PICK place : Places(list', Older, place)
    BY <2>4
  <2>6. /\ place \in [1 .. Len(list') -> 1 .. Len(list)]
        /\ \A i, j \in 1 .. Len(list') : i # j => place[i] # place[j]
    BY <2>2, <2>5 DEF Places
  <2>7. \A i \in 1 .. Len(list') :
          list'[i] = [list[place[i]] EXCEPT !.ttl = @ - 1] /\ list'[i].ttl > 0
    BY <2>2, <2>4, <2>5, <2>6 DEF Places, K
  <2>8. ASSUME NEW i \in 1 .. Len(list')
        PROVE  /\ list'[i] \in Formed(now)
               /\ Same(list'[i], list[place[i]])
               /\ list'[i].EchoMask = list[place[i]].EchoMask
               /\ list'[i].path = list[place[i]].path
               /\ list'[i].timeRF = list[place[i]].timeRF
               /\ list'[i].ttl > 0 /\ list'[i].ttl = list[place[i]].ttl - 1
    <3>1. PICK p \in Formed(now) : p = list[place[i]]
      BY <1>1, <2>6
    <3> QED
      BY <2>1, <2>7, <3>1
  <2>9. list' \in Seq(Formed(now))
    <3>1. Len(list') \in Nat /\ list' = [i \in 1 .. Len(list') |-> list'[i]]
      BY <2>4
    <3>2. list' \in [1 .. Len(list') -> Formed(now)]
      BY <2>8, <3>1
    <3> QED
      BY <3>1, <3>2
  <2> QED
    BY <2>6, <2>8, <2>9
<1> QED
  BY <1>2, <1>3

\* Copies that the radio was sent are gone when main has aged the list, whatever
\* the handlers are doing and whatever is in the queues.
LEMMA DeleteOldItemsHolds ==
    ASSUME RInv, DeleteOldItems
    PROVE  RInv'
<1>1. PacketsTyped /\ HandlersTyped /\ WorldTyped /\ Pacing
  BY DEF RInv, Typed
<1>2. UNCHANGED <<sendQueue, tncQueue, at, packet, posit, air, net, sent, now>>
  BY DEF DeleteOldItems, handlers, world
<1>3. (Len(list) <= 1 /\ list' = list) \/ list' = Aged
  BY DEF DeleteOldItems
<1>4. /\ now \in Nat /\ list \in Seq(Formed(now)) /\ Len(list) \in Nat
      /\ sendQueue \in Seq(Formed(now))
  BY <1>1 DEF PacketsTyped, QueueOK
<1>5. list' \in Seq(Formed(now))
  BY <1>3, <1>4, AgedPlaces
<1>6. PICK place :
        /\ place \in [1 .. Len(list') -> 1 .. Len(list)]
        /\ \A i, j \in 1 .. Len(list') : i # j => place[i] # place[j]
        /\ \A i \in 1 .. Len(list') :
             /\ Same(list'[i], list[place[i]])
             /\ list'[i].EchoMask = list[place[i]].EchoMask
             /\ list'[i].timeRF = list[place[i]].timeRF
             /\ \/ list' = list /\ Len(list) <= 1 /\ place[i] = i
                \/ list'[i].ttl > 0 /\ list'[i].ttl = list[place[i]].ttl - 1
  BY <1>3, <1>4, AgedPlaces
<1>7. \A x \in ToSet(list') : \E e \in ToSet(list) : Same(x, e)
  <2> SUFFICES ASSUME NEW i \in 1 .. Len(list') PROVE \E e \in ToSet(list) : Same(list'[i], e)
    BY <1>5, InQueue
  <2>1. place[i] \in 1 .. Len(list)
    BY <1>6
  <2>2. list[place[i]] \in ToSet(list)
    BY <1>4, <2>1, InQueue
  <2> QED
    BY <1>6, <2>2
<1>8. Numbered'
  <2>1. ASSUME NEW x \in Everywhere'
        PROVE  \E e \in Everywhere : Same(x, e)
    <3>1. CASE x \in ToSet(list')
      BY <1>7, <3>1 DEF Everywhere
    <3>2. CASE x \in Everywhere
      BY <3>2 DEF Same
    <3> QED
      BY <1>2, <3>1, <3>2 DEF Everywhere
  <2>2. /\ \A x \in Everywhere' : x.ID = 0 \/ x.ID = 0 \/ \E e \in Everywhere : Same(x, e)
        /\ \A x, y \in Everywhere' : x.ID = 0 /\ y.ID = 0 /\ 0 # 0 => x = y
    BY <2>1
  <2> QED
    BY <1>1, <2>2, StaysNumbered DEF Pacing
<1>9. Fresh'
  <2>1. sendQueue' = sendQueue /\ tncQueue' = tncQueue /\ posit' = posit /\ sent' = sent
    BY <1>2
  <2>2. \A x \in ToSet(list') : \E e \in ToSet(list) : e.ID = x.ID
    BY <1>7 DEF Same
  <2>3. Fresh
    BY <1>1 DEF Pacing
  <2> QED
    BY <2>1, <2>2, <2>3 DEF Fresh
<1>10. StampKnown'
  BY <1>1, <1>2 DEF Pacing, StampKnown
<1>11. Stamped'
  <2>1. sent' = sent /\ tncQueue' = tncQueue /\ now' = now
    BY <1>2
  <2> SUFFICES ASSUME NEW i \in 1 .. Len(list'), Original(list'[i])
               PROVE  /\ \A h \in Threads : sent[h][list'[i].ID] <= list'[i].timeRF
                      /\ \A j \in 1 .. Len(list') : list'[j].ID = list'[i].ID => j = i
                      /\ \A j \in 1 .. Len(tncQueue) : tncQueue[j].ID = list'[i].ID =>
                            list'[i].timeRF = now
    BY <2>1 DEF Stamped
  <2> DEFINE k == place[i]
  <2>2. k \in 1 .. Len(list) /\ Original(list[k]) /\ list'[i].ID = list[k].ID
        /\ list'[i].timeRF = list[k].timeRF
    BY <1>6 DEF Same, Original, Paced
  <2> HIDE DEF k
  <2>3. /\ \A h \in Threads : sent[h][list[k].ID] <= list[k].timeRF
        /\ \A j \in 1 .. Len(list) : j # k /\ list[j].ID = list[k].ID => list[j].ttl <= ttlTNC
        /\ \A j \in 1 .. Len(tncQueue) : tncQueue[j].ID = list[k].ID => list[k].timeRF = now
    BY <1>1, <2>2 DEF Pacing, Stamped
  <2>4. ASSUME NEW j \in 1 .. Len(list'), list'[j].ID = list'[i].ID, j # i
        PROVE  FALSE
    <3>1. place[j] \in 1 .. Len(list) /\ place[j] # k /\ list[place[j]].ID = list[k].ID
      BY <1>6, <2>2, <2>4 DEF Same, k
    <3>2. list[place[j]].ttl <= ttlTNC /\ list[place[j]] \in Packets
      BY <1>4, <2>3, <3>1 DEF Formed
    <3>3. list[place[j]].ttl \in Nat
      BY <3>2 DEF Packets
    <3>4. CASE Len(list) <= 1
      BY <1>4, <2>2, <3>1, <3>4
    <3>5. CASE list'[j].ttl > 0 /\ list'[j].ttl = list[place[j]].ttl - 1
      BY <3>2, <3>3, <3>5 DEF ttlTNC
    <3> QED
      BY <1>6, <3>4, <3>5
  <2> QED
    BY <2>2, <2>3, <2>4
<1> QED
  <2>1. PacketsTyped'
    BY <1>1, <1>2, <1>5 DEF PacketsTyped, QueueOK
  <2>2. HandlersTyped'
    BY <1>1, <1>2 DEF HandlersTyped
  <2>3. WorldTyped'
    BY <1>1, <1>2 DEF WorldTyped
  <2> QED
    BY <1>8, <1>9, <1>10, <1>11, <2>1, <2>2, <2>3 DEF RInv, Typed, Pacing

\* Five minutes later every handler holds nothing and nothing is queued.
LEMMA RoundHolds ==
    ASSUME RInv, Round
    PROVE  RInv'
<1>1. PacketsTyped /\ HandlersTyped /\ WorldTyped /\ Pacing
  BY DEF RInv, Typed
<1>2. /\ sendQueue = <<>> /\ tncQueue = <<>> /\ now' = now + 1 /\ aged /\ ~aged'
      /\ \A h \in Threads : at[h] = "idle"
      /\ UNCHANGED <<list, sendQueue, tncQueue, at, packet, posit, air, net, sent>>
  BY DEF Round, handlers, shared, world
<1>3. now \in Nat /\ now' \in Nat /\ list \in Seq(Formed(now))
  BY <1>1, <1>2 DEF PacketsTyped
<1>4. Formed(now) \subseteq Formed(now')
  <2>1. \A p \in Packets : p.timeRF \in Int
    BY DEF Packets, Never
  <2> QED
    BY <1>2, <1>3, <2>1 DEF Formed
<1>5. list' \in Seq(Formed(now'))
  BY <1>2, <1>3, <1>4, SeqMonotonic
<1>6. Everywhere' = Everywhere
  BY <1>2 DEF Everywhere
<1>7. Numbered'
  BY <1>1, <1>6 DEF Pacing, Numbered
<1>8. Fresh'
  BY <1>2 DEF Fresh
<1>9. \A h \in Threads : posit'[h] = Nothing
  BY <1>1, <1>2 DEF HandlersTyped
<1>10. StampKnown'
  BY <1>9 DEF StampKnown
<1>11. Stamped'
  <2>1. sent' = sent /\ Len(tncQueue') = 0 /\ list' = list
    BY <1>2
  <2> SUFFICES ASSUME NEW i \in 1 .. Len(list), Original(list[i])
               PROVE  /\ \A h \in Threads : sent[h][list[i].ID] <= list[i].timeRF
                      /\ \A j \in 1 .. Len(list) : j # i /\ list[j].ID = list[i].ID =>
                            /\ StampedLately(list[i], now', aged', posit')
                            /\ list[j].ttl <= ttlTNC
    BY <2>1 DEF Stamped
  <2>2. /\ \A h \in Threads : sent[h][list[i].ID] <= list[i].timeRF
        /\ \A j \in 1 .. Len(list) : j # i /\ list[j].ID = list[i].ID =>
              StampedLately(list[i], now, aged, posit) /\ list[j].ttl <= ttlTNC
    BY <1>1 DEF Pacing, Stamped
  <2>3. StampedLately(list[i], now, aged, posit) => StampedLately(list[i], now', aged', posit')
    BY <1>2, <1>3, <1>9 DEF StampedLately
  <2> QED
    BY <2>2, <2>3
<1> QED
  <2>1. PacketsTyped'
    BY <1>1, <1>2, <1>3, <1>5 DEF PacketsTyped, QueueOK
  <2>2. HandlersTyped'
    BY <1>1, <1>2, <1>4, <1>9 DEF HandlersTyped
  <2>3. WorldTyped'
    <3>1. 0 .. now \subseteq 0 .. now'
      BY <1>2, <1>3
    <3>2. sent' \in [Threads -> [Numbers -> {Never} \cup 0 .. now']]
      BY <1>1, <1>2, <3>1 DEF WorldTyped
    <3> QED
      BY <1>1, <1>2, <3>2 DEF WorldTyped
  <2> QED
    BY <1>7, <1>8, <1>10, <1>11, <2>1, <2>2, <2>3 DEF RInv, Typed, Pacing

\* RInv holds all the time.
LEMMA RInvInitially == Init => RInv
<1> SUFFICES ASSUME Init PROVE RInv
  OBVIOUS
<1> USE RoutingAssumption
<1>1. /\ list = <<>> /\ sendQueue = <<>> /\ tncQueue = <<>> /\ now = 0
      /\ at = [h \in Threads |-> "idle"] /\ packet = [h \in Threads |-> Nothing]
      /\ posit = [h \in Threads |-> Nothing]
      /\ air = {} /\ net = {}
      /\ sent = [h \in Threads |-> [n \in Numbers |-> Never]]
  BY DEF Init
<1>2. <<>> \in Seq(Formed(now)) /\ Len(<<>>) = 0 /\ ToSet(<<>>) = {}
  BY DEF ToSet
<1>3. PacketsTyped
  BY <1>1, <1>2 DEF PacketsTyped, QueueOK
<1>4. HandlersTyped
  BY <1>1 DEF HandlersTyped
<1>5. WorldTyped
  BY <1>1 DEF WorldTyped
<1>6. \A x \in Everywhere : x.ID = 0
  BY <1>1, <1>2 DEF Everywhere, Nothing
<1>7. Numbered
  BY <1>6 DEF Numbered
<1>8. Fresh /\ Stamped
  BY <1>1, <1>2 DEF Fresh, Stamped
<1>9. StampKnown
  BY <1>1 DEF StampKnown
<1> QED
  BY <1>3, <1>4, <1>5, <1>7, <1>8, <1>9 DEF RInv, Typed, Pacing

\* Nothing changes.
LEMMA StutterHolds ==
    ASSUME RInv, UNCHANGED vars
    PROVE  RInv'
<1>1. UNCHANGED <<list, sendQueue, tncQueue, at, packet, posit, air, net, sent, now, aged>>
  BY DEF vars, shared, handlers, world, clock
<1>2. PacketsTyped /\ HandlersTyped /\ WorldTyped /\ Pacing
  BY DEF RInv, Typed
<1>3. PacketsTyped'
  BY <1>1, <1>2 DEF PacketsTyped, QueueOK, Formed
<1>4. HandlersTyped'
  BY <1>1, <1>2 DEF HandlersTyped, Formed
<1>5. WorldTyped'
  BY <1>1, <1>2 DEF WorldTyped
<1>6. Everywhere' = Everywhere
  BY <1>1 DEF Everywhere
<1>7. Pacing'
  BY <1>1, <1>2, <1>6 DEF Pacing, Numbered, Fresh, Stamped, StampKnown
<1> QED
  BY <1>3, <1>4, <1>5, <1>7 DEF RInv, Typed

LEMMA HandlerHolds ==
    ASSUME RInv, NEW h \in Threads, Handler(h)
    PROVE  RInv'
  BY sendOnRFHolds, FindPositHolds, SendPositHolds, ToInternetHolds, AlwaysHolds DEF Handler

LEMMA RInvHolds == Spec => []RInv
<1>1. RInv /\ [Next]_vars => RInv'
  <2> SUFFICES ASSUME RInv, [Next]_vars PROVE RInv'
    OBVIOUS
  <2>1. /\ HeardOnRF \subseteq Raw /\ FromServers \subseteq Raw
        /\ FromUsers \subseteq Raw /\ FromUDP \subseteq Raw
    BY RoutingAssumption
  <2>2. net \subseteq Raw
    BY DEF RInv, Typed, WorldTyped
  <2>3. CASE \E h \in Igates, p \in FromServers \cup net : Receive(h, p)
    BY <2>1, <2>2, <2>3, ReceiveHolds DEF Threads
  <2>4. CASE \E h \in Sessions, p \in FromUsers : Receive(h, p)
    BY <2>1, <2>4, ReceiveHolds DEF Threads
  <2>5. CASE \E h \in Sessions, l \in Logons : Logon(h, l)
    BY <2>5, LogonHolds
  <2>6. CASE \E h \in Threads : Handler(h)
    BY <2>6, HandlerHolds
  <2>7. CASE \E p \in HeardOnRF : ReadCom(p, FALSE, FALSE)
    BY <2>1, <2>7, ReadComHolds
  <2>8. CASE \E p \in air : ReadCom(Digipeated(p), p.inet, p.reformatted)
    <3>1. PICK p \in air : ReadCom(Digipeated(p), p.inet, p.reformatted)
      BY <2>8
    <3>2. p \in [type : Types, to : Addressed, unreg : BOOLEAN, inet : BOOLEAN,
                 reformatted : BOOLEAN]
      BY <3>1 DEF RInv, Typed, WorldTyped
    <3>3. Digipeated(p) \in Raw /\ p.inet \in BOOLEAN /\ p.reformatted \in BOOLEAN
      BY <3>2 DEF Digipeated, Raw, Callers, Paths, Addressed
    <3> QED
      BY <3>1, <3>3, ReadComHolds
  <2>9. CASE \E p \in FromUDP : UDPServerThread(p)
    BY <2>1, <2>9, UDPHolds
  <2>10. CASE NetBeacon \/ TncBeacon \/ \E s \in posit_rfcall : schedule_posit2RF(s)
    BY <2>10, MainHolds
  <2>11. CASE DeQueue \/ dequeueTNC \/ DeleteOldItems \/ Round
    BY <2>11, DeQueueHolds, dequeueTNCHolds, DeleteOldItemsHolds, RoundHolds
  <2>12. CASE UNCHANGED vars
    BY <2>12, StutterHolds
  <2> QED
    BY <2>3, <2>4, <2>5, <2>6, <2>7, <2>8, <2>9, <2>10, <2>11, <2>12 DEF Next
<1> QED
  BY <1>1, RInvInitially, PTL DEF Spec

-------------------------------------------------------------------------------
(***************************************************************************)
(* What the list and sendQueue say of the past, for DestinationHeard: a    *)
(* packet from the TNC has been in sendQueue for no longer than this round, *)
(* and in the list for as many rounds as its ttl has gone down, or else it *)
(* was alone there when main aged the list.                                *)
(***************************************************************************)
Direct(p) == "srcTNC" \in p.EchoMask /\ p.path # "far"

ClockTyped ==
    /\ aged \in BOOLEAN
    /\ heard \in [Callers -> {Never} \cup 0 .. now]
    /\ spared \in [Callers -> {Never} \cup 0 .. now]

QueueHeard ==
    \A p \in ToSet(sendQueue) : Direct(p) => p.src \in Callers /\ heard[p.src] = now

InTime(e) ==
    /\ e.src \in Callers /\ e.ttl \in 1 .. ttlDefault /\ heard[e.src] # Never
    /\ \/ now - heard[e.src] + e.ttl <= IF aged THEN ttlDefault ELSE ttlDefault + 1
       \/ now - spared[e.src] + e.ttl <= IF aged THEN ttlDefault ELSE ttlDefault + 1
ListHeard == \A e \in ToSet(list) : Direct(e) => InTime(e)

Addressee(p) ==
    p.to \in stsmDest_rfcall \/ (p.to \in Callers /\ Recently(p.to))
SourceHeard == \A h \in Threads : at[h] = "source" => Addressee(packet[h])

HInv == ClockTyped /\ QueueHeard /\ ListHeard /\ SourceHeard

LEMMA HeardLocal ==
    ASSUME RInv, HInv, NEW s, StationLocal(s)
    PROVE  s \in Callers /\ Recently(s)
<1>1. PICK e \in ToSet(list) : e.src = s /\ Direct(e)
  BY DEF StationLocal, Direct
<1>2. InTime(e)
  BY <1>1 DEF HInv, ListHeard
<1>3. /\ heard[s] \in 0 .. now /\ spared[s] \in {Never} \cup 0 .. now
      /\ now \in Nat /\ s \in Callers
  BY <1>1, <1>2 DEF InTime, HInv, ClockTyped, RInv, Typed, PacketsTyped
<1> QED
  BY <1>1, <1>2, <1>3, RoutingAssumption DEF InTime, Recently, Never

\* What a step leaves of this that neither hears a station nor moves the clock.
LEMMA QuietKeeps ==
    ASSUME HInv, UNCHANGED <<heard, now, aged, spared>>,
           \A e \in ToSet(list') : Direct(e) => InTime(e),
           \A p \in ToSet(sendQueue') : p \in ToSet(sendQueue) \/ "srcTNC" \notin p.EchoMask,
           \A h \in Threads : at'[h] = "source" => Addressee(packet'[h])
    PROVE  HInv'
<1>1. ClockTyped'
  BY DEF HInv, ClockTyped
<1>2. QueueHeard'
  BY DEF HInv, QueueHeard, Direct
<1>3. ListHeard'
  BY DEF ListHeard, InTime
<1>4. SourceHeard'
  BY DEF SourceHeard, Addressee, Recently
<1> QED
  BY <1>1, <1>2, <1>3, <1>4 DEF HInv

\* A handler goes on, but not to ask for the originator.
LEMMA MovedOn ==
    ASSUME RInv, HInv, NEW h \in Threads, NEW w, w # "source", at' = [at EXCEPT ![h] = w],
           packet' = packet \/ packet' = [packet EXCEPT ![h] = Nothing],
           NEW g \in Threads, at'[g] = "source"
    PROVE  Addressee(packet'[g])
<1>1. g # h /\ at[g] = "source" /\ packet'[g] = packet[g]
  BY DEF RInv, Typed, HandlersTyped
<1> QED
  BY <1>1 DEF HInv, SourceHeard

LEMMA ReceiveHeard ==
    ASSUME IInv, RInv, HInv, NEW h \in Threads, NEW p, Receive(h, p)
    PROVE  HInv'
<1> DEFINE gate == /\ p.type = "msg" /\ p.path # "TCPXX*" /\ MayUseRF(h)
                   /\ p.src \notin rfcall /\ deny[p.src] = "+"
                   /\ StationLocal(p.to) \/ p.to \in stsmDest_rfcall
           reply == Own("msg", p.src, {"srcSYSTEM"})
<1>1. /\ at' = [at EXCEPT ![h] = IF gate THEN "source" ELSE "inet"]
      /\ packet' = [packet EXCEPT ![h] = Marked(h, p)]
      /\ sendQueue' \in Answers(h, p) /\ list' = list
      /\ UNCHANGED <<heard, now, aged, spared>>
  BY DEF Receive, world, clock
<1>2. "srcTNC" \notin reply.EchoMask
  BY OwnPacket
<1>3. sendQueue \in Seq(ToSet(sendQueue)) /\ sendQueue' \in {sendQueue} \cup queryResp(p, reply, sendQueue)
  BY <1>1 DEF Answers, IInv, QueuesOK
<1> HIDE DEF reply
<1>4. /\ Put(sendQueue, reply) \in Seq(ToSet(Put(sendQueue, reply)))
      /\ ToSet(Put(sendQueue, reply)) \subseteq ToSet(sendQueue) \cup {reply}
  BY <1>3, PutAdds
<1>5. ToSet(Put(Put(sendQueue, reply), reply)) \subseteq ToSet(Put(sendQueue, reply)) \cup {reply}
  BY <1>4, PutAdds
<1>6. \A x \in ToSet(sendQueue') : x \in ToSet(sendQueue) \/ "srcTNC" \notin x.EchoMask
  BY <1>2, <1>3, <1>4, <1>5 DEF queryResp
<1>7. gate => Addressee(Marked(h, p))
  <2>1. Marked(h, p).to = p.to \/ Marked(h, p) = p
    <3>1. gate => Marked(h, p) = p
      BY DEF MayUseRF, Marked, Verified
    <3> QED
      BY <3>1 DEF Marked
  <2> QED
    BY <2>1, HeardLocal DEF Addressee
<1> HIDE DEF gate
<1>8. ASSUME NEW g \in Threads, at'[g] = "source" PROVE Addressee(packet'[g])
  BY <1>1, <1>7, <1>8 DEF HInv, SourceHeard, RInv, Typed, HandlersTyped
<1>9. \A e \in ToSet(list') : Direct(e) => InTime(e)
  BY <1>1 DEF HInv, ListHeard
<1> QED
  BY <1>1, <1>6, <1>8, <1>9, QuietKeeps

LEMMA HandlerHeard ==
    ASSUME IInv, RInv, HInv, NEW h \in Threads, Handler(h)
    PROVE  HInv'
<1>1. UNCHANGED <<heard, now, aged, spared>>
  BY DEF Handler, sendOnRF, FindPosit, SendPosit, ToInternet, Always, world, clock
<1>2. ASSUME NEW g \in Threads, at'[g] = "source" PROVE Addressee(packet'[g])
  <2>1. \E w \in {"inet", "posit", "stamp", "always", "idle"} : at' = [at EXCEPT ![h] = w]
    BY DEF Handler, sendOnRF, FindPosit, SendPosit, ToInternet, Always
  <2>2. packet' = packet \/ packet' = [packet EXCEPT ![h] = Nothing]
    BY DEF Handler, sendOnRF, FindPosit, SendPosit, ToInternet, Always
  <2> QED
    BY <1>2, <2>1, <2>2, MovedOn
<1>3. \A x \in ToSet(sendQueue') : x \in ToSet(sendQueue) \/ "srcTNC" \notin x.EchoMask
  <2>1. CASE sendQueue' = sendQueue
    BY <2>1
  <2>2. CASE ToInternet(h)
    <3> DEFINE p == packet[h]
               queue == inetpacket(h, p)
    <3>1. sendQueue' \in {queue, ThirdParty(p, queue)}
      BY <2>2 DEF ToInternet
    <3>2. h \in Sessions /\ user[h].verified => ~p.unreg
      BY <2>2 DEF ToInternet, IInv, HandlersOK
    <3> HIDE DEF p
    <3>3. /\ queue \in Seq(ToSet(queue)) /\ \A x \in ToSet(queue) : ForInternet(x)
          /\ \A x \in ToSet(queue) : x \in ToSet(sendQueue) \/ "srcTNC" \notin x.EchoMask
      BY <3>2, InetPacketTaken
    <3> HIDE DEF queue
    <3>4. \A x \in ToSet(ThirdParty(p, queue)) : x \in ToSet(queue) \/ "srcTNC" \notin x.EchoMask
      BY <3>3, ThirdPartyTakes DEF IInv
    <3> QED
      BY <3>1, <3>3, <3>4
  <2> QED
    BY <2>1, <2>2 DEF Handler, sendOnRF, FindPosit, SendPosit, Always, shared
<1>4. \A e \in ToSet(list') : Direct(e) => InTime(e)
  <2>1. CASE list' = list
    BY <2>1 DEF HInv, ListHeard
  <2>2. CASE list' = timestamp(posit[h].ID)
    <3>1. now \in Nat /\ list \in Seq(Formed(now))
      BY DEF RInv, Typed, PacketsTyped
    <3>2. /\ list' \in Seq(Formed(now)) /\ Len(list') = Len(list)
          /\ \A i \in 1 .. Len(list) :
               /\ Same(list'[i], list[i]) /\ list'[i].EchoMask = list[i].EchoMask
               /\ list'[i].path = list[i].path /\ list'[i].ttl = list[i].ttl
      BY <2>2, <3>1, Timestamped
    <3> SUFFICES ASSUME NEW i \in 1 .. Len(list), Direct(list'[i]) PROVE InTime(list'[i])
      BY <3>2, InQueue
    <3>3. list[i] \in ToSet(list)
      BY <3>1, InQueue
    <3>4. Direct(list[i])
      BY <3>2 DEF Direct
    <3>5. InTime(list[i])
      BY <3>3, <3>4 DEF HInv, ListHeard
    <3> QED
      BY <3>2, <3>5 DEF InTime, Same
  <2> QED
    BY <2>1, <2>2 DEF Handler, sendOnRF, FindPosit, SendPosit, ToInternet, Always, shared
<1> QED
  BY <1>1, <1>2, <1>3, <1>4, QuietKeeps

\* A station that is heard was heard just now.
LEMMA ReadComHeard ==
    ASSUME IInv, RInv, HInv, NEW raw \in Raw, NEW inet, NEW again, ReadCom(raw, inet, again)
    PROVE  HInv'
<1> DEFINE a == aprsString(raw, {"srcTNC"}, inet)
           p == [a EXCEPT !.reformatted = again]
<1>1. /\ \/ sendQueue' = sendQueue
         \/ sendQueue' = reformatAndSendMicE(p, sendQueue)
         \/ sendQueue' = Put(ThirdParty(p, sendQueue), p)
      /\ heard' = IF raw.path = "far" THEN heard ELSE [heard EXCEPT ![raw.src] = now]
      /\ UNCHANGED <<list, at, packet, now, aged, spared>>
  BY DEF ReadCom, handlers, clock
<1>2. p = copy(p) /\ p.src = raw.src /\ p.path = raw.path
  <2>1. a = copy(a) /\ a.src = raw.src /\ a.path = raw.path
    BY DEF aprsString, copy
  <2> HIDE DEF a
  <2>2. LET q == [copy(a) EXCEPT !.reformatted = again] IN
        q = copy(q) /\ q.src = copy(a).src /\ q.path = copy(a).path
    BY DEF copy
  <2> QED
    BY <2>1, <2>2 DEF copy
<1> HIDE DEF a, p
<1>3. \A x \in ToSet(sendQueue') :
         \/ x \in ToSet(sendQueue) \/ "srcTNC" \notin x.EchoMask
         \/ x.src = raw.src /\ x.path = raw.path
  <2>1. sendQueue \in Seq(ToSet(sendQueue)) /\ \A x \in ToSet(sendQueue) : ForInternet(x)
    BY DEF IInv, QueuesOK
  <2>2. ToSet(reformatAndSendMicE(p, sendQueue)) \subseteq
           ToSet(sendQueue) \cup {mic_e_Reformat(p, "posit"), mic_e_Reformat(p, "telemetry")}
    BY <2>1, DecodedAdded
  <2>3. /\ mic_e_Reformat(p, "posit").src = raw.src
        /\ mic_e_Reformat(p, "posit").path = raw.path
        /\ mic_e_Reformat(p, "telemetry").src = raw.src
        /\ mic_e_Reformat(p, "telemetry").path = raw.path
    BY <1>2, Decoded
  <2>4. /\ ThirdParty(p, sendQueue) \in Seq(ToSet(ThirdParty(p, sendQueue)))
        /\ \A x \in ToSet(ThirdParty(p, sendQueue)) :
              x \in ToSet(sendQueue) \/ "srcTNC" \notin x.EchoMask
    BY <2>1, ThirdPartyTakes DEF IInv
  <2>5. ToSet(Put(ThirdParty(p, sendQueue), p)) \subseteq ToSet(ThirdParty(p, sendQueue)) \cup {p}
    BY <2>4, PutAdds
  <2> QED
    BY <1>1, <1>2, <2>2, <2>3, <2>4, <2>5
<1>4. /\ raw.src \in Callers /\ now \in Nat
      /\ heard \in [Callers -> {Never} \cup 0 .. now]
      /\ spared \in [Callers -> {Never} \cup 0 .. now]
  BY DEF Raw, RInv, Typed, PacketsTyped, HInv, ClockTyped
<1>5. \A s \in Callers : heard'[s] = heard[s] \/ heard'[s] = now
  BY <1>1, <1>4
<1>6. ClockTyped'
  BY <1>1, <1>4 DEF HInv, ClockTyped
<1>7. QueueHeard'
  <2> SUFFICES ASSUME NEW x \in ToSet(sendQueue'), Direct(x)
               PROVE  x.src \in Callers /\ heard'[x.src] = now
    BY <1>1 DEF QueueHeard
  <2>1. CASE x \in ToSet(sendQueue)
    BY <1>5, <2>1 DEF HInv, QueueHeard
  <2>2. CASE x.src = raw.src /\ x.path = raw.path
    BY <1>1, <1>4, <2>2 DEF Direct
  <2> QED
    BY <1>3, <2>1, <2>2 DEF Direct
<1>8. ListHeard'
  <2> SUFFICES ASSUME NEW e \in ToSet(list), Direct(e)
               PROVE  /\ e.src \in Callers /\ e.ttl \in 1 .. ttlDefault /\ heard'[e.src] # Never
                      /\ \/ now - heard'[e.src] + e.ttl <= IF aged THEN ttlDefault ELSE ttlDefault + 1
                         \/ now - spared[e.src] + e.ttl <= IF aged THEN ttlDefault ELSE ttlDefault + 1
    BY <1>1 DEF ListHeard, InTime
  <2>1. InTime(e)
    BY DEF HInv, ListHeard
  <2>2. CASE heard'[e.src] = heard[e.src]
    BY <2>1, <2>2 DEF InTime
  <2>3. CASE heard'[e.src] = now
    BY <1>4, <2>1, <2>3, RoutingAssumption DEF InTime, Never
  <2> QED
    BY <1>5, <2>1, <2>2, <2>3 DEF InTime
<1>9. SourceHeard'
  <2> SUFFICES ASSUME NEW s \in Callers, Recently(s)
               PROVE  /\ heard'[s] # Never
                      /\ now - heard'[s] <= ttlDefault \/ now - spared[s] <= ttlDefault
    BY <1>1 DEF HInv, SourceHeard, Addressee, Recently
  <2>1. CASE heard'[s] = heard[s]
    BY <2>1 DEF Recently
  <2>2. CASE heard'[s] = now
    BY <1>4, <2>2, RoutingAssumption DEF Never
  <2> QED
    BY <1>5, <2>1, <2>2
<1> QED
  BY <1>6, <1>7, <1>8, <1>9 DEF HInv

\* The others add nothing of the TNC's and store nothing.
LEMMA OthersHeard ==
    ASSUME IInv, RInv, HInv,
           \/ \E h \in Sessions, l \in Logons : Logon(h, l)
           \/ \E p \in FromUDP : UDPServerThread(p)
           \/ NetBeacon \/ TncBeacon \/ \E s \in posit_rfcall : schedule_posit2RF(s)
    PROVE  HInv'
<1>1. UNCHANGED <<list, at, packet, heard, now, aged, spared>>
  BY DEF Logon, UDPServerThread, NetBeacon, TncBeacon, schedule_posit2RF, shared, handlers,
         world, clock
<1>2. \/ sendQueue' = sendQueue
      \/ \E p : sendQueue' = Put(sendQueue, aprsString(p, {"srcUDP"}, FALSE))
      \/ sendQueue' = Put(sendQueue, Own("status", None, {"srcSYSTEM"}))
  BY DEF Logon, UDPServerThread, NetBeacon, TncBeacon, schedule_posit2RF, shared
<1>3. \A x \in ToSet(sendQueue') : x \in ToSet(sendQueue) \/ "srcTNC" \notin x.EchoMask
  <2>1. sendQueue \in Seq(ToSet(sendQueue))
    BY DEF IInv, QueuesOK
  <2>2. \A p : "srcTNC" \notin aprsString(p, {"srcUDP"}, FALSE).EchoMask
    BY DEF aprsString
  <2>3. "srcTNC" \notin Own("status", None, {"srcSYSTEM"}).EchoMask
    BY OwnPacket
  <2>4. ASSUME NEW p, "srcTNC" \notin p.EchoMask, sendQueue' = Put(sendQueue, p)
        PROVE  \A x \in ToSet(sendQueue') : x \in ToSet(sendQueue) \/ "srcTNC" \notin x.EchoMask
    <3>1. ToSet(Put(sendQueue, p)) \subseteq ToSet(sendQueue) \cup {p}
      BY <2>1, PutAdds
    <3> QED
      BY <2>4, <3>1
  <2>5. CASE \E p : sendQueue' = Put(sendQueue, aprsString(p, {"srcUDP"}, FALSE))
    BY <2>2, <2>4, <2>5
  <2>6. CASE sendQueue' = Put(sendQueue, Own("status", None, {"srcSYSTEM"}))
    BY <2>3, <2>4, <2>6
  <2> QED
    BY <1>2, <2>5, <2>6
<1>4. \A e \in ToSet(list') : Direct(e) => InTime(e)
  BY <1>1 DEF HInv, ListHeard
<1>5. \A h \in Threads : at'[h] = "source" => Addressee(packet'[h])
  BY <1>1 DEF HInv, SourceHeard
<1> QED
  BY <1>1, <1>3, <1>4, <1>5, QuietKeeps

\* A packet from the TNC is put into the list in the round it was heard in.
LEMMA DeQueueHeard ==
    ASSUME IInv, RInv, HInv, DeQueue
    PROVE  HInv'
<1> DEFINE head == Head(sendQueue)
           abuff == [head EXCEPT !.dest = "INET", !.ttl = ttlDefault]
<1>1. /\ sendQueue # <<>> /\ sendQueue' = Tail(sendQueue)
      /\ list' = list \/ list' = Added(abuff)
      /\ UNCHANGED <<at, packet, heard, now, aged, spared>>
  BY DEF DeQueue, handlers, clock
<1>2. now \in Nat /\ list \in Seq(Formed(now)) /\ QueueOK(sendQueue)
  BY DEF RInv, Typed, PacketsTyped
<1>3. /\ head \in Formed(now) /\ head \in ToSet(sendQueue)
      /\ ToSet(sendQueue') \subseteq ToSet(sendQueue)
  BY <1>1, <1>2, TailPlaces
<1> HIDE DEF head
<1>4. /\ abuff \in Formed(now) /\ abuff.EchoMask = head.EchoMask /\ abuff.path = head.path
      /\ abuff.src = head.src /\ abuff.ttl = ttlDefault
  BY <1>3, RoutingAssumption DEF Formed, Packets
<1> HIDE DEF abuff
<1>5. ToSet(list') \subseteq ToSet(list) \cup {abuff}
  BY <1>1, <1>2, <1>4, AddedElements
<1>6. Direct(abuff) => InTime(abuff)
  <2> SUFFICES ASSUME Direct(abuff) PROVE InTime(abuff)
    OBVIOUS
  <2>1. abuff.src \in Callers /\ heard[abuff.src] = now
    BY <1>3, <1>4 DEF HInv, QueueHeard, Direct
  <2> QED
    BY <1>2, <1>4, <2>1, RoutingAssumption DEF InTime, Never
<1>7. \A e \in ToSet(list') : Direct(e) => InTime(e)
  BY <1>5, <1>6 DEF HInv, ListHeard
<1>8. \A h \in Threads : at'[h] = "source" => Addressee(packet'[h])
  BY <1>1 DEF HInv, SourceHeard
<1>9. \A x \in ToSet(sendQueue') : x \in ToSet(sendQueue) \/ "srcTNC" \notin x.EchoMask
  BY <1>3
<1> QED
  BY <1>1, <1>7, <1>8, <1>9, QuietKeeps

LEMMA dequeueTNCHeard ==
    ASSUME IInv, RInv, HInv, dequeueTNC
    PROVE  HInv'
<1> DEFINE head == Head(tncQueue)
           abuff == [head EXCEPT !.dest = "TNC", !.ttl = ttlTNC, !.EchoMask = {}]
<1>1. /\ list' = list \/ list' = Added(abuff)
      /\ UNCHANGED <<sendQueue, at, packet, heard, now, aged, spared>>
  BY DEF dequeueTNC, handlers, clock
<1>2. now \in Nat /\ list \in Seq(Formed(now)) /\ QueueOK(tncQueue)
  BY DEF RInv, Typed, PacketsTyped
<1>3. tncQueue # <<>>
  BY DEF dequeueTNC
<1>4. head \in Formed(now)
  BY <1>2, <1>3, TailPlaces
<1> HIDE DEF head
<1>5. abuff \in Formed(now) /\ abuff.EchoMask = {}
  BY <1>4 DEF Formed, Packets, ttlTNC
<1> HIDE DEF abuff
<1>6. list' = list \/ list' = Added(abuff)
  BY <1>1
<1>7. ToSet(list') \subseteq ToSet(list) \cup {abuff}
  BY <1>2, <1>5, <1>6, AddedElements
<1>8. \A e \in ToSet(list') : Direct(e) => InTime(e)
  BY <1>5, <1>7 DEF HInv, ListHeard, Direct
<1>9. \A h \in Threads : at'[h] = "source" => Addressee(packet'[h])
  BY <1>1 DEF HInv, SourceHeard
<1> QED
  BY <1>1, <1>8, <1>9, QuietKeeps

\* Ageing takes one of the rounds an entry has left, unless it is alone; whoever
\* has looked at the list before has still looked in this round.
LEMMA DeleteOldItemsHeard ==
    ASSUME RInv, HInv, DeleteOldItems
    PROVE  HInv'
<1> DEFINE Alone == [s \in Callers |->
                       IF \E e \in ToSet(list) : e.src = s THEN now ELSE spared[s]]
<1>1. /\ ~aged /\ aged' = TRUE
      /\ \/ list' = list /\ spared' = Alone
         \/ list' = Aged /\ spared' = spared
      /\ UNCHANGED <<sendQueue, at, packet, heard, now>>
  BY DEF DeleteOldItems, handlers, world
<1>2. /\ now \in Nat /\ list \in Seq(Formed(now))
      /\ heard \in [Callers -> {Never} \cup 0 .. now]
      /\ spared \in [Callers -> {Never} \cup 0 .. now]
  BY DEF RInv, Typed, PacketsTyped, HInv, ClockTyped
<1>3. /\ spared' \in [Callers -> {Never} \cup 0 .. now]
      /\ \A s \in Callers : spared'[s] = spared[s] \/ spared'[s] = now
  BY <1>1, <1>2
<1>4. ClockTyped'
  BY <1>1, <1>2, <1>3 DEF ClockTyped
<1>5. QueueHeard'
  BY <1>1 DEF HInv, QueueHeard
<1>6. ListHeard'
  <2>1. CASE list' = list /\ spared' = Alone
    <3> SUFFICES ASSUME NEW e \in ToSet(list), Direct(e)
                 PROVE  /\ e.src \in Callers /\ e.ttl \in 1 .. ttlDefault
                        /\ heard[e.src] # Never /\ now - spared'[e.src] + e.ttl <= ttlDefault
      BY <1>1, <2>1 DEF ListHeard, InTime
    <3>1. InTime(e)
      BY DEF HInv, ListHeard
    <3>2. spared'[e.src] = now
      BY <2>1, <3>1 DEF InTime
    <3> QED
      BY <1>2, <3>1, <3>2, RoutingAssumption DEF InTime
  <2>2. CASE list' = Aged /\ spared' = spared
    <3>1. list' \in Seq(Formed(now))
      BY <1>2, <2>2, AgedPlaces
    <3>2. PICK place :
            /\ place \in [1 .. Len(list') -> 1 .. Len(list)]
            /\ \A i \in 1 .. Len(list') :
                 /\ Same(list'[i], list[place[i]])
                 /\ list'[i].EchoMask = list[place[i]].EchoMask
                 /\ list'[i].path = list[place[i]].path
                 /\ list'[i].ttl > 0 /\ list'[i].ttl = list[place[i]].ttl - 1
      <4>1. (Len(list) <= 1 /\ list' = list) \/ list' = Aged
        BY <2>2
      <4>2. PICK place :
              /\ place \in [1 .. Len(list') -> 1 .. Len(list)]
              /\ \A i \in 1 .. Len(list') :
                   /\ Same(list'[i], list[place[i]])
                   /\ list'[i].EchoMask = list[place[i]].EchoMask
                   /\ list'[i].path = list[place[i]].path
                   /\ list' = Aged =>
                        list'[i].ttl > 0 /\ list'[i].ttl = list[place[i]].ttl - 1
        BY <1>2, <4>1, AgedPlaces
      <4> QED
        BY <2>2, <4>2
    <3> SUFFICES ASSUME NEW e \in ToSet(list'), Direct(e)
                 PROVE  /\ e.src \in Callers /\ e.ttl \in 1 .. ttlDefault
                        /\ heard[e.src] # Never
                        /\ \/ now - heard[e.src] + e.ttl <= ttlDefault
                           \/ now - spared[e.src] + e.ttl <= ttlDefault
      BY <1>1, <2>2 DEF ListHeard, InTime
    <3>3. PICK i \in 1 .. Len(list') : e = list'[i]
      BY <3>1, InQueue
    <3>4. PICK old \in ToSet(list) : old = list[place[i]]
      BY <1>2, <3>2, InQueue
    <3>5. /\ Direct(old) /\ e.src = old.src /\ e.ttl > 0 /\ e.ttl = old.ttl - 1
      BY <3>2, <3>3, <3>4 DEF Direct, Same
    <3>6. InTime(old)
      BY <3>4, <3>5 DEF HInv, ListHeard
    <3>7. /\ heard[e.src] \in Int /\ spared[e.src] \in Int
          /\ now \in Int /\ ttlDefault \in Int
      BY <1>2, <3>5, <3>6, RoutingAssumption DEF InTime, Never
    <3>8. /\ old.src \in Callers /\ heard[old.src] # Never /\ old.ttl \in 1 .. ttlDefault
          /\ \/ now - heard[old.src] + old.ttl <= ttlDefault + 1
             \/ now - spared[old.src] + old.ttl <= ttlDefault + 1
      BY <1>1, <3>6 DEF InTime
    <3>9. e.src = old.src /\ e.ttl > 0 /\ e.ttl = old.ttl - 1 /\ old.ttl \in Int
      BY <3>5, <3>8
    <3>10. e.ttl \in 1 .. ttlDefault
      BY <3>7, <3>8, <3>9
    <3>11. ASSUME NEW r \in Int, now - r + old.ttl <= ttlDefault + 1
           PROVE  now - r + e.ttl <= ttlDefault
      BY <3>7, <3>9, <3>11
    <3>12. \/ now - heard[e.src] + e.ttl <= ttlDefault
           \/ now - spared[e.src] + e.ttl <= ttlDefault
      <4>1. \/ now - heard[e.src] + old.ttl <= ttlDefault + 1
            \/ now - spared[e.src] + old.ttl <= ttlDefault + 1
        BY <3>8, <3>9
      <4> QED
        BY <3>7, <3>11, <4>1
    <3> QED
      BY <3>8, <3>9, <3>10, <3>12
  <2> QED
    BY <1>1, <2>1, <2>2
<1>7. SourceHeard'
  <2> SUFFICES ASSUME NEW s \in Callers, Recently(s)
               PROVE  now - heard[s] <= ttlDefault \/ now - spared'[s] <= ttlDefault
    BY <1>1 DEF HInv, SourceHeard, Addressee, Recently
  <2>1. CASE spared'[s] = spared[s]
    BY <2>1 DEF Recently
  <2>2. CASE spared'[s] = now
    BY <1>2, <2>2, RoutingAssumption
  <2> QED
    BY <1>3, <2>1, <2>2
<1> QED
  BY <1>4, <1>5, <1>6, <1>7 DEF HInv

\* A round later a station has been heard a round longer ago, and the list is to be
\* aged again.
LEMMA RoundHeard ==
    ASSUME RInv, HInv, Round
    PROVE  HInv'
<1>1. /\ sendQueue' = <<>> /\ now' = now + 1 /\ aged /\ aged' = FALSE
      /\ \A h \in Threads : at[h] = "idle"
      /\ UNCHANGED <<list, at, packet, heard, spared>>
  BY DEF Round, handlers, shared, world
<1>2. /\ now \in Nat
      /\ heard \in [Callers -> {Never} \cup 0 .. now]
      /\ spared \in [Callers -> {Never} \cup 0 .. now]
  BY DEF RInv, Typed, PacketsTyped, HInv, ClockTyped
<1>3. 0 .. now \subseteq 0 .. now'
  BY <1>1, <1>2
<1>4. ClockTyped'
  BY <1>1, <1>2, <1>3 DEF ClockTyped
<1>5. QueueHeard'
  BY <1>1 DEF QueueHeard, ToSet
<1>6. ListHeard'
  <2> SUFFICES ASSUME NEW e \in ToSet(list), Direct(e)
               PROVE  /\ e.src \in Callers /\ e.ttl \in 1 .. ttlDefault /\ heard[e.src] # Never
                      /\ \/ now' - heard[e.src] + e.ttl <= ttlDefault + 1
                         \/ now' - spared[e.src] + e.ttl <= ttlDefault + 1
    <3>1. UNCHANGED <<list, heard, spared>> /\ ~aged'
      BY <1>1
    <3> QED
      BY <3>1 DEF ListHeard, InTime
  <2>1. InTime(e)
    BY DEF HInv, ListHeard
  <2>2. heard[e.src] \in Int /\ spared[e.src] \in Int /\ ttlDefault \in Int
    BY <1>2, <2>1, RoutingAssumption DEF InTime, Never
  <2>3. \/ now - heard[e.src] + e.ttl <= ttlDefault
        \/ now - spared[e.src] + e.ttl <= ttlDefault
    BY <1>1, <2>1 DEF InTime
  <2>4. /\ e.src \in Callers /\ e.ttl \in 1 .. ttlDefault /\ heard[e.src] # Never
    BY <2>1 DEF InTime
  <2>5. now' = now + 1
    BY <1>1
  <2> QED
    BY <1>2, <2>2, <2>3, <2>4, <2>5
<1>7. SourceHeard'
  BY <1>1 DEF SourceHeard
<1> QED
  BY <1>4, <1>5, <1>6, <1>7 DEF HInv

LEMMA HInvInitially == Init => HInv
<1> SUFFICES ASSUME Init PROVE HInv
  OBVIOUS
<1>1. /\ list = <<>> /\ sendQueue = <<>> /\ now = 0 /\ aged = FALSE
      /\ at = [h \in Threads |-> "idle"] /\ heard = [s \in Callers |-> Never]
      /\ spared = [s \in Callers |-> Never]
  BY DEF Init
<1>2. ToSet(<<>>) = {}
  BY DEF ToSet
<1>3. ClockTyped
  BY <1>1 DEF ClockTyped
<1>4. QueueHeard /\ ListHeard /\ SourceHeard
  BY <1>1, <1>2 DEF QueueHeard, ListHeard, SourceHeard
<1> QED
  BY <1>3, <1>4 DEF HInv

LEMMA HInvHolds == Spec => []HInv
<1>1. IInv /\ RInv /\ HInv /\ [Next]_vars => HInv'
  <2> SUFFICES ASSUME IInv, RInv, HInv, [Next]_vars PROVE HInv'
    OBVIOUS
  <2>1. CASE \E h \in Threads : \E p : Receive(h, p)
    BY <2>1, ReceiveHeard
  <2>2. CASE \E h \in Threads : Handler(h)
    BY <2>2, HandlerHeard
  <2>3. CASE \E p \in HeardOnRF : ReadCom(p, FALSE, FALSE)
    BY <2>3, ReadComHeard, RoutingAssumption
  <2>4. CASE \E p \in air : ReadCom(Digipeated(p), p.inet, p.reformatted)
    <3>1. PICK p \in air : ReadCom(Digipeated(p), p.inet, p.reformatted)
      BY <2>4
    <3>2. p \in [type : Types, to : Addressed, unreg : BOOLEAN, inet : BOOLEAN,
                 reformatted : BOOLEAN]
      BY <3>1 DEF RInv, Typed, WorldTyped
    <3>3. Digipeated(p) \in Raw
      BY <3>2 DEF Digipeated, Raw, Callers, Paths, Addressed
    <3> QED
      BY <3>1, <3>3, ReadComHeard
  <2>5. CASE \/ \E h \in Sessions, l \in Logons : Logon(h, l)
             \/ \E p \in FromUDP : UDPServerThread(p)
             \/ NetBeacon \/ TncBeacon \/ \E s \in posit_rfcall : schedule_posit2RF(s)
    BY <2>5, OthersHeard
  <2>6. CASE DeQueue \/ dequeueTNC \/ DeleteOldItems \/ Round
    BY <2>6, DeQueueHeard, dequeueTNCHeard, DeleteOldItemsHeard, RoundHeard
  <2>7. CASE UNCHANGED vars
    <3>1. UNCHANGED <<list, sendQueue, at, packet, heard, now, aged, spared>>
      BY <2>7 DEF vars, shared, handlers, world, clock
    <3> QED
      BY <3>1 DEF HInv, ClockTyped, QueueHeard, ListHeard, InTime, SourceHeard, Addressee, Recently
  <2>8. CASE Next
    BY <2>1, <2>2, <2>3, <2>4, <2>5, <2>6, <2>8 DEF Next, Threads
  <2> QED
    BY <2>7, <2>8
<1> QED
  BY <1>1, HInvInitially, IInvHolds, RInvHolds, PTL DEF Spec

\* Every packet in the list, the queues and the handlers' hands is one the code
\* can make, no queue holds more than its size, and a handler holds a packet while
\* it works on it and a posit until it has sent it (aprsd.cpp 1553-1628,
\* 2213-2317).
THEOREM RoutingTypes == Spec => []TypeOK
<1>1. RInv /\ HInv => TypeOK
  <2> SUFFICES ASSUME RInv, HInv PROVE TypeOK
    OBVIOUS
  <2>1. PacketsTyped /\ HandlersTyped /\ WorldTyped
    BY DEF RInv, Typed
  <2>2. Formed(now) \subseteq Packets
    BY DEF Formed
  <2>3. Seq(Formed(now)) \subseteq Seq(Packets)
    BY <2>2, SeqMonotonic
  <2>4. /\ list \in Seq(Packets) /\ now \in Nat
        /\ sendQueue \in Seq(Packets) /\ Len(sendQueue) <= QueueSize
        /\ tncQueue \in Seq(Packets) /\ Len(tncQueue) <= QueueSize
    BY <2>1, <2>3 DEF PacketsTyped, QueueOK
  <2>5. posit \in [Threads -> Packets \cup {Nothing}]
    BY <2>1, <2>2 DEF HandlersTyped
  <2>6. ClockTyped
    BY DEF HInv
  <2> QED
    BY <2>1, <2>4, <2>5, <2>6 DEF TypeOK, HandlersTyped, WorldTyped, ClockTyped
<1> QED
  BY <1>1, RInvHolds, HInvHolds, PTL

\* A message goes to the radio only for a station that was heard there directly in
\* one of the last ttlDefault rounds, or that msgdest2rf names, even though main ages
\* the list at any moment between the look at it and the send: StationLocal finds what
\* the TNC heard and nothing older, but for an entry that was alone when main aged the
\* list (aprsd.cpp 2391-2405, 3484-3488, history.cpp 192-218, 303-340).
THEOREM OnlyToStationsHeard == Spec => DestinationHeard
<1>1. RInv /\ HInv /\ [Next]_vars =>
        [\A h \in Threads : at[h] = "source" /\ at'[h] = "posit" =>
            packet[h].to \in stsmDest_rfcall \/ Recently(packet[h].to)]_vars
  BY DEF HInv, SourceHeard, Addressee
<1> QED
  BY <1>1, RInvHolds, HInvHolds, PTL DEF Spec, DestinationHeard

\* Who sends a posit is at "stamp" and goes on to "inet".
LEMMA OneSends ==
    ASSUME RInv, Next, NEW h \in Threads, Sends(h)
    PROVE  SendPosit(h)
<1>1. at \in [Threads -> {"idle", "source", "posit", "stamp", "inet", "always"}]
  BY DEF RInv, Typed, HandlersTyped
<1>2. at[h] = "stamp" /\ at'[h] = "inet"
  BY DEF Sends
<1>3. at' # at
  BY <1>2
<1>4. \A w : \A g \in Threads : at[g] # "stamp" /\ at' = [at EXCEPT ![g] = w] => at'[h] = "stamp"
  BY <1>1, <1>2
<1>5. ASSUME NEW g \in Threads, Handler(g) PROVE SendPosit(h)
  <2>1. CASE sendOnRF(g)
    BY <1>2, <1>4, <2>1 DEF sendOnRF
  <2>2. CASE FindPosit(g)
    BY <1>2, <1>4, <2>2 DEF FindPosit
  <2>3. CASE SendPosit(g)
    <3>1. at' = [at EXCEPT ![g] = "inet"]
      BY <2>3 DEF SendPosit
    <3>2. g = h
      BY <1>1, <1>2, <3>1
    <3> QED
      BY <2>3, <3>2
  <2>4. CASE ToInternet(g)
    BY <1>2, <1>4, <2>4 DEF ToInternet
  <2>5. CASE Always(g)
    BY <1>2, <1>4, <2>5 DEF Always
  <2> QED
    BY <1>5, <2>1, <2>2, <2>3, <2>4, <2>5 DEF Handler
<1>6. \A p : \A g \in Threads : ~Receive(g, p)
  BY <1>2, <1>4 DEF Receive
<1>7. \A g, l : ~Logon(g, l)
  BY <1>3 DEF Logon
<1>8. \A p, i, b : ~ReadCom(p, i, b)
  BY <1>3 DEF ReadCom, handlers
<1>9. /\ \A p : ~UDPServerThread(p)
      /\ \A s : ~schedule_posit2RF(s)
  BY <1>3 DEF UDPServerThread, schedule_posit2RF, handlers
<1>10. /\ ~NetBeacon /\ ~TncBeacon /\ ~DeQueue /\ ~dequeueTNC
       /\ ~DeleteOldItems /\ ~Round
  BY <1>3 DEF NetBeacon, TncBeacon, DeQueue, dequeueTNC, DeleteOldItems, Round, handlers
<1> QED
  BY <1>5, <1>6, <1>7, <1>8, <1>9, <1>10 DEF Next, Threads

\* A handler that sends a posit has not sent it within ten minutes, although other
\* handlers and dequeueTNC put copies of it into the list meanwhile: the original
\* carries the time of the last transmission, or none of its copies is left (aprsd.cpp
\* 1565-1576, 2257-2270, history.cpp 388-420).
THEOREM EveryTenMinutes == Spec => PositPacedByHandler
<1>1. RInv /\ [Next]_vars =>
        [\A h \in Threads :
            Sends(h) /\ posit[h].type = "posit" /\ posit[h].src \notin posit_rfcall =>
               now - Sent(h) >= TenMinutes]_vars
  <2> SUFFICES ASSUME RInv, Next, NEW h \in Threads, Sends(h),
                      posit[h].type = "posit", posit[h].src \notin posit_rfcall
               PROVE  now - Sent(h) >= TenMinutes
    OBVIOUS
  <2>1. SendPosit(h)
    BY OneSends
  <2>2. PacketsTyped /\ HandlersTyped /\ WorldTyped /\ StampKnown
    BY DEF RInv, Typed, Pacing
  <2>3. now - posit[h].timeRF >= TenMinutes
    BY <2>1 DEF SendPosit, Sends
  <2>4. posit[h] # Nothing
    BY <2>2 DEF HandlersTyped, Sends
  <2>5. sent[h][posit[h].ID] <= posit[h].timeRF
    BY <2>2, <2>4 DEF StampKnown, Paced
  <2>6. posit[h] \in Formed(now) /\ posit[h].type \in Posits
    BY <2>2, <2>4 DEF HandlersTyped
  <2>7. /\ now \in Int /\ posit[h].timeRF \in Int /\ posit[h].ID \in Numbers
    BY <2>2, <2>6 DEF PacketsTyped, Formed, Packets, Never
  <2>8. sent[h][posit[h].ID] \in Int
    BY <2>2, <2>7 DEF WorldTyped, Never, PacketsTyped
  <2> QED
    BY <2>3, <2>5, <2>7, <2>8 DEF Sent, TenMinutes
<1> QED
  BY <1>1, RInvHolds, PTL DEF Spec, PositPacedByHandler
==============================================================================
