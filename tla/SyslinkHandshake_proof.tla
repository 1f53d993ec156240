----------------------- MODULE SyslinkHandshake_proof -----------------------
(***************************************************************************)
(* Proofs about SyslinkHandshake, whichever stages may fail.               *)
(***************************************************************************)
EXTENDS SyslinkHandshake, TLAPS

\* The codes waiting in a peer's box.
Elems(q) == {q[i] : i \in DOMAIN q}
Codes(p) == Elems(box[p])

\* The code x ends the queue q, and comes after all the codes wanted that g lacks.
OnlyLast(q, x) == \A i \in 1 .. Len(q) : q[i] = x => i = Len(q)

Preceded(q, x, wanted, g) ==
    \A i \in 1 .. Len(q) : q[i] = x => wanted \subseteq g \union {q[j] : j \in 1 .. i - 1}

\* Where a peer has no box yet, has not collected the three codes, sends nothing more,
\* may send, has told the other one that it is out, and holds all its resources.
Unattached == {"slk", "syncbuf", "syncbox"}
Early == {"attach", "ntf", "msgq", "msgqattach", "rpe", "rpeopen", "waitprepare"}
Silent == {"waitack0", "close", "slkcleanup", "returned"}
Talking == Step \ (Unattached \union Silent \union {"attach", "giveup"})
Leaving == {"waitcleanup", "rpecleanup", "msgqcleanup", "slkcleanup", "returned"} \union Closing
Joined == {"waitprepare", "prepare", "waitforprepare", "running", "out", "waitcleanup"}
Full == {"slk", "syncbuf", "msgq", "rpe"}

\* An error sends a peer to the end.
Errors(p) ==
    /\ ret[p] = "error" => pc[p] \in {"giveup", "slkcleanup", "returned"}
    /\ pc[p] = "giveup" => ret[p] = "error"

\* When the box exists.
Boxes(p) ==
    /\ pc[p] \in Unattached => ~open[p] /\ box[p] = <<>>
    /\ pc[p] \in Talking \union {"attach", "giveup", "waitack0", "close"} => open[p]

\* A peer that may send has a box to send to, unless the other one gave up.
Attached(p) ==
    pc[p] \in Talking => open[Remote(p)] \/ ret[Remote(p)] = "error"

\* ACK0 is the last a peer says.
LastWord(p) ==
    /\ OnlyLast(box[p], "ACK0")
    /\ \/ "ACK0" \in Codes(p)
       \/ pc[p] = "close"
       \/ pc[p] = "slkcleanup" /\ ret[p] = "ok"
       => pc[Remote(p)] \in Silent

\* What a peer holds on its way up.
Holding(p) ==
    /\ pc[p] \in Early \union Joined \union {"syncbuf", "syncbox"} => "slk" \in up[p]
    /\ pc[p] \in Early \union Joined \union {"syncbox"} => "syncbuf" \in up[p]
    /\ pc[p] \in Joined \union {"msgqattach", "rpe", "rpeopen"} => "msgq" \in up[p]
    /\ pc[p] \in Joined \union {"rpeopen"} => "rpe" \in up[p]

\* RPEOUT comes from a peer on its way out.
OutSent(p) ==
    "RPEOUT" \in Codes(p) \union got[p] => pc[Remote(p)] \in Leaving

\* A peer that has said PREPARE stays up until the other one is out.
Ready(p) ==
    /\ pc[p] \in {"waitforprepare", "running", "out", "waitcleanup", "returned"}
    /\ Full \subseteq up[p] /\ open[p]

Prepared(p) ==
    ("PREPARE" \in Codes(p) \/ pc[p] = "running") /\ pc[p] \notin Leaving
        => Ready(Remote(p))

\* No code of the three is missed by a peer that has not collected them ...
Collected(p) ==
    /\ pc[p] \in Early => got[p] \subseteq OK /\ got[p] # OK
    /\ pc[p] \in Unattached \union (Early \ {"waitprepare"}) => got[p] = {}

Told(p) ==
    IF pc[p] \in {"msgq", "msgqattach"} THEN {"NTFOK"}
    ELSE IF pc[p] \in {"rpe", "rpeopen"} THEN {"NTFOK", "MSGOK"}
    ELSE IF pc[p] \in {"waitprepare", "prepare", "waitforprepare"} THEN OK
    ELSE {}

Heard(p) ==
    pc[p] \in Early => Told(Remote(p)) \subseteq got[p] \union Codes(p)

\* ... as they come before PREPARE, which it therefore does not drop.
InOrder(p) == pc[p] \in Early => Preceded(box[p], "PREPARE", OK, got[p])

PrepareKept(p) ==
    /\ pc[p] \in Early \union {"prepare", "waitforprepare"}
    /\ pc[Remote(p)] = "waitforprepare"
    => "PREPARE" \in Codes(p)

\* What a peer that is done leaves in its box, and what it was sent too late.
Emptied(p) ==
    /\ lost[p] # {} => ret[p] = "error"
    /\ pc[p] \in {"close", "slkcleanup"} /\ ret[p] = "ok" => box[p] = <<>>

\* How many codes more than it has received a peer may have sent: none until it says
\* NTFOK, and when it waits for three codes those it lacks.
Lacks(p, c) == IF c \in got[p] THEN 0 ELSE 1

Credit(p) ==
    IF pc[p] \in {"msgq", "msgqattach", "waitforprepare", "out", "rpecleanup"} THEN 1
    ELSE IF pc[p] \in {"rpe", "rpeopen", "msgqcleanup", "out0", "ack0", "close",
                       "slkcleanup"} THEN 2
    ELSE IF pc[p] \in {"waitout0", "waitack0"} THEN 3
    ELSE IF pc[p] = "returned" THEN 4
    ELSE IF pc[p] = "waitprepare"
         THEN Lacks(p, "MSGOK") + Lacks(p, "RPEOK") + Lacks(p, "NTFOK")
    ELSE IF pc[p] = "waitcleanup"
         THEN 1 + Lacks(p, "MSGOUT") + Lacks(p, "RPEOUT") + Lacks(p, "NTFOUT")
    ELSE 0

\* What is under way was sent and is not received yet.
Balanced(p) ==
    Len(box[p]) + Len(box[Remote(p)]) <= Credit(p) + Credit(Remote(p))

\* Nothing is noted between the two collections.
Cleared(p) ==
    pc[p] \in {"prepare", "waitforprepare", "running", "out"} => got[p] = {}

Handshake(p) ==
    /\ Errors(p) /\ Boxes(p) /\ Attached(p) /\ LastWord(p) /\ Emptied(p) /\ Holding(p)
    /\ OutSent(p) /\ Prepared(p) /\ Collected(p) /\ Heard(p) /\ InOrder(p)
    /\ PrepareKept(p) /\ Cleared(p) /\ Balanced(p)

IInv == TypeOK /\ \A p \in Peer : Handshake(p)
-----------------------------------------------------------------------------
(***************************************************************************)
(* The two peers, and what sending and receiving do to the codes waiting.  *)
(***************************************************************************)
LEMMA PeerFacts ==
    \A p \in Peer : /\ Remote(p) \in Peer /\ Remote(p) # p /\ Remote(Remote(p)) = p
                    /\ \A q \in Peer : q = p \/ q = Remote(p)
BY DEF Peer, Remote

LEMMA Appended ==
    ASSUME NEW S, NEW s \in Seq(S), NEW t \in Seq(S)
    PROVE  /\ s \o t \in Seq(S) /\ Elems(s \o t) = Elems(s) \union Elems(t)
           /\ Len(s \o t) = Len(s) + Len(t)
           /\ \A i \in 1 .. Len(s) : (s \o t)[i] = s[i]
           /\ \A i \in 1 .. Len(t) : (s \o t)[Len(s) + i] = t[i]
           /\ \A i \in 1 .. Len(s) + Len(t) :
                i \in 1 .. Len(s) \/ \E j \in 1 .. Len(t) : i = Len(s) + j
<1>1. /\ Len(s) \in Nat /\ Len(t) \in Nat
      /\ DOMAIN s = 1 .. Len(s) /\ DOMAIN t = 1 .. Len(t)
  OBVIOUS
<1>2. /\ s \o t \in Seq(S) /\ Len(s \o t) = Len(s) + Len(t)
      /\ DOMAIN (s \o t) = 1 .. Len(s) + Len(t)
  BY <1>1
<1>3. \A i \in 1 .. Len(s) : (s \o t)[i] = s[i]
  BY <1>1
<1>4. \A i \in 1 .. Len(t) : (s \o t)[Len(s) + i] = t[i]
  BY <1>1
<1>5. ASSUME NEW i \in 1 .. Len(s) + Len(t)
      PROVE  i \in 1 .. Len(s) \/ \E j \in 1 .. Len(t) : i = Len(s) + j
  <2>1. CASE i > Len(s)
    <3>1. i - Len(s) \in 1 .. Len(t) /\ i = Len(s) + (i - Len(s))
      BY <1>1, <2>1
    <3> QED BY <3>1
  <2>2. CASE ~(i > Len(s))
    BY <1>1, <2>2
  <2> QED BY <2>1, <2>2
<1>6. Elems(s \o t) \subseteq Elems(s) \union Elems(t)
  <2> SUFFICES ASSUME NEW i \in 1 .. Len(s) + Len(t)
               PROVE  (s \o t)[i] \in Elems(s) \union Elems(t)
    BY <1>2 DEF Elems
  <2>1. CASE i \in 1 .. Len(s)
    <3>1. (s \o t)[i] = s[i]
      BY <1>3, <2>1
    <3>2. s[i] \in Elems(s)
      BY <1>1, <2>1 DEF Elems
    <3> QED BY <3>1, <3>2
  <2>2. CASE \E j \in 1 .. Len(t) : i = Len(s) + j
    <3>1. PICK j \in 1 .. Len(t) : i = Len(s) + j
      BY <2>2
    <3>2. (s \o t)[i] = t[j]
      BY <1>4, <3>1
    <3>3. t[j] \in Elems(t)
      BY <1>1 DEF Elems
    <3> QED BY <3>2, <3>3
  <2> QED BY <1>5, <2>1, <2>2
<1>7. Elems(s) \subseteq Elems(s \o t)
  <2>1. \A i \in 1 .. Len(s) : i \in 1 .. Len(s) + Len(t)
    BY <1>1
  <2> QED BY <1>1, <1>2, <1>3, <2>1 DEF Elems
<1>8. Elems(t) \subseteq Elems(s \o t)
  <2>1. \A i \in 1 .. Len(t) : Len(s) + i \in 1 .. Len(s) + Len(t)
    BY <1>1
  <2> QED BY <1>1, <1>2, <1>4, <2>1 DEF Elems
<1> QED BY <1>2, <1>3, <1>4, <1>5, <1>6, <1>7, <1>8

LEMMA Taken ==
    ASSUME NEW S, NEW s \in Seq(S), s # <<>>
    PROVE  /\ Head(s) \in S /\ Head(s) \in Elems(s) /\ s[1] = Head(s)
           /\ Tail(s) \in Seq(S) /\ Len(s) \in Nat \ {0} /\ Len(Tail(s)) = Len(s) - 1
           /\ Elems(s) = {Head(s)} \union Elems(Tail(s))
           /\ \A i \in 1 .. Len(s) - 1 : Tail(s)[i] = s[i + 1]
<1>1. /\ Len(s) \in Nat \ {0} /\ Head(s) = s[1] /\ Head(s) \in S
      /\ DOMAIN s = 1 .. Len(s)
  OBVIOUS
<1>2. /\ Tail(s) \in Seq(S) /\ Len(Tail(s)) = Len(s) - 1
      /\ DOMAIN Tail(s) = 1 .. Len(s) - 1
      /\ \A i \in 1 .. Len(s) - 1 : Tail(s)[i] = s[i + 1]
  BY <1>1
<1>3. Head(s) \in Elems(s)
  BY <1>1 DEF Elems
<1>4. Elems(Tail(s)) \subseteq Elems(s)
  <2>1. \A i \in 1 .. Len(s) - 1 : i + 1 \in 1 .. Len(s)
    BY <1>1
  <2> QED BY <1>1, <1>2, <2>1 DEF Elems
<1>5. ASSUME NEW x \in Elems(s)
      PROVE  x \in {Head(s)} \union Elems(Tail(s))
  <2>1. PICK i \in 1 .. Len(s) : x = s[i]
    BY <1>1 DEF Elems
  <2>2. CASE i = 1
    BY <1>1, <2>1, <2>2
  <2>3. CASE i # 1
    <3>1. i - 1 \in 1 .. Len(s) - 1 /\ (i - 1) + 1 = i
      BY <1>1, <2>3
    <3>2. Tail(s)[i - 1] = x
      BY <1>2, <2>1, <3>1
    <3> QED BY <1>2, <3>1, <3>2 DEF Elems
  <2> QED BY <2>2, <2>3
<1> QED BY <1>1, <1>2, <1>3, <1>4, <1>5

LEMMA LastAppended ==
    ASSUME NEW S, NEW s \in Seq(S), NEW t \in Seq(S), NEW x,
           OnlyLast(t, x), x \notin Elems(s)
    PROVE  OnlyLast(s \o t, x)
<1> DEFINE m == Len(s)
           n == Len(t)
           u == s \o t
<1>1. m \in Nat /\ n \in Nat /\ Len(u) = m + n /\ DOMAIN s = 1 .. m
  BY Appended
<1>2. /\ \A i \in 1 .. m : u[i] = s[i]
      /\ \A i \in 1 .. n : u[m + i] = t[i]
      /\ \A i \in 1 .. m + n : i \in 1 .. m \/ \E j \in 1 .. n : i = m + j
  BY Appended
<1>3. \A i \in 1 .. m : u[i] # x
  BY <1>1, <1>2 DEF Elems
<1>4. \A j \in 1 .. n : u[m + j] = x => m + j = m + n
  BY <1>2 DEF OnlyLast
<1>5. \A i \in 1 .. m + n : u[i] = x => i = m + n
  BY <1>2, <1>3, <1>4
<1> QED BY <1>1, <1>5 DEF OnlyLast

LEMMA LastTaken ==
    ASSUME NEW S, NEW s \in Seq(S), s # <<>>, NEW x, OnlyLast(s, x)
    PROVE  OnlyLast(Tail(s), x) /\ (Head(s) = x => Tail(s) = <<>>)
<1> DEFINE n == Len(s)
           t == Tail(s)
<1>1. /\ n \in Nat \ {0} /\ t \in Seq(S) /\ Len(t) = n - 1 /\ s[1] = Head(s)
      /\ (Len(t) = 0 => t = <<>>)
      /\ \A i \in 1 .. n - 1 : t[i] = s[i + 1]
  <2>1. t \in Seq(S) /\ (Len(t) = 0 => t = <<>>)
    BY Taken
  <2> QED BY <2>1, Taken
<1>2. \A i \in 1 .. n : s[i] = x => i = n
  BY DEF OnlyLast
<1> HIDE DEF n
<1>3. \A i \in 1 .. n - 1 : i + 1 \in 1 .. n /\ (i + 1 = n => i = n - 1)
  BY <1>1
<1>4. OnlyLast(t, x)
  BY <1>1, <1>2, <1>3 DEF OnlyLast
<1>5. ASSUME Head(s) = x
      PROVE  t = <<>>
  <2>1. n = 1
    BY <1>1, <1>2, <1>5
  <2>2. Len(t) = 0
    BY <1>1, <2>1
  <2> QED BY <1>1, <2>2
<1> QED BY <1>4, <1>5

LEMMA PrecededAppended ==
    ASSUME NEW S, NEW s \in Seq(S), NEW t \in Seq(S), NEW x, NEW wanted, NEW g,
           Preceded(s, x, wanted, g),
           x \in Elems(t) => wanted \subseteq g \union Elems(s)
    PROVE  Preceded(s \o t, x, wanted, g)
<1> DEFINE m == Len(s)
           n == Len(t)
           u == s \o t
           Before(i) == {u[j] : j \in 1 .. i - 1}
<1>1. /\ m \in Nat /\ n \in Nat /\ Len(u) = m + n
      /\ DOMAIN s = 1 .. m /\ DOMAIN t = 1 .. n
  BY Appended
<1>2. /\ \A i \in 1 .. m : u[i] = s[i]
      /\ \A i \in 1 .. n : u[m + i] = t[i]
      /\ \A i \in 1 .. m + n : i \in 1 .. m \/ \E j \in 1 .. n : i = m + j
  BY Appended
<1>3. ASSUME NEW i \in 1 .. m, u[i] = x
      PROVE  wanted \subseteq g \union Before(i)
  <2>1. wanted \subseteq g \union {s[j] : j \in 1 .. i - 1}
    BY <1>2, <1>3 DEF Preceded
  <2>2. \A j \in 1 .. i - 1 : j \in 1 .. m
    BY <1>1
  <2>3. \A j \in 1 .. i - 1 : s[j] \in Before(i)
    BY <1>2, <2>2
  <2> QED BY <2>1, <2>3
<1>4. ASSUME NEW k \in 1 .. n, u[m + k] = x
      PROVE  wanted \subseteq g \union Before(m + k)
  <2>1. wanted \subseteq g \union Elems(s)
    BY <1>1, <1>2, <1>4 DEF Elems
  <2>2. \A j \in 1 .. m : j \in 1 .. (m + k) - 1
    BY <1>1
  <2>3. \A j \in 1 .. m : s[j] \in Before(m + k)
    BY <1>2, <2>2
  <2> QED BY <1>1, <2>1, <2>3 DEF Elems
<1> HIDE DEF Before
<1>5. \A i \in 1 .. m + n : u[i] = x => wanted \subseteq g \union Before(i)
  BY <1>2, <1>3, <1>4
<1> QED BY <1>1, <1>5 DEF Preceded, Before

LEMMA PrecededTaken ==
    ASSUME NEW S, NEW s \in Seq(S), s # <<>>, NEW x, NEW wanted, NEW g,
           Preceded(s, x, wanted, g)
    PROVE  /\ Preceded(Tail(s), x, wanted, g \union ({Head(s)} \intersect wanted))
           /\ Head(s) = x => wanted \subseteq g
<1> DEFINE n == Len(s)
           t == Tail(s)
           h == Head(s)
<1>1. /\ n \in Nat \ {0} /\ t \in Seq(S) /\ Len(t) = n - 1 /\ s[1] = h
      /\ \A i \in 1 .. n - 1 : t[i] = s[i + 1]
  BY Taken
<1>2. \A i \in 1 .. n : s[i] = x => wanted \subseteq g \union {s[j] : j \in 1 .. i - 1}
  BY DEF Preceded
<1>3. h = x => wanted \subseteq g
  <2>1. 1 \in 1 .. n /\ 1 .. 1 - 1 = {}
    BY <1>1
  <2> QED BY <1>1, <1>2, <2>1
<1>4. ASSUME NEW i \in 1 .. n - 1, t[i] = x, NEW w \in wanted
      PROVE  w \in g \union ({h} \intersect wanted) \union {t[j] : j \in 1 .. i - 1}
  <2>1. i + 1 \in 1 .. n /\ (i + 1) - 1 = i /\ s[i + 1] = x
    BY <1>1, <1>4
  <2>2. w \in g \/ \E j \in 1 .. i : w = s[j]
    BY <1>2, <2>1
  <2>3. ASSUME NEW j \in 1 .. i, w = s[j], j # 1
        PROVE  w \in {t[l] : l \in 1 .. i - 1}
    <3>1. j - 1 \in 1 .. i - 1 /\ j - 1 \in 1 .. n - 1 /\ (j - 1) + 1 = j
      BY <1>1, <2>3
    <3>2. t[j - 1] = w
      BY <1>1, <2>3, <3>1
    <3> QED BY <3>1, <3>2
  <2> QED BY <1>1, <2>2, <2>3
<1>5. Preceded(t, x, wanted, g \union ({h} \intersect wanted))
  BY <1>1, <1>4 DEF Preceded
<1> QED BY <1>3, <1>5

LEMMA SendFacts ==
    ASSUME TypeOK, NEW p \in Peer, NEW cs \in Seq(Code), Send(p, cs)
    PROVE  /\ box' \in [Peer -> Seq(Code)] /\ lost' \in [Peer -> SUBSET Code]
           /\ box'[p] = box[p] /\ Codes(p)' = Codes(p)
           /\ lost'[p] = lost[p]
           /\ open[Remote(p)] =>
                /\ box'[Remote(p)] = box[Remote(p)] \o cs
                /\ Codes(Remote(p))' = Codes(Remote(p)) \union Elems(cs)
                /\ lost' = lost
           /\ ~open[Remote(p)] => box' = box /\ Codes(Remote(p))' = Codes(Remote(p))
<1>1. /\ Remote(p) \in Peer /\ Remote(p) # p
      /\ box \in [Peer -> Seq(Code)] /\ lost \in [Peer -> SUBSET Code]
  BY PeerFacts DEF TypeOK
<1>2. CASE open[Remote(p)]
  <2>1. box' = [box EXCEPT ![Remote(p)] = box[Remote(p)] \o cs] /\ lost' = lost
    BY <1>2 DEF Send
  <2>2. /\ box[Remote(p)] \in Seq(Code) /\ box[Remote(p)] \o cs \in Seq(Code)
        /\ Elems(box[Remote(p)] \o cs) = Elems(box[Remote(p)]) \union Elems(cs)
    BY <1>1, Appended
  <2>3. /\ box' \in [Peer -> Seq(Code)] /\ box'[p] = box[p]
        /\ box'[Remote(p)] = box[Remote(p)] \o cs
    BY <1>1, <2>1, <2>2
  <2> QED BY <1>1, <1>2, <2>1, <2>2, <2>3 DEF Codes
<1>3. CASE ~open[Remote(p)]
  <2>1. /\ box' = box
        /\ lost' = [lost EXCEPT ![Remote(p)] =
                      lost[Remote(p)] \union {cs[i] : i \in DOMAIN cs}]
    BY <1>3 DEF Send
  <2>2. {cs[i] : i \in DOMAIN cs} \subseteq Code
    OBVIOUS
  <2> QED BY <1>1, <1>3, <2>1, <2>2 DEF Codes
<1> QED BY <1>2, <1>3

LEMMA ReceiveFacts ==
    ASSUME TypeOK, NEW p \in Peer, NEW code, Receive(p, code)
    PROVE  /\ box' \in [Peer -> Seq(Code)]
           /\ box[p] \in Seq(Code) /\ box[p] # <<>> /\ code = Head(box[p]) /\ code \in Code
           /\ box'[p] = Tail(box[p])
           /\ code \in Codes(p) /\ Codes(p) = {code} \union Codes(p)'
           /\ box'[Remote(p)] = box[Remote(p)]
           /\ Codes(Remote(p))' = Codes(Remote(p))
<1>1. /\ box \in [Peer -> Seq(Code)] /\ box[p] \in Seq(Code) /\ box[p] # <<>>
      /\ code = Head(box[p]) /\ box' = [box EXCEPT ![p] = Tail(box[p])]
      /\ Remote(p) \in Peer /\ Remote(p) # p
  BY PeerFacts DEF TypeOK, Receive
<1>2. /\ Head(box[p]) \in Code /\ Tail(box[p]) \in Seq(Code)
      /\ Head(box[p]) \in Elems(box[p])
      /\ Elems(box[p]) = {Head(box[p])} \union Elems(Tail(box[p]))
  BY <1>1, Taken
<1>3. box'[p] = Tail(box[p]) /\ box'[Remote(p)] = box[Remote(p)]
  BY <1>1
<1> QED BY <1>1, <1>2, <1>3 DEF Codes

LEMMA Singles ==
    /\ \A c \in Code : <<c>> \in Seq(Code) /\ Elems(<<c>>) = {c}
    /\ <<"MSGOUT", "NTFOUT", "RPEOUT">> \in Seq(Code)
    /\ Elems(<<"MSGOUT", "NTFOUT", "RPEOUT">>) = OUT
    /\ Elems(<<>>) = {}
    /\ OK \subseteq Code /\ OUT \subseteq Code
    /\ {"PREPARE", "OUT0", "ACK0"} \subseteq Code
<1>1. \A c \in Code : <<c>> \in Seq(Code) /\ DOMAIN <<c>> = {1} /\ <<c>>[1] = c
  OBVIOUS
<1>2. /\ "MSGOUT" \in Code /\ "NTFOUT" \in Code /\ "RPEOUT" \in Code
      /\ OK \subseteq Code /\ OUT \subseteq Code
      /\ {"PREPARE", "OUT0", "ACK0"} \subseteq Code
  BY DEF Code, OK, OUT
<1> DEFINE t == <<"MSGOUT", "NTFOUT", "RPEOUT">>
<1>3. /\ t \in Seq(Code) /\ DOMAIN t = {1, 2, 3}
      /\ t[1] = "MSGOUT" /\ t[2] = "NTFOUT" /\ t[3] = "RPEOUT"
  BY <1>2
<1>4. Elems(t) = OUT
  BY <1>3 DEF Elems, OUT
<1>5. Elems(<<>>) = {}
  BY DEF Elems
<1> QED BY <1>1, <1>2, <1>3, <1>4, <1>5 DEF Elems

-----------------------------------------------------------------------------
(***************************************************************************)
(* The steps by what they do to the boxes.  The remote peer's own state    *)
(* never changes.                                                          *)
(***************************************************************************)
Steps(p) ==
    Prepare(p) \/ SendPrepare(p) \/ WaitForPrepare(p) \/ Leave(p) \/ SendOut(p) \/ Cleanup(p)

\* Steps that neither send nor receive: what they make of the peer's own state.
Moves(p, from, to, u, o, r) ==
    /\ pc[p] = from /\ pc'[p] = to
    /\ up'[p] = u /\ open'[p] = o /\ ret'[p] = r

Quiet(p) ==
    LET u == up[p]
        o == open[p]
        r == ret[p]
    IN  /\ \/ Moves(p, "slk", "syncbuf", u \union {"slk"}, o, r)
           \/ Moves(p, "slk", "returned", u, o, "error")
           \/ Moves(p, "syncbuf", "syncbox", u \union {"syncbuf"}, o, r)
           \/ Moves(p, "syncbuf", "slkcleanup", u, o, "error")
           \/ Moves(p, "syncbox", "attach", u, TRUE, r)
           \/ Moves(p, "syncbox", "slkcleanup", u, o, "error")
           \/ Moves(p, "attach", "ntf", u, o, r) /\ open[Remote(p)]
           \/ Moves(p, "attach", "giveup", u, o, "error")
           \/ Moves(p, "giveup", "slkcleanup", u, FALSE, r)
           \/ Moves(p, "msgq", "msgqattach", u \union {"msgbuf", "msgq"}, o, r)
           \/ Moves(p, "msgqattach", "out0", u \ {"msgq"}, o, "ok")
           \/ Moves(p, "rpe", "rpeopen", u \union {"rpe"}, o, r)
           \/ Moves(p, "rpeopen", "msgqcleanup", u \ {"rpe"}, o, "ok")
           \/ Moves(p, "waitprepare", "returned", u, o, "error")
           \/ \E from \in {"prepare", "waitforprepare", "running"} :
                Moves(p, from, "out", u, o, r)
           \/ Moves(p, "waitcleanup", "returned", u, o, r)
           \/ Moves(p, "rpecleanup", "msgqcleanup", u \ {"rpe"}, o, r)
           \/ Moves(p, "msgqcleanup", "out0", u \ {"msgq", "msgbuf"}, o, r)
           \/ Moves(p, "close", "slkcleanup", u \ {"syncbuf"}, FALSE, r)
           \/ Moves(p, "slkcleanup", "returned", u \ {"slk"}, o, r)
        /\ UNCHANGED <<box, lost, got>>

\* Steps that send the codes cs, and where they lead.
Says(p, from, cs, to) ==
    /\ At(p, from) /\ Goto(p, to) /\ Send(p, cs)
    /\ UNCHANGED <<up, open, got, ret>>

Talks(p) ==
    \/ Says(p, "ntf", <<"NTFOK">>, "msgq")
    \/ Says(p, "msgqattach", <<"MSGOK">>, "rpe")
    \/ Says(p, "rpeopen", <<"RPEOK">>, "waitprepare")
    \/ Says(p, "prepare", <<"PREPARE">>, "waitforprepare")
    \/ Says(p, "out", <<"MSGOUT", "NTFOUT", "RPEOUT">>, "waitcleanup")
    \/ Says(p, "out0", <<"OUT0">>, "waitout0")
    \/ Says(p, "ack0", <<"ACK0">>, "waitack0")

\* Steps that receive: in a loop that collects codes, or until one comes.
Collects(p, from, wanted, to) ==
    /\ At(p, from) /\ Collect(p, wanted, to)
    /\ UNCHANGED ret \/ Return(p, "ok")

Awaits(p, from, code, to) ==
    /\ At(p, from) /\ WaitFor(p, code, to)
    /\ UNCHANGED <<got, ret>>

Hears(p) ==
    /\ \/ Collects(p, "waitprepare", OK, "prepare")
       \/ Awaits(p, "waitforprepare", "PREPARE", "running")
       \/ Collects(p, "waitcleanup", OUT, "rpecleanup")
       \/ Awaits(p, "waitout0", "OUT0", "ack0")
       \/ Awaits(p, "waitack0", "ACK0", "close")
    /\ UNCHANGED <<up, open, lost>>

LEMMA Kinds ==
    ASSUME TypeOK, NEW p \in Peer, Steps(p)
    PROVE  Quiet(p) \/ Talks(p) \/ Hears(p)
<1> USE DEF Acquire, Release, Return, Goto, At, TypeOK
<1>2. CASE SlkPrepare(p) \/ SyncBufInit(p)
  BY <1>2 DEF Quiet, Moves, SlkPrepare, SyncBufInit
<1>3. CASE SyncBoxCreate(p) \/ SyncAttach(p) \/ SyncGiveUp(p)
  BY <1>3 DEF Quiet, Moves, SyncBoxCreate, SyncAttach, SyncGiveUp
<1>4. CASE MsgqCreate(p) \/ RpeOpenWriter(p)
  BY <1>4 DEF Quiet, Moves, MsgqCreate, RpeOpenWriter
<1>5. CASE Leave(p)
  BY <1>5 DEF Quiet, Moves, Leave
<1>6. CASE MsgqAttach(p)
  BY <1>6 DEF Quiet, Moves, Talks, Says, MsgqAttach
<1>7. CASE RpeOpenReader(p)
  BY <1>7 DEF Quiet, Moves, Talks, Says, RpeOpenReader
<1>8. CASE NotifierPrepare(p) \/ SendPrepare(p) \/ SendOut(p) \/ SendOut0(p) \/ SendAck0(p)
  BY <1>8 DEF Talks, Says, NotifierPrepare, SendPrepare, SendOut, SendOut0, SendAck0
<1>9. CASE WaitPrepare(p)
  BY <1>9 DEF Quiet, Moves, Hears, Collects, WaitPrepare
<1>10. CASE WaitCleanup(p)
  BY <1>10 DEF Quiet, Moves, Hears, Collects, WaitCleanup
<1>11. CASE WaitForPrepare(p) \/ WaitOut0(p) \/ WaitAck0(p)
  BY <1>11 DEF Hears, Awaits, WaitForPrepare, WaitOut0, WaitAck0
<1>12. CASE RpeCleanup(p) \/ MsgqCleanup(p) \/ SyncClose(p) \/ SlkCleanup(p)
  BY <1>12 DEF Quiet, Moves, RpeCleanup, MsgqCleanup, SyncClose, SlkCleanup
<1> QED BY <1>2, <1>3, <1>4, <1>5, <1>6, <1>7, <1>8, <1>9, <1>10, <1>11, <1>12
        DEF Steps, Prepare, Cleanup


\* What the kinds of step do to the boxes and to what is collected.
LEMMA QuietFacts ==
    ASSUME NEW p \in Peer, Quiet(p)
    PROVE  \A q \in Peer : /\ box'[q] = box[q] /\ Codes(q)' = Codes(q)
                           /\ got'[q] = got[q] /\ lost'[q] = lost[q]
BY DEF Quiet, Codes

\* What a step that sends adds to the codes waiting at the other peer.
Adds(p, from, cs, to) ==
    /\ pc[p] = from /\ pc'[p] = to
    /\ open[Remote(p)] => Codes(Remote(p))' = Codes(Remote(p)) \union cs
    /\ ~open[Remote(p)] => Codes(Remote(p))' = Codes(Remote(p))

LEMMA TalkFacts ==
    ASSUME TypeOK, NEW p \in Peer, Talks(p)
    PROVE  /\ box' \in [Peer -> Seq(Code)] /\ lost' \in [Peer -> SUBSET Code]
           /\ UNCHANGED <<up, open, got, ret>>
           /\ lost'[p] = lost[p] /\ (open[Remote(p)] => lost' = lost)
           /\ box'[p] = box[p] /\ Codes(p)' = Codes(p)
           /\ \/ Adds(p, "ntf", {"NTFOK"}, "msgq")
              \/ Adds(p, "msgqattach", {"MSGOK"}, "rpe")
              \/ Adds(p, "rpeopen", {"RPEOK"}, "waitprepare")
              \/ Adds(p, "prepare", {"PREPARE"}, "waitforprepare")
              \/ Adds(p, "out", OUT, "waitcleanup")
              \/ Adds(p, "out0", {"OUT0"}, "waitout0")
              \/ Adds(p, "ack0", {"ACK0"}, "waitack0")
<1>1. ASSUME NEW from \in Step, NEW cs \in Seq(Code), NEW to, Says(p, from, cs, to)
      PROVE  /\ box' \in [Peer -> Seq(Code)] /\ lost' \in [Peer -> SUBSET Code]
             /\ UNCHANGED <<up, open, got, ret>>
             /\ lost'[p] = lost[p] /\ (open[Remote(p)] => lost' = lost)
             /\ box'[p] = box[p] /\ Codes(p)' = Codes(p)
             /\ Adds(p, from, Elems(cs), to)
  <2>1. /\ pc[p] = from /\ pc'[p] = to /\ UNCHANGED <<up, open, got, ret>>
        /\ Send(p, cs)
    BY <1>1 DEF Says, At, Goto, TypeOK
  <2> QED BY <2>1, SendFacts DEF Adds
<1>2. /\ {"ntf", "msgqattach", "rpeopen", "prepare", "out", "out0", "ack0"} \subseteq Step
      /\ {"NTFOK", "MSGOK", "RPEOK", "PREPARE", "OUT0", "ACK0"} \subseteq Code
  BY DEF Step, Closing, Code, OK, OUT
<1> DEFINE Done(from, cs, to) ==
             /\ box' \in [Peer -> Seq(Code)] /\ lost' \in [Peer -> SUBSET Code]
             /\ UNCHANGED <<up, open, got, ret>>
             /\ lost'[p] = lost[p] /\ (open[Remote(p)] => lost' = lost)
             /\ box'[p] = box[p] /\ Codes(p)' = Codes(p)
             /\ Adds(p, from, cs, to)
<1>3. ASSUME NEW from \in Step, NEW c \in Code, NEW to, Says(p, from, <<c>>, to)
      PROVE  Done(from, {c}, to)
  <2>1. <<c>> \in Seq(Code) /\ Elems(<<c>>) = {c}
    BY Singles
  <2> QED BY <1>1, <1>3, <2>1
<1>4. CASE Says(p, "ntf", <<"NTFOK">>, "msgq")
  BY <1>2, <1>4, <1>3
<1>5. CASE Says(p, "msgqattach", <<"MSGOK">>, "rpe")
  BY <1>2, <1>5, <1>3
<1>6. CASE Says(p, "rpeopen", <<"RPEOK">>, "waitprepare")
  BY <1>2, <1>6, <1>3
<1>7. CASE Says(p, "prepare", <<"PREPARE">>, "waitforprepare")
  BY <1>2, <1>7, <1>3
<1>8. CASE Says(p, "out", <<"MSGOUT", "NTFOUT", "RPEOUT">>, "waitcleanup")
  BY <1>1, <1>2, <1>8, Singles
<1>9. CASE Says(p, "out0", <<"OUT0">>, "waitout0")
  BY <1>2, <1>9, <1>3
<1>10. CASE Says(p, "ack0", <<"ACK0">>, "waitack0")
  BY <1>2, <1>10, <1>3
<1> QED BY <1>4, <1>5, <1>6, <1>7, <1>8, <1>9, <1>10 DEF Talks

LEMMA HearFacts ==
    ASSUME TypeOK, NEW p \in Peer, Hears(p)
    PROVE  \E code \in Code :
             /\ UNCHANGED <<up, open, lost>>
             /\ box' \in [Peer -> Seq(Code)]
             /\ box[p] \in Seq(Code) /\ box[p] # <<>> /\ code = Head(box[p])
             /\ box'[p] = Tail(box[p]) /\ box'[Remote(p)] = box[Remote(p)]
             /\ code \in Codes(p) /\ Codes(p) = {code} \union Codes(p)'
             /\ Codes(Remote(p))' = Codes(Remote(p))
             /\ got'[Remote(p)] = got[Remote(p)] /\ got'[p] \subseteq got[p] \union {code}
             /\ \/ pc' = pc
                \/ pc[p] = "waitforprepare" /\ code = "PREPARE" /\ pc'[p] = "running"
                \/ pc[p] = "waitout0" /\ code = "OUT0" /\ pc'[p] = "ack0"
                \/ pc[p] = "waitack0" /\ code = "ACK0" /\ pc'[p] = "close"
                \/ /\ pc[p] = "waitprepare" /\ pc'[p] = "prepare"
                   /\ OK \subseteq got[p] \union {code}
                \/ /\ pc[p] = "waitcleanup" /\ pc'[p] = "rpecleanup"
                   /\ OUT \subseteq got[p] \union {code}
             /\ pc[p] \in {"waitprepare", "waitforprepare", "waitcleanup", "waitout0",
                           "waitack0"}
             /\ pc'[p] = "waitforprepare" => code # "PREPARE"
             /\ pc'[p] = "waitprepare" =>
                  /\ got'[p] = got[p] \union ({code} \intersect OK) /\ got'[p] # OK
             /\ ret'[p] \in {ret[p], "ok"}
<1>1. ASSUME NEW from \in Step, NEW wanted, NEW to, to # from,
             Collects(p, from, wanted, to), UNCHANGED <<up, open, lost>>
      PROVE  \E code \in Code :
               /\ Receive(p, code) /\ pc[p] = from
               /\ got'[Remote(p)] = got[Remote(p)] /\ got'[p] \subseteq got[p] \union {code}
               /\ \/ pc' = pc
                  \/ pc'[p] = to /\ wanted \subseteq got[p] \union {code}
               /\ pc'[p] = from =>
                    /\ got'[p] = got[p] \union ({code} \intersect wanted) /\ got'[p] # wanted
  <2>1. PICK code \in Code :
          /\ Receive(p, code)
          /\ LET now == IF code \in wanted THEN got[p] \union {code} ELSE got[p]
             IN  IF now = wanted
                 THEN got' = [got EXCEPT ![p] = {}] /\ Goto(p, to)
                 ELSE got' = [got EXCEPT ![p] = now] /\ UNCHANGED pc
    BY <1>1 DEF Collects, Collect
  <2>2. pc[p] = from /\ Remote(p) \in Peer /\ Remote(p) # p
    BY <1>1, PeerFacts DEF Collects, At
  <2> DEFINE now == IF code \in wanted THEN got[p] \union {code} ELSE got[p]
  <2>3. now = got[p] \union ({code} \intersect wanted)
    OBVIOUS
  <2>4. CASE now = wanted
    <3>1. got' = [got EXCEPT ![p] = {}] /\ pc' = [pc EXCEPT ![p] = to]
      BY <2>1, <2>4 DEF Goto
    <3>2. pc'[p] = to /\ got'[p] = {} /\ got'[Remote(p)] = got[Remote(p)]
      BY <2>2, <3>1 DEF TypeOK
    <3>3. wanted \subseteq got[p] \union {code}
      BY <2>3, <2>4
    <3> QED BY <1>1, <2>1, <2>2, <3>2, <3>3
  <2>5. CASE now # wanted
    <3>1. got' = [got EXCEPT ![p] = now] /\ pc' = pc
      BY <2>1, <2>5
    <3>2. got'[p] = now /\ got'[Remote(p)] = got[Remote(p)]
      BY <2>2, <3>1 DEF TypeOK
    <3> QED BY <2>1, <2>2, <2>3, <2>5, <3>1, <3>2
  <2> QED BY <2>4, <2>5
<1>2. ASSUME NEW from \in Step, NEW code \in Code, NEW to, Awaits(p, from, code, to)
      PROVE  \E c \in Code :
               /\ Receive(p, c) /\ pc[p] = from /\ got' = got /\ ret' = ret
               /\ \/ pc' = pc /\ c # code
                  \/ pc'[p] = to /\ c = code
  BY <1>2 DEF Awaits, WaitFor, At, Goto, TypeOK
<1>3. UNCHANGED <<up, open, lost>>
  BY DEF Hears
<1>4. {"waitprepare", "waitforprepare", "waitcleanup", "waitout0", "waitack0"} \subseteq Step
  BY DEF Step, Closing
<1>5. CASE Collects(p, "waitprepare", OK, "prepare")
  <2>1. PICK code \in Code :
          /\ Receive(p, code) /\ pc[p] = "waitprepare"
          /\ got'[Remote(p)] = got[Remote(p)] /\ got'[p] \subseteq got[p] \union {code}
          /\ pc' = pc \/ (pc'[p] = "prepare" /\ OK \subseteq got[p] \union {code})
          /\ pc'[p] = "waitprepare" =>
               /\ got'[p] = got[p] \union ({code} \intersect OK) /\ got'[p] # OK
    BY <1>1, <1>3, <1>4, <1>5
  <2>2. ret'[p] \in {ret[p], "ok"}
    BY <1>5 DEF Collects, Return, TypeOK
  <2> QED BY <1>3, <2>1, <2>2, ReceiveFacts
<1>6. CASE Collects(p, "waitcleanup", OUT, "rpecleanup")
  <2>1. PICK code \in Code :
          /\ Receive(p, code) /\ pc[p] = "waitcleanup"
          /\ got'[Remote(p)] = got[Remote(p)] /\ got'[p] \subseteq got[p] \union {code}
          /\ pc' = pc \/ (pc'[p] = "rpecleanup" /\ OUT \subseteq got[p] \union {code})
    BY <1>1, <1>3, <1>4, <1>6
  <2>2. ret'[p] \in {ret[p], "ok"}
    BY <1>6 DEF Collects, Return, TypeOK
  <2> QED BY <1>3, <2>1, <2>2, ReceiveFacts
<1>7. CASE Awaits(p, "waitforprepare", "PREPARE", "running")
  <2>1. PICK code \in Code :
          /\ Receive(p, code) /\ pc[p] = "waitforprepare" /\ got' = got /\ ret' = ret
          /\ (pc' = pc /\ code # "PREPARE") \/ (pc'[p] = "running" /\ code = "PREPARE")
    BY <1>2, <1>4, <1>7, Singles
  <2> QED BY <1>3, <2>1, ReceiveFacts
<1>8. CASE Awaits(p, "waitout0", "OUT0", "ack0")
  <2>1. PICK code \in Code :
          /\ Receive(p, code) /\ pc[p] = "waitout0" /\ got' = got /\ ret' = ret
          /\ pc' = pc \/ (pc'[p] = "ack0" /\ code = "OUT0")
    BY <1>2, <1>4, <1>8, Singles
  <2> QED BY <1>3, <2>1, ReceiveFacts
<1>9. CASE Awaits(p, "waitack0", "ACK0", "close")
  <2>1. PICK code \in Code :
          /\ Receive(p, code) /\ pc[p] = "waitack0" /\ got' = got /\ ret' = ret
          /\ pc' = pc \/ (pc'[p] = "close" /\ code = "ACK0")
    BY <1>2, <1>4, <1>9, Singles
  <2> QED BY <1>3, <2>1, ReceiveFacts
<1> QED BY <1>5, <1>6, <1>7, <1>8, <1>9 DEF Hears

\* What a step that receives notes of the code.
LEMMA NoteFacts ==
    ASSUME TypeOK, NEW p \in Peer, Hears(p)
    PROVE  \E code \in Code :
             /\ Receive(p, code)
             /\ \/ /\ pc[p] = "waitprepare" /\ pc'[p] = "waitprepare"
                   /\ got'[p] = got[p] \union ({code} \intersect OK)
                \/ /\ pc[p] = "waitprepare" /\ pc'[p] = "prepare"
                   /\ OK \subseteq got[p] \union {code} /\ got'[p] = {}
                \/ /\ pc[p] = "waitcleanup" /\ pc'[p] = "waitcleanup"
                   /\ got'[p] = got[p] \union ({code} \intersect OUT)
                \/ /\ pc[p] = "waitcleanup" /\ pc'[p] = "rpecleanup"
                   /\ OUT \subseteq got[p] \union {code}
                \/ /\ pc[p] = "waitforprepare" /\ pc'[p] \in {"waitforprepare", "running"}
                   /\ got'[p] = got[p]
                \/ pc[p] = "waitout0" /\ pc'[p] \in {"waitout0", "ack0"}
                \/ pc[p] = "waitack0" /\ pc'[p] \in {"waitack0", "close"}
<1>1. ASSUME NEW from \in Step, NEW wanted, NEW to, Collects(p, from, wanted, to)
      PROVE  \E code \in Code :
               /\ Receive(p, code) /\ pc[p] = from
               /\ \/ /\ pc'[p] = from
                     /\ got'[p] = got[p] \union ({code} \intersect wanted)
                  \/ pc'[p] = to /\ wanted \subseteq got[p] \union {code} /\ got'[p] = {}
  <2>1. PICK code \in Code :
          /\ Receive(p, code) /\ pc[p] = from
          /\ LET now == IF code \in wanted THEN got[p] \union {code} ELSE got[p]
             IN  IF now = wanted
                 THEN got' = [got EXCEPT ![p] = {}] /\ Goto(p, to)
                 ELSE got' = [got EXCEPT ![p] = now] /\ UNCHANGED pc
    BY <1>1 DEF Collects, Collect, At
  <2> DEFINE now == IF code \in wanted THEN got[p] \union {code} ELSE got[p]
  <2>2. now = got[p] \union ({code} \intersect wanted)
    OBVIOUS
  <2>3. CASE now = wanted
    <3>1. got' = [got EXCEPT ![p] = {}] /\ pc' = [pc EXCEPT ![p] = to]
      BY <2>1, <2>3 DEF Goto
    <3>2. pc'[p] = to /\ got'[p] = {}
      BY <3>1 DEF TypeOK
    <3> QED BY <2>1, <2>2, <2>3, <3>2
  <2>4. CASE now # wanted
    <3>1. got' = [got EXCEPT ![p] = now] /\ pc' = pc
      BY <2>1, <2>4
    <3>2. got'[p] = now
      BY <3>1 DEF TypeOK
    <3> QED BY <2>1, <2>2, <3>1, <3>2
  <2> QED BY <2>3, <2>4
<1>2. ASSUME NEW from \in Step, NEW wanted, NEW to, Awaits(p, from, wanted, to)
      PROVE  \E code \in Code :
               /\ Receive(p, code) /\ pc[p] = from /\ pc'[p] \in {from, to}
               /\ got'[p] = got[p]
  BY <1>2 DEF Awaits, WaitFor, At, Goto, TypeOK
<1>3. {"waitprepare", "waitforprepare", "waitcleanup", "waitout0", "waitack0"} \subseteq Step
  BY DEF Step, Closing
<1>4. CASE Collects(p, "waitprepare", OK, "prepare")
  BY <1>1, <1>3, <1>4
<1>5. CASE Collects(p, "waitcleanup", OUT, "rpecleanup")
  BY <1>1, <1>3, <1>5
<1>6. CASE Awaits(p, "waitforprepare", "PREPARE", "running")
  BY <1>2, <1>3, <1>6
<1>7. CASE Awaits(p, "waitout0", "OUT0", "ack0")
  BY <1>2, <1>3, <1>7
<1>8. CASE Awaits(p, "waitack0", "ACK0", "close")
  BY <1>2, <1>3, <1>8
<1> QED BY <1>4, <1>5, <1>6, <1>7, <1>8 DEF Hears

-----------------------------------------------------------------------------
(***************************************************************************)
(* The types, and the remote peer's own state, which no step touches.      *)
(***************************************************************************)
LEMMA OwnKept ==
    ASSUME TypeOK, NEW p \in Peer, Steps(p)
    PROVE  /\ pc' \in [Peer -> Step] /\ up' \in [Peer -> SUBSET Resource]
           /\ open' \in [Peer -> BOOLEAN] /\ got' \in [Peer -> SUBSET (OK \union OUT)]
           /\ ret' \in [Peer -> {"none", "ok", "error"}]
           /\ pc'[Remote(p)] = pc[Remote(p)] /\ up'[Remote(p)] = up[Remote(p)]
           /\ open'[Remote(p)] = open[Remote(p)] /\ got'[Remote(p)] = got[Remote(p)]
           /\ ret'[Remote(p)] = ret[Remote(p)]
<1>1. Remote(p) \in Peer /\ Remote(p) # p
  BY PeerFacts
<1>2. /\ "syncbuf" \in Step /\ "syncbox" \in Step /\ "attach" \in Step
      /\ "giveup" \in Step /\ "ntf" \in Step /\ "msgq" \in Step
      /\ "msgqattach" \in Step /\ "rpe" \in Step /\ "rpeopen" \in Step
      /\ "waitprepare" \in Step /\ "prepare" \in Step /\ "waitforprepare" \in Step
      /\ "running" \in Step /\ "out" \in Step /\ "waitcleanup" \in Step
      /\ "rpecleanup" \in Step /\ "msgqcleanup" \in Step /\ "slkcleanup" \in Step
      /\ "returned" \in Step /\ "out0" \in Step /\ "waitout0" \in Step
      /\ "ack0" \in Step /\ "waitack0" \in Step /\ "close" \in Step
  BY DEF Step, Closing
<1>3. /\ "slk" \in Resource /\ "syncbuf" \in Resource /\ "rpe" \in Resource
      /\ "msgq" \in Resource /\ "msgbuf" \in Resource
  BY DEF Resource
<1> USE <1>1, <1>2, <1>3 DEF TypeOK, Acquire, Release, Return, Goto
<1>4. CASE SlkPrepare(p)
  <2>1. pc' \in [Peer -> Step] /\ pc'[Remote(p)] = pc[Remote(p)]
    BY <1>4 DEF SlkPrepare
  <2>2. up' \in [Peer -> SUBSET Resource] /\ up'[Remote(p)] = up[Remote(p)]
    <3>1. up[p] \union {"slk"} \in SUBSET Resource
      OBVIOUS
    <3>2. up' = up \/ up' = [up EXCEPT ![p] = up[p] \union {"slk"}]
      BY <1>4 DEF SlkPrepare
    <3> QED BY <3>1, <3>2
  <2>3. open' \in [Peer -> BOOLEAN] /\ open'[Remote(p)] = open[Remote(p)]
    BY <1>4 DEF SlkPrepare
  <2>4. got' \in [Peer -> SUBSET (OK \union OUT)] /\ got'[Remote(p)] = got[Remote(p)]
    BY <1>4 DEF SlkPrepare
  <2>5. ret' \in [Peer -> {"none", "ok", "error"}] /\ ret'[Remote(p)] = ret[Remote(p)]
    BY <1>4 DEF SlkPrepare
  <2> QED BY <2>1, <2>2, <2>3, <2>4, <2>5
<1>5. CASE SyncBufInit(p)
  <2>1. pc' \in [Peer -> Step] /\ pc'[Remote(p)] = pc[Remote(p)]
    BY <1>5, ZenonT(40) DEF SyncBufInit
  <2>2. up' \in [Peer -> SUBSET Resource] /\ up'[Remote(p)] = up[Remote(p)]
    <3>1. up[p] \union {"syncbuf"} \in SUBSET Resource
      OBVIOUS
    <3>2. up' = up \/ up' = [up EXCEPT ![p] = up[p] \union {"syncbuf"}]
      BY <1>5 DEF SyncBufInit
    <3> QED BY <3>1, <3>2
  <2>3. open' \in [Peer -> BOOLEAN] /\ open'[Remote(p)] = open[Remote(p)]
    BY <1>5 DEF SyncBufInit
  <2>4. got' \in [Peer -> SUBSET (OK \union OUT)] /\ got'[Remote(p)] = got[Remote(p)]
    BY <1>5 DEF SyncBufInit
  <2>5. ret' \in [Peer -> {"none", "ok", "error"}] /\ ret'[Remote(p)] = ret[Remote(p)]
    BY <1>5 DEF SyncBufInit
  <2> QED BY <2>1, <2>2, <2>3, <2>4, <2>5
<1>6. CASE SyncBoxCreate(p)
  <2>1. pc' \in [Peer -> Step] /\ pc'[Remote(p)] = pc[Remote(p)]
    BY <1>6 DEF SyncBoxCreate
  <2>2. up' \in [Peer -> SUBSET Resource] /\ up'[Remote(p)] = up[Remote(p)]
    BY <1>6 DEF SyncBoxCreate
  <2>3. open' \in [Peer -> BOOLEAN] /\ open'[Remote(p)] = open[Remote(p)]
    BY <1>6 DEF SyncBoxCreate
  <2>4. got' \in [Peer -> SUBSET (OK \union OUT)] /\ got'[Remote(p)] = got[Remote(p)]
    BY <1>6 DEF SyncBoxCreate
  <2>5. ret' \in [Peer -> {"none", "ok", "error"}] /\ ret'[Remote(p)] = ret[Remote(p)]
    BY <1>6 DEF SyncBoxCreate
  <2> QED BY <2>1, <2>2, <2>3, <2>4, <2>5
<1>7. CASE SyncAttach(p)
  <2>1. pc' \in [Peer -> Step] /\ pc'[Remote(p)] = pc[Remote(p)]
    BY <1>7 DEF SyncAttach
  <2>2. up' \in [Peer -> SUBSET Resource] /\ up'[Remote(p)] = up[Remote(p)]
    BY <1>7 DEF SyncAttach
  <2>3. open' \in [Peer -> BOOLEAN] /\ open'[Remote(p)] = open[Remote(p)]
    BY <1>7 DEF SyncAttach
  <2>4. got' \in [Peer -> SUBSET (OK \union OUT)] /\ got'[Remote(p)] = got[Remote(p)]
    BY <1>7 DEF SyncAttach
  <2>5. ret' \in [Peer -> {"none", "ok", "error"}] /\ ret'[Remote(p)] = ret[Remote(p)]
    BY <1>7 DEF SyncAttach
  <2> QED BY <2>1, <2>2, <2>3, <2>4, <2>5
<1>8. CASE SyncGiveUp(p)
  BY <1>8 DEF SyncGiveUp
<1>9. CASE NotifierPrepare(p)
  BY <1>9 DEF NotifierPrepare
<1>10. CASE MsgqCreate(p)
  BY <1>10 DEF MsgqCreate
<1>11. CASE MsgqAttach(p)
  <2>1. pc' \in [Peer -> Step] /\ pc'[Remote(p)] = pc[Remote(p)]
    BY <1>11, ZenonT(40) DEF MsgqAttach
  <2>2. up' \in [Peer -> SUBSET Resource] /\ up'[Remote(p)] = up[Remote(p)]
    BY <1>11, ZenonT(40) DEF MsgqAttach
  <2>3. open' \in [Peer -> BOOLEAN] /\ open'[Remote(p)] = open[Remote(p)]
    BY <1>11 DEF MsgqAttach
  <2>4. got' \in [Peer -> SUBSET (OK \union OUT)] /\ got'[Remote(p)] = got[Remote(p)]
    BY <1>11 DEF MsgqAttach
  <2>5. ret' \in [Peer -> {"none", "ok", "error"}] /\ ret'[Remote(p)] = ret[Remote(p)]
    BY <1>11 DEF MsgqAttach
  <2> QED BY <2>1, <2>2, <2>3, <2>4, <2>5
<1>12. CASE RpeOpenWriter(p)
  BY <1>12 DEF RpeOpenWriter
<1>13. CASE RpeOpenReader(p)
  <2>1. pc' \in [Peer -> Step] /\ pc'[Remote(p)] = pc[Remote(p)]
    BY <1>13, ZenonT(40) DEF RpeOpenReader
  <2>2. up' \in [Peer -> SUBSET Resource] /\ up'[Remote(p)] = up[Remote(p)]
    BY <1>13, ZenonT(40) DEF RpeOpenReader
  <2>3. open' \in [Peer -> BOOLEAN] /\ open'[Remote(p)] = open[Remote(p)]
    BY <1>13 DEF RpeOpenReader
  <2>4. got' \in [Peer -> SUBSET (OK \union OUT)] /\ got'[Remote(p)] = got[Remote(p)]
    BY <1>13 DEF RpeOpenReader
  <2>5. ret' \in [Peer -> {"none", "ok", "error"}] /\ ret'[Remote(p)] = ret[Remote(p)]
    BY <1>13 DEF RpeOpenReader
  <2> QED BY <2>1, <2>2, <2>3, <2>4, <2>5
<1>14. CASE SendPrepare(p)
  BY <1>14 DEF SendPrepare
<1>15. CASE Leave(p)
  BY <1>15 DEF Leave
<1>16. CASE SendOut(p)
  BY <1>16 DEF SendOut
<1>17. CASE SendOut0(p)
  BY <1>17 DEF SendOut0
<1>18. CASE SendAck0(p)
  BY <1>18 DEF SendAck0
<1>19. CASE WaitPrepare(p)
  <2>1. pc' \in [Peer -> Step] /\ pc'[Remote(p)] = pc[Remote(p)]
    <3>1. \/ pc' = pc
          \/ pc' = [pc EXCEPT ![p] = "prepare"]
          \/ pc' = [pc EXCEPT ![p] = "returned"]
      BY <1>19 DEF WaitPrepare, Collect
    <3> QED BY <3>1
  <2>2. up' \in [Peer -> SUBSET Resource] /\ up'[Remote(p)] = up[Remote(p)]
    BY <1>19 DEF WaitPrepare, Collect
  <2>3. open' \in [Peer -> BOOLEAN] /\ open'[Remote(p)] = open[Remote(p)]
    BY <1>19 DEF WaitPrepare, Collect
  <2>4. got' \in [Peer -> SUBSET (OK \union OUT)] /\ got'[Remote(p)] = got[Remote(p)]
    <3>1. CASE Collect(p, OK, "prepare")
      <4>1. PICK code : LET now == IF code \in OK THEN got[p] \union {code} ELSE got[p]
                        IN  got' = [got EXCEPT ![p] = {}] \/ got' = [got EXCEPT ![p] = now]
        BY <3>1 DEF Collect
      <4>2. {} \in SUBSET (OK \union OUT)
            /\ (code \in OK => got[p] \union {code} \in SUBSET (OK \union OUT))
        OBVIOUS
      <4> QED BY <4>1, <4>2
    <3>2. CASE got' = got
      BY <3>2
    <3> QED BY <1>19, <3>1, <3>2 DEF WaitPrepare
  <2>5. ret' \in [Peer -> {"none", "ok", "error"}] /\ ret'[Remote(p)] = ret[Remote(p)]
    BY <1>19 DEF WaitPrepare, Collect
  <2> QED BY <2>1, <2>2, <2>3, <2>4, <2>5
<1>20. CASE WaitCleanup(p)
  <2>1. pc' \in [Peer -> Step] /\ pc'[Remote(p)] = pc[Remote(p)]
    <3>1. \/ pc' = pc
          \/ pc' = [pc EXCEPT ![p] = "rpecleanup"]
          \/ pc' = [pc EXCEPT ![p] = "returned"]
      BY <1>20 DEF WaitCleanup, Collect
    <3> QED BY <3>1
  <2>2. up' \in [Peer -> SUBSET Resource] /\ up'[Remote(p)] = up[Remote(p)]
    BY <1>20 DEF WaitCleanup, Collect
  <2>3. open' \in [Peer -> BOOLEAN] /\ open'[Remote(p)] = open[Remote(p)]
    BY <1>20 DEF WaitCleanup, Collect
  <2>4. got' \in [Peer -> SUBSET (OK \union OUT)] /\ got'[Remote(p)] = got[Remote(p)]
    <3>1. CASE Collect(p, OUT, "rpecleanup")
      <4>1. PICK code : LET now == IF code \in OUT THEN got[p] \union {code} ELSE got[p]
                        IN  got' = [got EXCEPT ![p] = {}] \/ got' = [got EXCEPT ![p] = now]
        BY <3>1 DEF Collect
      <4>2. {} \in SUBSET (OK \union OUT)
            /\ (code \in OUT => got[p] \union {code} \in SUBSET (OK \union OUT))
        OBVIOUS
      <4> QED BY <4>1, <4>2
    <3>2. CASE got' = got
      BY <3>2
    <3> QED BY <1>20, <3>1, <3>2 DEF WaitCleanup
  <2>5. ret' \in [Peer -> {"none", "ok", "error"}] /\ ret'[Remote(p)] = ret[Remote(p)]
    BY <1>20 DEF WaitCleanup, Collect
  <2> QED BY <2>1, <2>2, <2>3, <2>4, <2>5
<1>21. CASE WaitForPrepare(p)
  BY <1>21 DEF WaitForPrepare, WaitFor
<1>22. CASE WaitOut0(p)
  BY <1>22 DEF WaitOut0, WaitFor
<1>23. CASE WaitAck0(p)
  BY <1>23 DEF WaitAck0, WaitFor
<1>24. CASE RpeCleanup(p)
  BY <1>24 DEF RpeCleanup
<1>25. CASE MsgqCleanup(p)
  BY <1>25 DEF MsgqCleanup
<1>26. CASE SyncClose(p)
  BY <1>26 DEF SyncClose
<1>27. CASE SlkCleanup(p)
  BY <1>27 DEF SlkCleanup
<1> QED BY <1>4, <1>5, <1>6, <1>7, <1>8, <1>9, <1>10, <1>11, <1>12, <1>13, <1>14, <1>15,
             <1>16, <1>17, <1>18, <1>19, <1>20, <1>21, <1>22, <1>23, <1>24, <1>25, <1>26,
             <1>27
        DEF Steps, Prepare, Cleanup

LEMMA TypeKept ==
    ASSUME TypeOK, NEW p \in Peer, Steps(p)
    PROVE  TypeOK'
<1>1. box' \in [Peer -> Seq(Code)] /\ lost' \in [Peer -> SUBSET Code]
  <2>1. CASE Quiet(p)
    BY <2>1 DEF Quiet, TypeOK
  <2>2. CASE Talks(p)
    BY <2>2, TalkFacts
  <2>3. CASE Hears(p)
    BY <2>3, HearFacts DEF TypeOK
  <2> QED BY <2>1, <2>2, <2>3, Kinds
<1> QED BY <1>1, OwnKept DEF TypeOK
-----------------------------------------------------------------------------
(***************************************************************************)
(* The parts of the invariant, kept by every step.                         *)
(***************************************************************************)

\* After an error nothing else is returned.
LEMMA ErrorsKept ==
    ASSUME TypeOK, NEW p \in Peer, Steps(p),
           Errors(p),
           Errors(Remote(p))
    PROVE  Errors(p)' /\ Errors(Remote(p))'
<1>1. /\ Remote(p) \in Peer /\ Remote(p) # p /\ Remote(Remote(p)) = p
      /\ pc[p] \in Step /\ pc[Remote(p)] \in Step
  BY PeerFacts DEF TypeOK
<1> USE <1>1, OwnKept DEF Errors, Unattached, Early, Silent, Talking, Leaving, Joined,
         Closing, Step
<1>2. CASE Quiet(p)
  <2>1. Errors(p)'
    BY <1>2, QuietFacts DEF Quiet, Moves
  <2>2. Errors(Remote(p))'
    BY <1>2, QuietFacts DEF Quiet, Moves
  <2> QED BY <2>1, <2>2
<1>3. CASE Talks(p)
  <2>1. Errors(p)'
    BY <1>3, TalkFacts DEF Adds
  <2>2. Errors(Remote(p))'
    BY <1>3, TalkFacts DEF Adds
  <2> QED BY <2>1, <2>2
<1>4. CASE Hears(p)
  <2>1. Errors(p)'
    BY <1>4, HearFacts
  <2>2. Errors(Remote(p))'
    BY <1>4, HearFacts
  <2> QED BY <2>1, <2>2
<1> QED BY <1>2, <1>3, <1>4, Kinds

\* Nothing reaches a box that does not exist yet.
LEMMA BoxesKept ==
    ASSUME TypeOK, NEW p \in Peer, Steps(p),
           Errors(p), Boxes(p), Attached(p),
           Errors(Remote(p)), Boxes(Remote(p)), Attached(Remote(p))
    PROVE  Boxes(p)' /\ Boxes(Remote(p))'
<1>1. /\ Remote(p) \in Peer /\ Remote(p) # p /\ Remote(Remote(p)) = p
      /\ pc[p] \in Step /\ pc[Remote(p)] \in Step
  BY PeerFacts DEF TypeOK
<1> USE <1>1, OwnKept DEF Errors, Boxes, Attached, Unattached, Early, Silent, Talking,
         Leaving, Joined, Closing, Step
<1>2. CASE Quiet(p)
  <2>1. Boxes(p)'
    BY <1>2, QuietFacts DEF Quiet, Moves
  <2>2. Boxes(Remote(p))'
    BY <1>2, QuietFacts DEF Quiet, Moves
  <2> QED BY <2>1, <2>2
<1>3. CASE Talks(p)
  <2>1. Boxes(p)'
    BY <1>3, TalkFacts DEF Adds
  <2>2. Boxes(Remote(p))'
    BY <1>3, TalkFacts DEF Adds
  <2> QED BY <2>1, <2>2
<1>4. CASE Hears(p)
  <2>1. Boxes(p)'
    BY <1>4, HearFacts
  <2>2. Boxes(Remote(p))'
    BY <1>4, HearFacts
  <2> QED BY <2>1, <2>2
<1> QED BY <1>2, <1>3, <1>4, Kinds

\* A box is destroyed only when the other peer is silent, or in error.
LEMMA AttachedKept ==
    ASSUME TypeOK, NEW p \in Peer, Steps(p),
           Errors(p), Boxes(p), Attached(p), LastWord(p),
           Errors(Remote(p)), Boxes(Remote(p)), Attached(Remote(p)), LastWord(Remote(p))
    PROVE  Attached(p)' /\ Attached(Remote(p))'
<1>1. /\ Remote(p) \in Peer /\ Remote(p) # p /\ Remote(Remote(p)) = p
      /\ pc[p] \in Step /\ pc[Remote(p)] \in Step
  BY PeerFacts DEF TypeOK
<1> USE <1>1, OwnKept DEF Errors, Boxes, Attached, LastWord, Unattached, Early, Silent,
         Talking, Leaving, Joined, Closing, Step
<1>2. CASE Quiet(p)
  <2>1. Attached(p)'
    BY <1>2, QuietFacts DEF Quiet, Moves
  <2>2. Attached(Remote(p))'
    BY <1>2, QuietFacts DEF Quiet, Moves
  <2> QED BY <2>1, <2>2
<1>3. CASE Talks(p)
  <2>1. Attached(p)'
    BY <1>3, TalkFacts DEF Adds
  <2>2. Attached(Remote(p))'
    BY <1>3, TalkFacts DEF Adds
  <2> QED BY <2>1, <2>2
<1>4. CASE Hears(p)
  <2>1. Attached(p)'
    BY <1>4, HearFacts
  <2>2. Attached(Remote(p))'
    BY <1>4, HearFacts
  <2> QED BY <2>1, <2>2
<1> QED BY <1>2, <1>3, <1>4, Kinds

\* Each stage adds its resource.
LEMMA HoldingKept ==
    ASSUME TypeOK, NEW p \in Peer, Steps(p),
           Holding(p),
           Holding(Remote(p))
    PROVE  Holding(p)' /\ Holding(Remote(p))'
<1>1. /\ Remote(p) \in Peer /\ Remote(p) # p /\ Remote(Remote(p)) = p
      /\ pc[p] \in Step /\ pc[Remote(p)] \in Step
  BY PeerFacts DEF TypeOK
<1> USE <1>1, OwnKept DEF Holding, Unattached, Early, Silent, Talking, Leaving, Joined,
         Closing, Step
<1>2. CASE Quiet(p)
  <2>1. Holding(p)'
    BY <1>2, QuietFacts DEF Quiet, Moves
  <2>2. Holding(Remote(p))'
    BY <1>2, QuietFacts DEF Quiet, Moves
  <2> QED BY <2>1, <2>2
<1>3. CASE Talks(p)
  <2>1. Holding(p)'
    BY <1>3, TalkFacts DEF Adds
  <2>2. Holding(Remote(p))'
    BY <1>3, TalkFacts DEF Adds
  <2> QED BY <2>1, <2>2
<1>4. CASE Hears(p)
  <2>1. Holding(p)'
    BY <1>4, HearFacts
  <2>2. Holding(Remote(p))'
    BY <1>4, HearFacts
  <2> QED BY <2>1, <2>2
<1> QED BY <1>2, <1>3, <1>4, Kinds

\* The codes of leaving are sent on leaving.
LEMMA OutSentKept ==
    ASSUME TypeOK, NEW p \in Peer, Steps(p),
           OutSent(p),
           OutSent(Remote(p))
    PROVE  OutSent(p)' /\ OutSent(Remote(p))'
<1>1. /\ Remote(p) \in Peer /\ Remote(p) # p /\ Remote(Remote(p)) = p
      /\ pc[p] \in Step /\ pc[Remote(p)] \in Step
  BY PeerFacts DEF TypeOK
<1> USE <1>1, OwnKept DEF OutSent, Unattached, Early, Silent, Talking, Leaving, Joined,
         Closing, Step, OUT
<1>2. CASE Quiet(p)
  <2>1. OutSent(p)'
    BY <1>2, QuietFacts DEF Quiet, Moves
  <2>2. OutSent(Remote(p))'
    BY <1>2, QuietFacts DEF Quiet, Moves
  <2> QED BY <2>1, <2>2
<1>3. CASE Talks(p)
  <2>1. OutSent(p)'
    BY <1>3, TalkFacts DEF Adds
  <2>2. OutSent(Remote(p))'
    BY <1>3, TalkFacts DEF Adds
  <2> QED BY <2>1, <2>2
<1>4. CASE Hears(p)
  <2>1. OutSent(p)'
    BY <1>4, HearFacts
  <2>2. OutSent(Remote(p))'
    BY <1>4, HearFacts
  <2> QED BY <2>1, <2>2
<1> QED BY <1>2, <1>3, <1>4, Kinds

\* A peer that is ready stays up until the other one has said it is out.
LEMMA PreparedKept ==
    ASSUME TypeOK, NEW p \in Peer, Steps(p),
           Boxes(p), Holding(p), OutSent(p), Prepared(p),
           Boxes(Remote(p)), Holding(Remote(p)), OutSent(Remote(p)), Prepared(Remote(p))
    PROVE  Prepared(p)' /\ Prepared(Remote(p))'
<1>1. /\ Remote(p) \in Peer /\ Remote(p) # p /\ Remote(Remote(p)) = p
      /\ pc[p] \in Step /\ pc[Remote(p)] \in Step
  BY PeerFacts DEF TypeOK
<1> USE <1>1, OwnKept DEF Boxes, Holding, OutSent, Prepared, Unattached, Early, Silent,
         Talking, Leaving, Joined, Closing, Step, Ready, Full, OUT
<1>2. CASE Quiet(p)
  <2>1. Prepared(p)'
    BY <1>2, QuietFacts, ZenonT(40) DEF Quiet, Moves
  <2>2. ASSUME "PREPARE" \in Codes(Remote(p))' \/ pc'[Remote(p)] = "running",
               pc'[Remote(p)] \notin Leaving
        PROVE  Ready(p)'
    <3>1. Ready(p)
      BY <1>2, <2>2, QuietFacts DEF Prepared
    <3> QED BY <1>2, <3>1 DEF Quiet, Moves
  <2>3. Prepared(Remote(p))'
    BY <2>2
  <2> QED BY <2>1, <2>3
<1>3. CASE Talks(p)
  <2>1. Prepared(p)'
    BY <1>3, TalkFacts DEF Adds
  <2>2. Prepared(Remote(p))'
    BY <1>3, TalkFacts DEF Adds
  <2> QED BY <2>1, <2>2
<1>4. CASE Hears(p)
  <2>1. Prepared(p)'
    BY <1>4, HearFacts
  <2>2. Prepared(Remote(p))'
    BY <1>4, HearFacts
  <2> QED BY <2>1, <2>2
<1> QED BY <1>2, <1>3, <1>4, Kinds

\* The loop ends with the third code.
LEMMA CollectedKept ==
    ASSUME TypeOK, NEW p \in Peer, Steps(p),
           Collected(p),
           Collected(Remote(p))
    PROVE  Collected(p)' /\ Collected(Remote(p))'
<1>1. /\ Remote(p) \in Peer /\ Remote(p) # p /\ Remote(Remote(p)) = p
      /\ pc[p] \in Step /\ pc[Remote(p)] \in Step
  BY PeerFacts DEF TypeOK
<1> USE <1>1, OwnKept DEF Collected, Unattached, Early, Silent, Talking, Leaving, Joined,
         Closing, Step, OK
<1>2. CASE Quiet(p)
  <2>1. Collected(p)'
    BY <1>2, QuietFacts DEF Quiet, Moves
  <2>2. Collected(Remote(p))'
    BY <1>2, QuietFacts DEF Quiet, Moves
  <2> QED BY <2>1, <2>2
<1>3. CASE Talks(p)
  <2>1. Collected(p)'
    BY <1>3, TalkFacts DEF Adds
  <2>2. Collected(Remote(p))'
    BY <1>3, TalkFacts DEF Adds
  <2> QED BY <2>1, <2>2
<1>4. CASE Hears(p)
  <2>1. Collected(p)'
    BY <1>4, HearFacts
  <2>2. Collected(Remote(p))'
    BY <1>4, HearFacts
  <2> QED BY <2>1, <2>2
<1> QED BY <1>2, <1>3, <1>4, Kinds

\* What a step that sends makes of the queue at the other peer.
LEMMA TalkAppends ==
    ASSUME TypeOK, NEW p \in Peer, Talks(p)
    PROVE  \E cs \in Seq(Code) :
             /\ open[Remote(p)] => box'[Remote(p)] = box[Remote(p)] \o cs
             /\ ~open[Remote(p)] => box'[Remote(p)] = box[Remote(p)]
             /\ "PREPARE" \in Elems(cs) => pc[p] = "prepare"
             /\ "ACK0" \in Elems(cs) => cs = <<"ACK0">>
<1>1. PICK cs \in Seq(Code) :
        /\ Send(p, cs)
        /\ "PREPARE" \in Elems(cs) => pc[p] = "prepare"
        /\ "ACK0" \in Elems(cs) => cs = <<"ACK0">>
  <2>1. \A c \in Code : <<c>> \in Seq(Code) /\ Elems(<<c>>) = {c}
    BY Singles
  <2>2. "PREPARE" \notin OUT /\ "ACK0" \notin OUT
    BY DEF OUT
  <2>3. {"NTFOK", "MSGOK", "RPEOK", "PREPARE", "OUT0", "ACK0"} \subseteq Code
    BY DEF Code, OK
  <2>4. ASSUME NEW c \in {"NTFOK", "MSGOK", "RPEOK", "OUT0"}, Send(p, <<c>>)
        PROVE  \E cs \in Seq(Code) : /\ Send(p, cs)
                                     /\ "PREPARE" \notin Elems(cs) /\ "ACK0" \notin Elems(cs)
    BY <2>1, <2>3, <2>4
  <2>5. CASE Says(p, "prepare", <<"PREPARE">>, "waitforprepare")
    BY <2>1, <2>3, <2>5 DEF Says, At
  <2>6. CASE Says(p, "ack0", <<"ACK0">>, "waitack0")
    BY <2>1, <2>3, <2>6, ZenonT(40) DEF Says
  <2>7. CASE Says(p, "out", <<"MSGOUT", "NTFOUT", "RPEOUT">>, "waitcleanup")
    BY <2>2, <2>7, Singles DEF Says
  <2>8. CASE \/ Says(p, "ntf", <<"NTFOK">>, "msgq")
             \/ Says(p, "msgqattach", <<"MSGOK">>, "rpe")
             \/ Says(p, "rpeopen", <<"RPEOK">>, "waitprepare")
             \/ Says(p, "out0", <<"OUT0">>, "waitout0")
    BY <2>4, <2>8 DEF Says
  <2> QED BY <2>5, <2>6, <2>7, <2>8 DEF Talks
<1> QED BY <1>1, SendFacts

\* A peer that creates its box hears of nothing yet: the other one has none to attach.
LEMMA NewBox ==
    ASSUME TypeOK, NEW p \in Peer, Steps(p), pc'[p] = "attach", Boxes(p), Errors(p),
           Attached(Remote(p))
    PROVE  pc[Remote(p)] \notin Talking /\ box'[p] = <<>>
<1>1. Remote(p) \in Peer /\ Remote(p) # p /\ Remote(Remote(p)) = p
  BY PeerFacts
<1>2. ~Talks(p)
  BY TalkFacts DEF Adds
<1>3. ~Hears(p)
  <2>1. CASE Hears(p)
    BY <2>1, HearFacts
  <2> QED BY <2>1
<1>4. Quiet(p) /\ pc[p] = "syncbox"
  BY <1>2, <1>3, Kinds DEF Quiet, Moves
<1>5. ~open[p] /\ box[p] = <<>> /\ ret[p] # "error"
  BY <1>4 DEF Boxes, Errors, Unattached
<1> QED BY <1>1, <1>4, <1>5, QuietFacts DEF Attached

\* Nothing follows ACK0.
LEMMA LastWordKept ==
    ASSUME TypeOK, NEW p \in Peer, Steps(p), Errors(p), LastWord(p), LastWord(Remote(p))
    PROVE  LastWord(p)' /\ LastWord(Remote(p))'
<1>1. /\ Remote(p) \in Peer /\ Remote(p) # p /\ Remote(Remote(p)) = p
      /\ pc[p] \in Step /\ pc[Remote(p)] \in Step
      /\ box[p] \in Seq(Code) /\ box[Remote(p)] \in Seq(Code)
  BY PeerFacts DEF TypeOK
<1> DEFINE Over(q) == \/ "ACK0" \in Codes(q)
                      \/ pc[q] = "close"
                      \/ pc[q] = "slkcleanup" /\ ret[q] = "ok"
<1>2. /\ Over(p) => pc[Remote(p)] \in Silent
      /\ Over(Remote(p)) => pc[p] \in Silent
      /\ OnlyLast(box[p], "ACK0") /\ OnlyLast(box[Remote(p)], "ACK0")
  BY <1>1 DEF LastWord
<1>3. ASSUME Talks(p), "ACK0" \in Codes(Remote(p))', pc'[p] # "waitack0"
      PROVE  "ACK0" \in Codes(Remote(p))
  <2> DEFINE old == Codes(Remote(p))
             new == Codes(Remote(p))'
  <2>1. \/ new = old
        \/ new = old \union {"NTFOK"} \/ new = old \union {"MSGOK"}
        \/ new = old \union {"RPEOK"} \/ new = old \union {"PREPARE"}
        \/ new = old \union OUT \/ new = old \union {"OUT0"}
    BY <1>3, TalkFacts DEF Adds
  <2> HIDE DEF old, new
  <2>2. "ACK0" \in new => "ACK0" \in old
    BY <2>1 DEF OUT
  <2> QED BY <1>3, <2>2 DEF old, new
<1>4. (Over(p) => pc[Remote(p)] \in Silent)' /\ (Over(Remote(p)) => pc[p] \in Silent)'
  <2> USE <1>1, <1>2, OwnKept DEF Errors, Silent
  <2>1. CASE Quiet(p)
    <3>1. (Over(p) => pc[Remote(p)] \in Silent)'
      BY <2>1, QuietFacts DEF Quiet, Moves
    <3>2. (Over(Remote(p)) => pc[p] \in Silent)'
      BY <2>1, QuietFacts DEF Quiet, Moves
    <3> QED BY <3>1, <3>2
  <2>2. CASE Talks(p)
    <3>1. (Over(p) => pc[Remote(p)] \in Silent)'
      BY <2>2, TalkFacts DEF Adds
    <3>2. pc[p] \notin Silent
      BY <2>2, TalkFacts DEF Adds
    <3>3. "ACK0" \in Codes(Remote(p))' => pc'[p] = "waitack0"
      BY <1>3, <2>2, <3>2
    <3>4. (Over(Remote(p)) => pc[p] \in Silent)'
      BY <2>2, <3>2, <3>3, TalkFacts
    <3> QED BY <3>1, <3>4
  <2>3. CASE Hears(p)
    <3>1. (Over(p) => pc[Remote(p)] \in Silent)'
      BY <2>3, HearFacts
    <3>2. (Over(Remote(p)) => pc[p] \in Silent)'
      BY <2>3, HearFacts
    <3> QED BY <3>1, <3>2
  <2> QED BY <2>1, <2>2, <2>3, Kinds
<1>5. OnlyLast(box[p], "ACK0")' /\ OnlyLast(box[Remote(p)], "ACK0")'
  <2>1. CASE Quiet(p)
    BY <1>1, <1>2, <2>1, QuietFacts
  <2>2. CASE Talks(p)
    <3>1. PICK cs \in Seq(Code) :
            /\ open[Remote(p)] => box'[Remote(p)] = box[Remote(p)] \o cs
            /\ ~open[Remote(p)] => box'[Remote(p)] = box[Remote(p)]
            /\ "ACK0" \in Elems(cs) => cs = <<"ACK0">>
      BY <2>2, TalkAppends
    <3>2. OnlyLast(cs, "ACK0")
      <4>1. CASE "ACK0" \in Elems(cs)
        <5>1. cs = <<"ACK0">> /\ Len(<<"ACK0">>) = 1
          BY <3>1, <4>1
        <5> QED BY <5>1 DEF OnlyLast
      <4>2. CASE "ACK0" \notin Elems(cs)
        BY <4>2 DEF OnlyLast, Elems
      <4> QED BY <4>1, <4>2
    <3>3. pc[p] \notin Silent /\ box'[p] = box[p]
      BY <2>2, TalkFacts DEF Adds, Silent
    <3>4. "ACK0" \notin Elems(box[Remote(p)])
      BY <1>2, <3>3 DEF Codes
    <3>5. OnlyLast(box[Remote(p)] \o cs, "ACK0")
      BY <1>1, <3>2, <3>4, LastAppended
    <3> QED BY <1>2, <3>1, <3>3, <3>5
  <2>3. CASE Hears(p)
    <3>1. /\ box[p] # <<>> /\ box'[p] = Tail(box[p])
          /\ box'[Remote(p)] = box[Remote(p)]
      BY <2>3, HearFacts
    <3> QED BY <1>1, <1>2, <3>1, LastTaken
  <2> QED BY <2>1, <2>2, <2>3, Kinds
<1> QED BY <1>1, <1>4, <1>5 DEF LastWord

\* The box is empty when it is destroyed, and nothing is sent to it any more.
LEMMA EmptiedKept ==
    ASSUME TypeOK, NEW p \in Peer, Steps(p), Errors(p), Attached(p), LastWord(p),
           LastWord(Remote(p)), Emptied(p), Emptied(Remote(p))
    PROVE  Emptied(p)' /\ Emptied(Remote(p))'
<1>1. /\ Remote(p) \in Peer /\ Remote(p) # p /\ Remote(Remote(p)) = p
      /\ box[p] \in Seq(Code)
  BY PeerFacts DEF TypeOK
<1> USE <1>1, OwnKept DEF Emptied
<1>2. CASE Quiet(p)
  <2>1. Emptied(p)'
    BY <1>2, QuietFacts DEF Quiet, Moves, Errors
  <2>2. Emptied(Remote(p))'
    BY <1>2, QuietFacts
  <2> QED BY <2>1, <2>2
<1>3. CASE Talks(p)
  <2>1. pc[p] \in Talking /\ pc[p] \notin Silent
    BY <1>3, TalkFacts DEF Adds, Talking, Step, Closing, Unattached, Silent
  <2>2. Emptied(p)'
    BY <1>3, TalkFacts DEF Adds
  <2>3. lost'[Remote(p)] # {} => ret[Remote(p)] = "error"
    BY <1>3, <2>1, TalkFacts DEF Attached
  <2>4. ~(pc[Remote(p)] \in {"close", "slkcleanup"} /\ ret[Remote(p)] = "ok")
    BY <2>1 DEF LastWord
  <2> QED BY <2>2, <2>3, <2>4
<1>4. CASE Hears(p)
  <2>1. PICK code \in Code :
          /\ UNCHANGED lost
          /\ box[p] # <<>> /\ code = Head(box[p]) /\ box'[p] = Tail(box[p])
          /\ box'[Remote(p)] = box[Remote(p)]
          /\ pc[p] \in {"waitprepare", "waitforprepare", "waitcleanup", "waitout0",
                        "waitack0"}
          /\ pc'[p] \in {"close", "slkcleanup"} => code = "ACK0"
          /\ ret'[p] \in {ret[p], "ok"}
    BY <1>4, HearFacts
  <2>2. ret[p] # "error"
    BY <2>1 DEF Errors
  <2>3. code = "ACK0" => Tail(box[p]) = <<>>
    BY <2>1, LastTaken DEF LastWord
  <2> QED BY <2>1, <2>2, <2>3
<1> QED BY <1>2, <1>3, <1>4, Kinds

\* The codes of a peer that came up first are kept for the other one.
LEMMA HeardKept ==
    ASSUME TypeOK, NEW p \in Peer, Steps(p), Errors(p), Boxes(p), Boxes(Remote(p)),
           Attached(Remote(p)), Heard(p), Heard(Remote(p))
    PROVE  Heard(p)' /\ Heard(Remote(p))'
<1>1. /\ Remote(p) \in Peer /\ Remote(p) # p /\ Remote(Remote(p)) = p
      /\ pc[p] \in Step /\ pc[Remote(p)] \in Step
  BY PeerFacts DEF TypeOK
<1>2. pc'[p] = "attach" => Told(Remote(p))' = {}
  BY <1>1, NewBox, OwnKept
     DEF Told, Talking, Step, Closing, Unattached, Silent
<1> USE <1>1, OwnKept DEF Heard, Early
<1>3. Told(Remote(p))' = Told(Remote(p)) /\ Told(p) \subseteq OK /\ Told(Remote(p)) \subseteq OK
  BY DEF Told, OK
<1>4. CASE Quiet(p)
  <2>1. Heard(p)'
    BY <1>2, <1>3, <1>4, QuietFacts DEF Quiet, Moves
  <2>2. Told(p)' \subseteq Told(p)
    BY <1>4 DEF Quiet, Moves, Told
  <2> QED BY <1>4, <2>1, <2>2, QuietFacts
<1>5. CASE Talks(p)
  <2>1. Heard(p)'
    BY <1>3, <1>5, TalkFacts DEF Adds
  <2>2. pc[Remote(p)] \in Early => open[Remote(p)]
    BY DEF Boxes, Talking, Step, Closing, Unattached, Silent
  <2>3. Heard(Remote(p))'
    BY <1>5, <2>2, TalkFacts DEF Adds, Told, OK
  <2> QED BY <2>1, <2>3
<1>6. CASE Hears(p)
  <2>1. Heard(p)'
    <3>1. PICK code \in Code :
            /\ Codes(p) = {code} \union Codes(p)'
            /\ pc'[p] \in Early => pc'[p] = "waitprepare" /\ pc[p] = "waitprepare"
            /\ pc'[p] = "waitprepare" => got'[p] = got[p] \union ({code} \intersect OK)
      BY <1>6, HearFacts, ZenonT(40)
    <3> QED BY <1>3, <3>1
  <2>2. Told(p)' \subseteq Told(p)
    BY <1>6, HearFacts DEF Told
  <2>3. Heard(Remote(p))'
    BY <1>6, <2>2, HearFacts
  <2> QED BY <2>1, <2>3
<1> QED BY <1>4, <1>5, <1>6, Kinds

\* PREPARE comes after them.
LEMMA InOrderKept ==
    ASSUME TypeOK, NEW p \in Peer, Steps(p), Errors(p), Boxes(p),
           Attached(Remote(p)), Heard(Remote(p)), InOrder(p), InOrder(Remote(p))
    PROVE  InOrder(p)' /\ InOrder(Remote(p))'
<1>1. /\ Remote(p) \in Peer /\ Remote(p) # p /\ Remote(Remote(p)) = p
      /\ box[p] \in Seq(Code) /\ box[Remote(p)] \in Seq(Code)
  BY PeerFacts DEF TypeOK
<1>2. ASSUME pc'[p] = "attach"
      PROVE  InOrder(p)'
  <2>1. box'[p] = <<>>
    BY <1>2, NewBox
  <2> QED BY <2>1 DEF InOrder, Preceded
<1> USE <1>1, OwnKept DEF InOrder
<1>3. CASE Quiet(p)
  <2>1. InOrder(p)'
    <3>1. pc'[p] \in Early /\ pc'[p] # "attach" => pc[p] \in Early
      BY <1>3 DEF Quiet, Moves, Early
    <3> QED BY <1>2, <1>3, <3>1, QuietFacts
  <2> QED BY <1>3, <2>1, QuietFacts
<1>4. CASE Talks(p)
  <2>1. InOrder(p)'
    <3>1. pc'[p] \in Early => pc[p] \in Early
      BY <1>4, TalkFacts DEF Adds, Early
    <3> QED BY <1>4, <3>1, TalkFacts
  <2>2. ASSUME pc[Remote(p)] \in Early
        PROVE  InOrder(Remote(p))'
    <3>1. PICK cs \in Seq(Code) :
            /\ open[Remote(p)] => box'[Remote(p)] = box[Remote(p)] \o cs
            /\ ~open[Remote(p)] => box'[Remote(p)] = box[Remote(p)]
            /\ "PREPARE" \in Elems(cs) => pc[p] = "prepare"
      BY <1>4, TalkAppends
    <3>2. pc[p] = "prepare" => OK \subseteq got[Remote(p)] \union Elems(box[Remote(p)])
      BY <2>2 DEF Heard, Told, Codes
    <3>3. Preceded(box[Remote(p)] \o cs, "PREPARE", OK, got[Remote(p)])
      BY <2>2, <3>1, <3>2, PrecededAppended
    <3> QED BY <2>2, <3>1, <3>3
  <2> QED BY <2>1, <2>2
<1>5. CASE Hears(p)
  <2>1. PICK code \in Code :
          /\ box[p] # <<>> /\ code = Head(box[p]) /\ box'[p] = Tail(box[p])
          /\ box'[Remote(p)] = box[Remote(p)]
          /\ pc'[p] \in Early => pc'[p] = "waitprepare" /\ pc[p] = "waitprepare"
          /\ pc'[p] = "waitprepare" => got'[p] = got[p] \union ({code} \intersect OK)
    BY <1>5, HearFacts, ZenonT(40) DEF Early
  <2>2. ASSUME pc'[p] \in Early
        PROVE  InOrder(p)'
    <3>1. Preceded(box[p], "PREPARE", OK, got[p])
      BY <2>1, <2>2 DEF Early
    <3> QED BY <2>1, <2>2, <3>1, PrecededTaken
  <2> QED BY <2>1, <2>2
<1> QED BY <1>3, <1>4, <1>5, Kinds

\* A PREPARE sent is not dropped by a peer still on its way to the wait for it.
LEMMA PrepareStays ==
    ASSUME TypeOK, NEW p \in Peer, Steps(p), Errors(p), Boxes(p), Boxes(Remote(p)),
           Attached(Remote(p)), Collected(p), InOrder(p),
           PrepareKept(p), PrepareKept(Remote(p))
    PROVE  PrepareKept(p)' /\ PrepareKept(Remote(p))'
<1>1. /\ Remote(p) \in Peer /\ Remote(p) # p /\ Remote(Remote(p)) = p
      /\ box[p] \in Seq(Code)
  BY PeerFacts DEF TypeOK
<1>2. pc'[p] = "attach" => pc[Remote(p)] # "waitforprepare"
  BY <1>1, NewBox DEF Talking, Step, Closing, Unattached, Silent
<1>3. box[p] # <<>> /\ Preceded(box[p], "PREPARE", OK, got[p]) /\ Head(box[p]) = "PREPARE"
        => OK \subseteq got[p]
  BY <1>1, PrecededTaken
<1> USE <1>1, OwnKept DEF PrepareKept, Early
<1>4. CASE Quiet(p)
  <2>1. PrepareKept(p)'
    BY <1>2, <1>4, QuietFacts DEF Quiet, Moves
  <2>2. PrepareKept(Remote(p))'
    BY <1>4, QuietFacts DEF Quiet, Moves
  <2> QED BY <2>1, <2>2
<1>5. CASE Talks(p)
  <2>1. PrepareKept(p)'
    BY <1>5, TalkFacts DEF Adds
  <2>2. pc[Remote(p)] \in Early \union {"prepare", "waitforprepare"} => open[Remote(p)]
    BY DEF Boxes, Talking, Step, Closing, Unattached, Silent
  <2>3. PrepareKept(Remote(p))'
    BY <1>5, <2>2, TalkFacts DEF Adds
  <2> QED BY <2>1, <2>3
<1>6. CASE Hears(p)
  <2>1. PICK code \in Code :
          /\ box[p] # <<>> /\ code = Head(box[p])
          /\ Codes(p) = {code} \union Codes(p)' /\ Codes(Remote(p))' = Codes(Remote(p))
          /\ pc'[p] \in Early => pc[p] = "waitprepare"
          /\ pc'[p] = "prepare" => pc[p] = "waitprepare"
          /\ pc'[p] = "waitforprepare" => pc[p] = "waitforprepare" /\ code # "PREPARE"
    BY <1>6, HearFacts, ZenonT(40)
  <2>2. pc[p] = "waitprepare" => code # "PREPARE"
    <3>1. ASSUME pc[p] = "waitprepare"
          PROVE  Preceded(box[p], "PREPARE", OK, got[p])
      BY <3>1 DEF InOrder
    <3>2. pc[p] = "waitprepare" /\ code = "PREPARE" => OK \subseteq got[p]
      BY <1>3, <2>1, <3>1
    <3> QED BY <3>2 DEF Collected
  <2>3. PrepareKept(p)'
    BY <2>1, <2>2
  <2>4. PrepareKept(Remote(p))'
    BY <2>1
  <2> QED BY <2>3, <2>4
<1> QED BY <1>4, <1>5, <1>6, Kinds

\* Neither the end of a collection nor the way to the next one notes a code.
LEMMA ClearedKept ==
    ASSUME TypeOK, NEW p \in Peer, Steps(p), \A q \in {p, Remote(p)} : Cleared(q)
    PROVE  Cleared(p)' /\ Cleared(Remote(p))'
<1> USE DEF Cleared
<1>1. /\ pc'[Remote(p)] = pc[Remote(p)] /\ got'[Remote(p)] = got[Remote(p)]
      /\ Cleared(p) /\ Cleared(Remote(p))
  BY OwnKept
<1>2. CASE Quiet(p)
  <2>1. Cleared(p)'
    BY <1>1, <1>2, QuietFacts DEF Quiet, Moves
  <2> QED BY <1>1, <2>1
<1>3. CASE Talks(p)
  <2>1. Cleared(p)'
    BY <1>1, <1>3, TalkFacts DEF Adds
  <2> QED BY <1>1, <2>1
<1>4. CASE Hears(p)
  <2>1. Cleared(p)'
    BY <1>4, NoteFacts
  <2> QED BY <1>1, <2>1
<1> QED BY <1>2, <1>3, <1>4, Kinds

LEMMA CreditBounds ==
    ASSUME TypeOK, NEW p \in Peer
    PROVE  Credit(p) \in 0 .. 4 /\ Len(box[p]) \in Nat
BY DEF TypeOK, Credit, Lacks

\* A step that neither sends nor receives does not lower the credit.
LEMMA CreditQuiet ==
    ASSUME NEW p \in Peer, Quiet(p), TypeOK
    PROVE  Credit(p)' >= Credit(p)
<1>1. got'[p] = got[p]
  BY QuietFacts
<1>2. CASE pc[p] \in {"waitprepare", "waitcleanup"}
  <2>1. pc'[p] = "returned"
    BY <1>2 DEF Quiet, Moves
  <2> QED BY <2>1, CreditBounds DEF Credit
<1>3. CASE pc[p] \notin {"waitprepare", "waitcleanup"}
  <2>1. pc'[p] \notin {"waitprepare", "waitcleanup"}
    BY <1>3 DEF Quiet, Moves
  <2> QED BY <1>3, <2>1 DEF Quiet, Moves, Credit
<1> QED BY <1>2, <1>3

\* Receiving a code lowers it by one at most.
LEMMA CreditHears ==
    ASSUME TypeOK, NEW p \in Peer, Hears(p)
    PROVE  Credit(p)' >= Credit(p) - 1 /\ Len(box'[p]) = Len(box[p]) - 1
<1>1. PICK code \in Code :
        /\ Receive(p, code)
        /\ \/ /\ pc[p] = "waitprepare" /\ pc'[p] = "waitprepare"
              /\ got'[p] = got[p] \union ({code} \intersect OK)
           \/ /\ pc[p] = "waitprepare" /\ pc'[p] = "prepare"
              /\ OK \subseteq got[p] \union {code}
           \/ /\ pc[p] = "waitcleanup" /\ pc'[p] = "waitcleanup"
              /\ got'[p] = got[p] \union ({code} \intersect OUT)
           \/ /\ pc[p] = "waitcleanup" /\ pc'[p] = "rpecleanup"
              /\ OUT \subseteq got[p] \union {code}
           \/ pc[p] = "waitforprepare" /\ pc'[p] \in {"waitforprepare", "running"}
           \/ pc[p] = "waitout0" /\ pc'[p] \in {"waitout0", "ack0"}
           \/ pc[p] = "waitack0" /\ pc'[p] \in {"waitack0", "close"}
  BY NoteFacts
<1>2. Len(box'[p]) = Len(box[p]) - 1
  <2>1. box[p] \in Seq(Code) /\ box[p] # <<>> /\ box'[p] = Tail(box[p])
    BY <1>1, ReceiveFacts
  <2> QED BY <2>1, Taken
<1>3. CASE pc[p] = "waitprepare" /\ pc'[p] = "waitprepare"
  BY <1>1, <1>2, <1>3 DEF Credit, Lacks
<1>4. CASE pc[p] = "waitprepare" /\ pc'[p] = "prepare"
  BY <1>1, <1>2, <1>4 DEF Credit, Lacks, OK
<1>5. CASE pc[p] = "waitcleanup" /\ pc'[p] = "waitcleanup"
  BY <1>1, <1>2, <1>5 DEF Credit, Lacks
<1>6. CASE pc[p] = "waitcleanup" /\ pc'[p] = "rpecleanup"
  BY <1>1, <1>2, <1>6 DEF Credit, Lacks, OUT
<1>7. CASE pc[p] \in {"waitforprepare", "waitout0", "waitack0"}
  BY <1>1, <1>2, <1>7 DEF Credit
<1> QED BY <1>1, <1>2, <1>3, <1>4, <1>5, <1>6, <1>7

\* Sending raises it by as much as is sent.
LEMMA CreditTalks ==
    ASSUME TypeOK, NEW p \in Peer, Talks(p), Cleared(p), Collected(p)
    PROVE  \E n \in Nat :
             /\ Credit(p)' = Credit(p) + n /\ box'[p] = box[p]
             /\ Len(box'[Remote(p)]) <= Len(box[Remote(p)]) + n
<1>1. ASSUME NEW from \in Step, NEW cs \in Seq(Code), NEW to, Says(p, from, cs, to)
      PROVE  /\ pc[p] = from /\ pc'[p] = to /\ got'[p] = got[p] /\ box'[p] = box[p]
             /\ Len(box'[Remote(p)]) <= Len(box[Remote(p)]) + Len(cs)
  <2>1. pc[p] = from /\ pc'[p] = to /\ got'[p] = got[p] /\ Send(p, cs)
    BY <1>1 DEF Says, At, Goto, TypeOK
  <2>2. /\ box'[p] = box[p] /\ Remote(p) \in Peer
        /\ \/ box'[Remote(p)] = box[Remote(p)] \o cs
           \/ box'[Remote(p)] = box[Remote(p)]
    BY <2>1, SendFacts, PeerFacts
  <2>3. box[Remote(p)] \in Seq(Code)
    BY <2>2 DEF TypeOK
  <2>4. Len(box[Remote(p)] \o cs) = Len(box[Remote(p)]) + Len(cs)
    BY <2>3
  <2>5. Len(cs) \in Nat /\ Len(box[Remote(p)]) \in Nat
    BY <2>3
  <2> QED BY <2>1, <2>2, <2>4, <2>5
<1>2. /\ {"ntf", "msgqattach", "rpeopen", "prepare", "out", "out0", "ack0"} \subseteq Step
      /\ {"NTFOK", "MSGOK", "RPEOK", "PREPARE", "OUT0", "ACK0"} \subseteq Code
  BY DEF Step, Closing, Code, OK, OUT
<1>3. ASSUME NEW from \in Step, NEW c \in Code, NEW to, Says(p, from, <<c>>, to)
      PROVE  /\ pc[p] = from /\ pc'[p] = to /\ got'[p] = got[p] /\ box'[p] = box[p]
             /\ Len(box'[Remote(p)]) <= Len(box[Remote(p)]) + 1
  <2>1. <<c>> \in Seq(Code) /\ Len(<<c>>) = 1
    BY Singles
  <2> QED BY <1>1, <1>3, <2>1
<1>4. CASE Says(p, "ntf", <<"NTFOK">>, "msgq")
  BY <1>2, <1>4, <1>3 DEF Credit
<1>5. CASE Says(p, "msgqattach", <<"MSGOK">>, "rpe")
  BY <1>2, <1>5, <1>3 DEF Credit
<1>6. CASE Says(p, "rpeopen", <<"RPEOK">>, "waitprepare")
  <2>1. got[p] = {} /\ pc[p] = "rpeopen" /\ pc'[p] = "waitprepare" /\ got'[p] = got[p]
    BY <1>2, <1>6, <1>3 DEF Collected, Early
  <2>2. Credit(p) = 2 /\ Credit(p)' = 3
    BY <2>1 DEF Credit, Lacks
  <2> QED BY <1>2, <1>6, <1>3, <2>2
<1>7. CASE Says(p, "prepare", <<"PREPARE">>, "waitforprepare")
  BY <1>2, <1>7, <1>3 DEF Credit
<1>8. CASE Says(p, "out", <<"MSGOUT", "NTFOUT", "RPEOUT">>, "waitcleanup")
  <2> DEFINE t == <<"MSGOUT", "NTFOUT", "RPEOUT">>
  <2>1. t \in Seq(Code) /\ Len(t) = 3
    BY Singles
  <2>2. /\ pc[p] = "out" /\ pc'[p] = "waitcleanup" /\ got'[p] = got[p] /\ box'[p] = box[p]
        /\ Len(box'[Remote(p)]) <= Len(box[Remote(p)]) + 3
    BY <1>1, <1>2, <1>8, <2>1
  <2>3. Credit(p) = 1 /\ Credit(p)' = 4
    BY <2>2 DEF Credit, Lacks, Cleared
  <2> QED BY <2>2, <2>3
<1>9. CASE Says(p, "out0", <<"OUT0">>, "waitout0")
  BY <1>2, <1>9, <1>3 DEF Credit
<1>10. CASE Says(p, "ack0", <<"ACK0">>, "waitack0")
  BY <1>2, <1>10, <1>3 DEF Credit
<1> QED BY <1>4, <1>5, <1>6, <1>7, <1>8, <1>9, <1>10 DEF Talks

LEMMA BalancedKept ==
    ASSUME TypeOK, TypeOK', NEW p \in Peer, Steps(p), Cleared(p), Collected(p), Balanced(p)
    PROVE  Balanced(p)' /\ Balanced(Remote(p))'
<1> DEFINE r == Remote(p)
           a == Len(box[p])
           b == Len(box[r])
           a1 == Len(box'[p])
           b1 == Len(box'[r])
           c == Credit(p)
           d == Credit(r)
           c1 == Credit(p)'
           d1 == Credit(r)'
<1>1. r \in Peer /\ r # p /\ Remote(r) = p
  BY PeerFacts
<1>2. a \in Nat /\ b \in Nat /\ c \in Nat /\ d \in Nat
  BY <1>1, CreditBounds
<1>3. a1 \in Nat /\ b1 \in Nat /\ c1 \in Nat /\ d1 \in Nat
  <2>1. \A q \in Peer : Credit(q)' \in Nat
    BY DEF TypeOK, Credit, Lacks
  <2> QED BY <1>1, <2>1 DEF TypeOK
<1>4. d1 = d
  BY OwnKept DEF Credit, Lacks
<1>5. a + b <= c + d
  BY DEF Balanced
<1>6. a1 + b1 <= c1 + d1
  <2>1. CASE Quiet(p)
    <3>1. a1 = a /\ b1 = b /\ c1 >= c
      BY <1>1, <2>1, QuietFacts, CreditQuiet
    <3> HIDE DEF a, b, a1, b1, c, d, c1, d1
    <3> QED BY <1>2, <1>3, <1>4, <1>5, <3>1
  <2>2. CASE Talks(p)
    <3>1. \E n \in Nat : c1 = c + n /\ a1 = a /\ b1 <= b + n
      BY <2>2, CreditTalks
    <3> HIDE DEF a, b, a1, b1, c, d, c1, d1
    <3> QED BY <1>2, <1>3, <1>4, <1>5, <3>1
  <2>3. CASE Hears(p)
    <3>1. a1 = a - 1 /\ b1 = b /\ c1 >= c - 1
      BY <2>3, HearFacts, CreditHears
    <3> HIDE DEF a, b, a1, b1, c, d, c1, d1
    <3> QED BY <1>2, <1>3, <1>4, <1>5, <3>1
  <2> QED BY <2>1, <2>2, <2>3, Kinds
<1>7. b1 + a1 <= d1 + c1
  <2> HIDE DEF a, b, a1, b1, c, d, c1, d1
  <2> QED BY <1>3, <1>6
<1> QED BY <1>1, <1>6, <1>7 DEF Balanced
-----------------------------------------------------------------------------
(***************************************************************************)
(* The invariant and the theorems.                                         *)
(***************************************************************************)
LEMMA InvInit == Init => IInv
<1> SUFFICES ASSUME Init PROVE IInv
  OBVIOUS
<1>1. TypeOK
  BY DEF Init, TypeOK, Step
<1>2. ASSUME NEW p \in Peer
      PROVE  /\ pc[p] = "slk" /\ pc[Remote(p)] = "slk" /\ ~open[p] /\ box[p] = <<>>
             /\ Codes(p) = {} /\ got[p] = {} /\ ret[p] = "none" /\ lost[p] = {}
  BY PeerFacts, Singles DEF Init, Codes
<1>3. ASSUME NEW p \in Peer
      PROVE  Handshake(p)
  <2> USE <1>2
  <2>1. Errors(p) /\ Boxes(p) /\ Attached(p) /\ Emptied(p) /\ Holding(p)
    BY DEF Errors, Boxes, Attached, Emptied, Holding, Talking, Step, Closing, Unattached,
           Silent, Early, Joined
  <2>2. LastWord(p)
    BY DEF LastWord, OnlyLast
  <2>3. OutSent(p) /\ Prepared(p) /\ Collected(p)
    BY DEF OutSent, Prepared, Collected, OK, Early
  <2>4. Heard(p) /\ InOrder(p) /\ PrepareKept(p)
    BY DEF Heard, InOrder, PrepareKept, Early
  <2>5. Cleared(p) /\ Balanced(p)
    BY PeerFacts DEF Cleared, Balanced, Credit, Init
  <2> QED BY <2>1, <2>2, <2>3, <2>4, <2>5 DEF Handshake
<1> QED BY <1>1, <1>3 DEF IInv

LEMMA InvStep ==
    ASSUME IInv, [Next]_vars
    PROVE  IInv'
<1>1. CASE UNCHANGED vars
  BY <1>1 DEF vars, IInv, TypeOK, Handshake, Errors, Boxes, Attached, LastWord, Emptied,
              Holding, OutSent, Prepared, Ready, Collected, Heard, Told, InOrder,
              PrepareKept, Codes, Cleared, Balanced, Credit, Lacks
<1>2. CASE Next
  <2>1. PICK p \in Peer : Steps(p)
    BY <1>2 DEF Next, Steps
  <2>2. TypeOK /\ Handshake(p) /\ Handshake(Remote(p)) /\ Remote(p) \in Peer
    BY PeerFacts DEF IInv
  <2>3. TypeOK'
    BY <2>1, <2>2, TypeKept
  <2>4. /\ Errors(p)' /\ Errors(Remote(p))' /\ Boxes(p)' /\ Boxes(Remote(p))'
        /\ Attached(p)' /\ Attached(Remote(p))' /\ LastWord(p)' /\ LastWord(Remote(p))'
        /\ Emptied(p)' /\ Emptied(Remote(p))' /\ Holding(p)' /\ Holding(Remote(p))'
    BY <2>1, <2>2, ErrorsKept, BoxesKept, AttachedKept, LastWordKept, EmptiedKept,
       HoldingKept DEF Handshake
  <2>5. /\ OutSent(p)' /\ OutSent(Remote(p))' /\ Prepared(p)' /\ Prepared(Remote(p))'
        /\ Collected(p)' /\ Collected(Remote(p))'
    BY <2>1, <2>2, OutSentKept, PreparedKept, CollectedKept DEF Handshake
  <2>6. /\ Heard(p)' /\ Heard(Remote(p))' /\ InOrder(p)' /\ InOrder(Remote(p))'
        /\ PrepareKept(p)' /\ PrepareKept(Remote(p))'
    BY <2>1, <2>2, HeardKept, InOrderKept, PrepareStays DEF Handshake
  <2>7. Cleared(p)' /\ Cleared(Remote(p))' /\ Balanced(p)' /\ Balanced(Remote(p))'
    BY <2>1, <2>2, <2>3, ClearedKept, BalancedKept DEF Handshake
  <2>8. Handshake(p)' /\ Handshake(Remote(p))'
    BY <2>4, <2>5, <2>6, <2>7 DEF Handshake
  <2>9. \A q \in Peer : Handshake(q)'
    BY <2>8, PeerFacts
  <2> QED BY <2>3, <2>9 DEF IInv
<1> QED BY <1>1, <1>2

LEMMA Invariance == Spec => []IInv
BY InvInit, InvStep, PTL DEF Spec

\* The variables of both processors keep their types.
THEOREM TypeCorrect == Spec => []TypeOK
<1>1. IInv => TypeOK
  BY DEF IInv
<1> QED BY <1>1, Invariance, PTL

\* Whichever stages fail, a peer whose application runs can rely on the other one's
\* queues and pipes: it has received the PREPARE of a peer that now waits, at least, for
\* it to say that it is out.
THEOREM RunningIsSafe == Spec => []RunningMeansRemoteUp
<1>1. ASSUME IInv
      PROVE  RunningMeansRemoteUp
  <2>1. ASSUME NEW p \in Peer, pc[p] = "running"
        PROVE  Ready(Remote(p))
    BY <1>1, <2>1 DEF IInv, Handshake, Prepared, Leaving, Closing
  <2> QED BY <2>1 DEF RunningMeansRemoteUp, Ready, Full, At
<1> QED BY <1>1, Invariance, PTL

\* No message stays in a box that sync_cleanup destroys, and none is sent to it.
THEOREM NoMessageLost == Spec => []NothingLost
<1>1. IInv => NothingLost
  BY DEF IInv, Handshake, Emptied, NothingLost
<1> QED BY <1>1, Invariance, PTL

\* Two peers that wait for each other to come up always have a message to go on with:
\* the one that still collects the three codes lacks one that was sent and is kept, and
\* of two that wait for PREPARE each has been sent it.
THEOREM PrepareGoesOn == Spec => []PrepareNeverStarves
<1>1. ASSUME IInv
      PROVE  PrepareNeverStarves
  <2>1. SUFFICES ASSUME \A p \in Peer : pc[p] \in {"waitprepare", "waitforprepare"}
                 PROVE  \E p \in Peer : box[p] # <<>>
    BY DEF PrepareNeverStarves
  <2>2. ASSUME NEW p \in Peer, Codes(p) # {}
        PROVE  box[p] # <<>>
    BY <2>2, Singles DEF Codes
  <2>3. ASSUME NEW p \in Peer, pc[p] = "waitprepare"
        PROVE  Codes(p) # {}
    <3>1. Remote(p) \in Peer
      BY PeerFacts
    <3>2. Told(Remote(p)) = OK
      BY <2>1, <3>1 DEF Told
    <3>3. got[p] \subseteq OK /\ got[p] # OK /\ OK \subseteq got[p] \union Codes(p)
      BY <1>1, <2>3, <3>2 DEF IInv, Handshake, Collected, Heard, Early
    <3> QED BY <3>3
  <2>4. ASSUME \A p \in Peer : pc[p] = "waitforprepare"
        PROVE  \A p \in Peer : "PREPARE" \in Codes(p)
    BY <1>1, <2>4, PeerFacts DEF IInv, Handshake, PrepareKept
  <2>5. \E p \in Peer : p = "ARM"
    BY DEF Peer
  <2> QED BY <2>1, <2>2, <2>3, <2>4, <2>5
<1> QED BY <1>1, Invariance, PTL

\* The messages under way never outgrow the heap: each peer has sent at most four
\* codes more than it has received, wherever it stands and whichever stages failed.
THEOREM HeapAlwaysSuffices == Spec => []HeapSuffices
<1>1. ASSUME IInv
      PROVE  HeapSuffices
  <2>1. "ARM" \in Peer /\ "DSP" \in Peer /\ Remote("ARM") = "DSP"
    BY DEF Peer, Remote
  <2>2. TypeOK /\ Balanced("ARM")
    BY <1>1, <2>1 DEF IInv, Handshake
  <2>3. /\ Credit("ARM") \in 0 .. 4 /\ Credit("DSP") \in 0 .. 4
        /\ Len(box["ARM"]) \in Nat /\ Len(box["DSP"]) \in Nat
    BY <2>1, <2>2, CreditBounds
  <2> DEFINE a == Len(box["ARM"])
             b == Len(box["DSP"])
             c == Credit("ARM")
             d == Credit("DSP")
  <2>4. a + b <= c + d
    BY <2>1, <2>2 DEF Balanced
  <2>5. a + b <= 8
    <3> HIDE DEF a, b, c, d
    <3>1. c \in 0 .. 4 /\ d \in 0 .. 4 /\ a \in Nat /\ b \in Nat
      BY <2>3 DEF a, b, c, d
    <3> QED BY <2>4, <3>1
  <2> QED BY <2>5 DEF HeapSuffices, HeapMessages
<1> QED BY <1>1, Invariance, PTL
=============================================================================
