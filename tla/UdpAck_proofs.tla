----------------------------- MODULE UdpAck_proofs ----------------------------
(***************************************************************************)
(* Proofs about UdpAck for any set of clients, any number of lines, any    *)
(* NRETRIES and any faults: the inductive invariant, from it the type      *)
(* invariant and the two properties of acknowledgements; that UdpAck       *)
(* implements UdpDelivery; and a second inductive invariant, DeliveryInv,  *)
(* on copies, numbers and order, from it the properties of delivery.       *)
(***************************************************************************)
EXTENDS UdpAck, SequenceTheorems, FiniteSetTheorems, TLAPS

-----------------------------------------------------------------------------
(* Lemmas about the queues. *)

\* Taking one element out of a queue leaves a queue that is one shorter and
\* holds the others in their order.
LEMMA RemoveAtProperties ==
  ASSUME NEW S, NEW q \in Seq(S), NEW i \in DOMAIN q
  PROVE  /\ RemoveAt(q, i) \in Seq(S)
         /\ Len(RemoveAt(q, i)) = Len(q) - 1
         /\ \A j \in 1..(Len(q) - 1) :
              RemoveAt(q, i)[j] = IF j < i THEN q[j] ELSE q[j + 1]
         /\ \A j \in DOMAIN RemoveAt(q, i) :
              \E k \in DOMAIN q : RemoveAt(q, i)[j] = q[k]
<1>0. i \in 1..Len(q) /\ Len(q) \in Nat /\ DOMAIN q = 1..Len(q)
  BY LenProperties
<1>1. \A k \in 1..Len(q) : q[k] \in S
  BY ElementOfSeq
<1> DEFINE front == SubSeq(q, 1, i - 1)
           back == SubSeq(q, i + 1, Len(q))
<1>2. /\ front \in Seq(S)
      /\ Len(front) = i - 1
      /\ \A j \in 1..(i - 1) : front[j] = q[j]
  <2>1. \A j \in 1..(i - 1) : q[j] \in S
    BY <1>0, <1>1
  <2>. HIDE DEF front
  <2>2. front \in Seq(S) /\ Len(front) = (IF 1 <= i - 1 THEN (i - 1) - 1 + 1 ELSE 0)
        /\ \A j \in 1..((i - 1) - 1 + 1) : front[j] = q[1 + j - 1]
    BY <2>1, <1>0, SubSeqProperties DEF front
  <2> QED
    BY <2>2, <1>0
<1>3. /\ back \in Seq(S)
      /\ Len(back) = Len(q) - i
      /\ \A j \in 1..(Len(q) - i) : back[j] = q[i + j]
  <2>1. \A j \in (i + 1)..Len(q) : q[j] \in S
    BY <1>0, <1>1
  <2>. HIDE DEF back
  <2>2. back \in Seq(S) /\ Len(back) = (IF i + 1 <= Len(q) THEN Len(q) - (i + 1) + 1 ELSE 0)
        /\ \A j \in 1..(Len(q) - (i + 1) + 1) : back[j] = q[(i + 1) + j - 1]
    BY <2>1, <1>0, SubSeqProperties DEF back
  <2>3. /\ Len(q) - (i + 1) + 1 = Len(q) - i
        /\ \A j \in Int : (i + 1) + j - 1 = i + j
        /\ (IF i + 1 <= Len(q) THEN Len(q) - (i + 1) + 1 ELSE 0) = Len(q) - i
    BY <1>0
  <2>4. \A j \in 1..(Len(q) - i) : back[j] = q[i + j]
    <3> TAKE j \in 1..(Len(q) - i)
    <3>1. (i + 1) + j - 1 = i + j
      BY <2>3, <1>0
    <3>2. back[j] = q[(i + 1) + j - 1]
      BY <2>2, <2>3
    <3> QED BY <3>1, <3>2
  <2> QED
    BY <2>2, <2>3, <2>4
<1> HIDE DEF front, back
<1>4. RemoveAt(q, i) = front \o back
  BY DEF RemoveAt, front, back
<1>5. /\ front \o back \in Seq(S)
      /\ Len(front \o back) = Len(q) - 1
      /\ \A j \in 1..(Len(q) - 1) :
           (front \o back)[j] = IF j <= i - 1 THEN front[j] ELSE back[j - (i - 1)]
  <2>1. /\ front \o back \in Seq(S)
        /\ Len(front \o back) = Len(front) + Len(back)
        /\ \A j \in 1..(Len(front) + Len(back)) :
             (front \o back)[j] = IF j <= Len(front) THEN front[j] ELSE back[j - Len(front)]
    BY <1>2, <1>3, ConcatProperties
  <2>2. Len(front) + Len(back) = Len(q) - 1
    BY <1>0, <1>2, <1>3
  <2> QED
    BY <2>1, <2>2, <1>2
<1>6. DOMAIN (front \o back) = 1..(Len(q) - 1)
  BY <1>5, LenProperties
<1>7. ASSUME NEW j \in 1..(Len(q) - 1)
      PROVE  (front \o back)[j] = IF j < i THEN q[j] ELSE q[j + 1]
  <2>1. CASE j <= i - 1
    <3>1. j \in 1..(i - 1) /\ j \in 1..Len(q)
      BY <1>7, <2>1, <1>0
    <3>2. (front \o back)[j] = q[j]
      BY <1>7, <3>1, <2>1, <1>2, <1>5
    <3> QED BY <2>1, <3>2, <1>0, <1>7
  <2>2. CASE j > i - 1
    <3>1. /\ j - (i - 1) \in 1..(Len(q) - i)
          /\ i + (j - (i - 1)) = j + 1
          /\ j + 1 \in 1..Len(q)
      BY <1>7, <2>2, <1>0
    <3>2. (front \o back)[j] = back[j - (i - 1)]
      BY <1>7, <2>2, <1>5, <1>0
    <3>3. back[j - (i - 1)] = q[i + (j - (i - 1))]
      BY <1>3, <3>1
    <3>4. ~ (j < i)
      BY <2>2, <1>0, <1>7
    <3> QED BY <3>1, <3>2, <3>3, <3>4
  <2>3. j <= i - 1 \/ j > i - 1
    BY <1>7, <1>0
  <2> QED BY <2>1, <2>2, <2>3
<1>8. ASSUME NEW j \in 1..(Len(q) - 1)
      PROVE  \E k \in 1..Len(q) : (front \o back)[j] = q[k]
  <2>1. j \in 1..Len(q) /\ j + 1 \in 1..Len(q)
    BY <1>0, <1>8
  <2> QED BY <1>7, <1>8, <2>1
<1> QED BY <1>0, <1>4, <1>5, <1>6, <1>7, <1>8

\* What a queue holds are line numbers.
LEMMA QueueElements ==
  ASSUME NEW q \in [Clients -> Seq(Line)], NEW c \in Clients,
         NEW i \in DOMAIN q[c]
  PROVE  q[c][i] \in Line /\ q[c][i] \in Nat
<1>1. q[c] \in Seq(Line) /\ i \in 1..Len(q[c])
  BY LenProperties
<1>2. q[c][i] \in Line
  BY <1>1, ElementOfSeq
<1> QED BY <1>2, ConstantsAssumption DEF Line

\* The queue of client c grows by one frame at its end.
LEMMA EnqueueProperties ==
  ASSUME NEW q \in [Clients -> Seq(Line)], NEW c \in Clients, NEW k \in Line
  PROVE  LET r == [q EXCEPT ![c] = Append(@, k)] IN
         /\ r \in [Clients -> Seq(Line)]
         /\ Len(r[c]) = Len(q[c]) + 1
         /\ \A d \in Clients : d # c => r[d] = q[d]
         /\ r[c][Len(q[c]) + 1] = k
         /\ \A j \in DOMAIN q[c] : j \in DOMAIN r[c] /\ r[c][j] = q[c][j]
         /\ \A j \in DOMAIN r[c] :
              r[c][j] = k \/ (j \in DOMAIN q[c] /\ r[c][j] = q[c][j])
<1> DEFINE r == [q EXCEPT ![c] = Append(@, k)]
<1>1. /\ q[c] \in Seq(Line)
      /\ r[c] = Append(q[c], k)
      /\ \A d \in Clients : d # c => r[d] = q[d]
  OBVIOUS
<1>2. /\ r[c] \in Seq(Line)
      /\ Len(r[c]) = Len(q[c]) + 1
      /\ \A j \in 1..Len(q[c]) : r[c][j] = q[c][j]
      /\ r[c][Len(q[c]) + 1] = k
  BY <1>1, AppendProperties
<1>3. /\ Len(q[c]) \in Nat
      /\ DOMAIN q[c] = 1..Len(q[c])
      /\ DOMAIN r[c] = 1..(Len(q[c]) + 1)
  BY <1>1, <1>2, LenProperties
<1>4. r \in [Clients -> Seq(Line)]
  BY <1>2
<1> HIDE DEF r
<1>5. \A j \in DOMAIN r[c] : j \in DOMAIN q[c] \/ j = Len(q[c]) + 1
  BY <1>3
<1>6. \A j \in DOMAIN q[c] : j \in DOMAIN r[c]
  BY <1>3
<1>7. /\ r \in [Clients -> Seq(Line)]
      /\ Len(r[c]) = Len(q[c]) + 1
      /\ \A d \in Clients : d # c => r[d] = q[d]
      /\ r[c][Len(q[c]) + 1] = k
      /\ \A j \in DOMAIN q[c] : j \in DOMAIN r[c] /\ r[c][j] = q[c][j]
      /\ \A j \in DOMAIN r[c] :
           r[c][j] = k \/ (j \in DOMAIN q[c] /\ r[c][j] = q[c][j])
  BY <1>1, <1>2, <1>3, <1>4, <1>5, <1>6
<1> QED BY <1>7 DEF r

\* The queue of client c loses the frame at position i.
LEMMA DequeueProperties ==
  ASSUME NEW q \in [Clients -> Seq(Line)], NEW c \in Clients,
         NEW i \in DOMAIN q[c]
  PROVE  LET r == [q EXCEPT ![c] = RemoveAt(@, i)] IN
         /\ r \in [Clients -> Seq(Line)]
         /\ Len(r[c]) = Len(q[c]) - 1
         /\ \A d \in Clients : d # c => r[d] = q[d]
         /\ \A j \in DOMAIN r[c] : \E k \in DOMAIN q[c] : r[c][j] = q[c][k]
         /\ q[c][i] \in Line
<1> DEFINE r == [q EXCEPT ![c] = RemoveAt(@, i)]
<1>1. /\ q[c] \in Seq(Line)
      /\ r[c] = RemoveAt(q[c], i)
      /\ \A d \in Clients : d # c => r[d] = q[d]
  OBVIOUS
<1>2. /\ r[c] \in Seq(Line)
      /\ Len(r[c]) = Len(q[c]) - 1
      /\ \A j \in DOMAIN r[c] : \E k \in DOMAIN q[c] : r[c][j] = q[c][k]
  BY <1>1, RemoveAtProperties
<1>3. q[c][i] \in Line
  BY <1>1, ElementOfSeq, LenProperties
<1>4. r \in [Clients -> Seq(Line)]
  BY <1>2
<1> QED BY <1>1, <1>2, <1>3, <1>4

-----------------------------------------------------------------------------
(* The inductive invariant holds initially and is preserved by each action. *)

LEMMA InitInv == Init => InductiveInv
<1> SUFFICES ASSUME Init PROVE InductiveInv
  OBVIOUS
<1>1. TypeOK
  BY ConstantsAssumption DEF Init, TypeOK, Line
<1>2. \A c \in Clients : Len(printed[c]) = 0 /\ Len(ackNet[c]) = 0
  BY DEF Init
<1>3. CreditCovered
  BY <1>2 DEF Init, CreditCovered, Completed, OwedAcks
<1>4. AcksArePrinted
  BY DEF Init, AcksArePrinted
<1> QED
  BY <1>1, <1>3, <1>4 DEF Init, InductiveInv

LEMMA OpenSocketInv ==
  ASSUME InductiveInv, NEW c \in Clients, OpenSocket(c)
  PROVE  InductiveInv'
<1>1. TypeOK /\ CreditCovered /\ AcksArePrinted
  BY DEF InductiveInv
<1>2. /\ cpc[c] = "socket"
      /\ \/ cpc' = [cpc EXCEPT ![c] = "read"]
         \/ cpc' = [cpc EXCEPT ![c] = "failed"]
      /\ UNCHANGED <<seqno, remaining, copies, faults>>
      /\ UNCHANGED <<spc, c_addr, msg, printed, dataNet, ackNet>>
  BY DEF OpenSocket, serverVars
<1>3. TypeOK'
  BY <1>1, <1>2 DEF TypeOK
<1>4. \A d \in Clients :
        cpc'[d] \in {"wait", "gaveup"} <=> cpc[d] \in {"wait", "gaveup"}
  BY <1>1, <1>2 DEF TypeOK
<1>5. CreditCovered'
  BY <1>1, <1>2, <1>4 DEF CreditCovered, Completed, OwedAcks
<1>6. AcksArePrinted'
  BY <1>1, <1>2 DEF AcksArePrinted
<1>7. \A d \in Clients : cpc'[d] = "wait" => cpc[d] = "wait"
  BY <1>1, <1>2 DEF TypeOK
<1> QED
  BY <1>2, <1>3, <1>4, <1>5, <1>6, <1>7 DEF InductiveInv

LEMMA SendDataProperties ==
  ASSUME TypeOK, NEW c \in Clients, NEW k \in Line, SendData(c, k)
  PROVE  /\ dataNet' \in [Clients -> Seq(Line)]
         /\ copies' \in [Clients -> [Line -> Nat]]
         /\ \A d \in Clients : \A i \in DOMAIN dataNet'[d] :
              \/ d = c /\ dataNet'[d][i] = k
              \/ i \in DOMAIN dataNet[d] /\ dataNet'[d][i] = dataNet[d][i]
<1>1. copies' \in [Clients -> [Line -> Nat]]
  <2>1. copies \in [Clients -> [Line -> Nat]]
    BY DEF TypeOK
  <2>2. copies' = [copies EXCEPT ![c] = [copies[c] EXCEPT ![k] = copies[c][k] + 1]]
    BY Zenon DEF SendData
  <2> QED
    BY <2>1, <2>2
<1>2. CASE dataNet' = dataNet
  BY <1>1, <1>2 DEF TypeOK
<1>3. CASE dataNet' = [dataNet EXCEPT ![c] = Append(@, k)]
  <2>1. dataNet \in [Clients -> Seq(Line)]
    BY DEF TypeOK
  <2>2. /\ dataNet' \in [Clients -> Seq(Line)]
        /\ \A d \in Clients : d # c => dataNet'[d] = dataNet[d]
        /\ \A i \in DOMAIN dataNet'[c] :
             \/ dataNet'[c][i] = k
             \/ i \in DOMAIN dataNet[c] /\ dataNet'[c][i] = dataNet[c][i]
    BY <1>3, <2>1, EnqueueProperties
  <2> QED
    BY <1>1, <2>2
<1> QED
  BY <1>2, <1>3 DEF SendData

LEMMA SendLineInv ==
  ASSUME InductiveInv, NEW c \in Clients, SendLine(c)
  PROVE  InductiveInv'
<1>1. TypeOK /\ CreditCovered /\ AcksArePrinted
  BY DEF InductiveInv
<1>2. /\ cpc \in [Clients -> {"absent", "socket", "read", "wait", "closed", "failed", "gaveup"}]
      /\ seqno \in [Clients -> 0..MaxLines]
      /\ remaining \in [Clients -> 0..NRETRIES]
      /\ NRETRIES \in Nat \ {0} /\ MaxLines \in Nat
  BY <1>1, ConstantsAssumption DEF TypeOK
<1>3. /\ cpc[c] = "read" /\ seqno[c] < MaxLines
      /\ seqno' = [seqno EXCEPT ![c] = @ + 1]
      /\ remaining' = [remaining EXCEPT ![c] = NRETRIES]
      /\ cpc' = [cpc EXCEPT ![c] = "wait"]
      /\ UNCHANGED <<spc, c_addr, msg, printed, ackNet, faults>>
  BY Zenon DEF SendLine, serverVars
<1>4. /\ dataNet' \in [Clients -> Seq(Line)]
      /\ copies' \in [Clients -> [Line -> Nat]]
      /\ \A d \in Clients : \A i \in DOMAIN dataNet'[d] :
           \/ d = c /\ dataNet'[d][i] = seqno[c] + 1
           \/ i \in DOMAIN dataNet[d] /\ dataNet'[d][i] = dataNet[d][i]
  <2>1. seqno[c] + 1 \in Line
    BY <1>2, <1>3 DEF Line
  <2>2. SendData(c, seqno[c] + 1)
    BY Zenon DEF SendLine
  <2> QED
    BY <1>1, <2>1, <2>2, SendDataProperties, Zenon
<1>5. TypeOK'
  <2>1. /\ seqno' \in [Clients -> 0..MaxLines]
        /\ remaining' \in [Clients -> 0..NRETRIES]
        /\ cpc' \in [Clients -> {"absent", "socket", "read", "wait", "closed", "failed", "gaveup"}]
    BY <1>2, <1>3
  <2> QED
    BY <1>1, <1>3, <1>4, <2>1 DEF TypeOK
<1>6. CreditCovered'
  <2>1. \A d \in Clients : Completed(d)' = Completed(d)
    BY <1>2, <1>3 DEF Completed
  <2>2. \A d \in Clients : OwedAcks(d)' = OwedAcks(d)
    BY <1>3 DEF OwedAcks
  <2> QED
    BY <1>1, <1>3, <2>1, <2>2 DEF CreditCovered
<1>7. AcksArePrinted'
  BY <1>1, <1>3 DEF AcksArePrinted
<1>8. \A d \in Clients : \A i \in DOMAIN dataNet'[d] : dataNet'[d][i] <= seqno'[d]
  <2> TAKE d \in Clients
  <2> TAKE i \in DOMAIN dataNet'[d]
  <2>1. CASE d = c /\ dataNet'[d][i] = seqno[c] + 1
    BY <2>1, <1>2, <1>3
  <2>2. CASE i \in DOMAIN dataNet[d] /\ dataNet'[d][i] = dataNet[d][i]
    <3>1. dataNet[d][i] <= seqno[d] /\ dataNet[d][i] \in Nat
      BY <1>1, <2>2, QueueElements DEF InductiveInv, TypeOK
    <3>2. seqno[d] <= seqno'[d] /\ seqno[d] \in Nat /\ seqno'[d] \in Nat
      BY <1>2, <1>3
    <3> QED BY <2>2, <3>1, <3>2
  <2> QED
    BY <1>4, <2>1, <2>2
<1>9. \A d \in Clients : /\ cpc'[d] \in {"wait", "gaveup"} => seqno'[d] > 0
                         /\ cpc'[d] = "wait" => remaining'[d] > 0
  BY <1>2, <1>3 DEF InductiveInv
<1>10. spc' \in {"print", "ack"} => msg' \in 1..seqno'[c_addr']
  BY <1>1, <1>2, <1>3 DEF InductiveInv, TypeOK
<1>11. spc' = "ack" =>
         \E j \in DOMAIN printed'[c_addr'] : printed'[c_addr'][j] = msg'
  BY <1>3 DEF InductiveInv
<1> QED
  BY <1>5, <1>6, <1>7, <1>8, <1>9, <1>10, <1>11 DEF InductiveInv

\* The terms of CreditCovered are numbers.
LEMMA CreditTypes ==
  ASSUME TypeOK, NEW d \in Clients
  PROVE  /\ Completed(d) \in Int
         /\ OwedAcks(d) \in {0, 1}
         /\ Len(ackNet[d]) \in Nat
         /\ Len(printed[d]) \in Nat
<1>1. seqno[d] \in Nat /\ ackNet[d] \in Seq(Line) /\ printed[d] \in Seq(Line)
  BY ConstantsAssumption DEF TypeOK
<1> QED
  BY <1>1, LenProperties DEF Completed, OwedAcks

\* Acks that are dropped or consumed leave the others printed.
LEMMA AcksShrink ==
  ASSUME AcksArePrinted, printed' = printed,
         \A d \in Clients : \A j \in DOMAIN ackNet'[d] :
           \E k \in DOMAIN ackNet[d] : ackNet'[d][j] = ackNet[d][k]
  PROVE  AcksArePrinted'
<1> SUFFICES ASSUME NEW d \in Clients, NEW j \in DOMAIN ackNet'[d]
             PROVE  \E l \in DOMAIN printed[d] : printed[d][l] = ackNet'[d][j]
  BY DEF AcksArePrinted
<1>1. PICK k \in DOMAIN ackNet[d] : ackNet'[d][j] = ackNet[d][k]
  OBVIOUS
<1> QED
  BY <1>1 DEF AcksArePrinted

\* Credit is never lost by dropping acks.
LEMMA CreditShrinks ==
  ASSUME TypeOK, CreditCovered, printed' = printed,
         \A d \in Clients : /\ Completed(d)' = Completed(d)
                            /\ OwedAcks(d)' = OwedAcks(d)
                            /\ Len(ackNet'[d]) \in Nat
                            /\ Len(ackNet'[d]) <= Len(ackNet[d])
  PROVE  CreditCovered'
<1> SUFFICES ASSUME NEW d \in Clients
             PROVE  Completed(d)' + Len(ackNet'[d]) + OwedAcks(d)' <= Len(printed'[d])
  BY DEF CreditCovered
<1>1. Completed(d) + Len(ackNet[d]) + OwedAcks(d) <= Len(printed[d])
  BY DEF CreditCovered
<1> QED
  BY <1>1, CreditTypes

LEMMA ResendInv ==
  ASSUME InductiveInv, NEW c \in Clients, Resend(c)
  PROVE  InductiveInv'
<1>1. TypeOK /\ CreditCovered /\ AcksArePrinted
  BY DEF InductiveInv
<1>2. /\ cpc \in [Clients -> {"absent", "socket", "read", "wait", "closed", "failed", "gaveup"}]
      /\ seqno \in [Clients -> 0..MaxLines]
      /\ remaining \in [Clients -> 0..NRETRIES]
      /\ ackNet \in [Clients -> Seq(Line)]
      /\ NRETRIES \in Nat \ {0} /\ MaxLines \in Nat
  BY <1>1, ConstantsAssumption DEF TypeOK
<1>3. /\ cpc[c] = "wait"
      /\ remaining' = [remaining EXCEPT ![c] = @ - 1]
      /\ \/ /\ remaining[c] = 1
            /\ cpc' = [cpc EXCEPT ![c] = "gaveup"]
            /\ ackNet' = [ackNet EXCEPT ![c] = << >>]
         \/ /\ remaining[c] # 1
            /\ UNCHANGED <<cpc, ackNet>>
      /\ UNCHANGED <<seqno, spc, c_addr, msg, printed, faults>>
  BY Zenon DEF Resend, serverVars
<1>4. seqno[c] \in Line /\ seqno[c] > 0 /\ remaining[c] > 0
  BY <1>2, <1>3 DEF InductiveInv, Line
<1>5. /\ dataNet' \in [Clients -> Seq(Line)]
      /\ copies' \in [Clients -> [Line -> Nat]]
      /\ \A d \in Clients : \A i \in DOMAIN dataNet'[d] :
           \/ d = c /\ dataNet'[d][i] = seqno[c]
           \/ i \in DOMAIN dataNet[d] /\ dataNet'[d][i] = dataNet[d][i]
  <2>1. SendData(c, seqno[c])
    BY Zenon DEF Resend
  <2> QED
    BY <1>1, <1>4, <2>1, SendDataProperties, Zenon
<1>6. /\ ackNet' \in [Clients -> Seq(Line)]
      /\ \A d \in Clients : ackNet'[d] = ackNet[d] \/ ackNet'[d] = << >>
  <2>1. CASE ackNet' = ackNet
    BY <2>1, <1>2
  <2>2. CASE ackNet' = [ackNet EXCEPT ![c] = << >>]
    BY <2>2, <1>2, EmptySeq
  <2> QED BY <1>3, <2>1, <2>2
<1>7. TypeOK'
  <2>1. remaining' \in [Clients -> 0..NRETRIES]
    BY <1>2, <1>3, <1>4
  <2>2. cpc' \in [Clients -> {"absent", "socket", "read", "wait", "closed", "failed", "gaveup"}]
    <3>1. cpc' = cpc \/ cpc' = [cpc EXCEPT ![c] = "gaveup"]
      BY Zenon, <1>3
    <3> QED
      BY <1>2, <3>1
  <2> QED
    BY <1>1, <1>3, <1>5, <1>6, <2>1, <2>2 DEF TypeOK
<1>8. CreditCovered'
  <2>1. \A d \in Clients : Completed(d)' = Completed(d)
    BY <1>2, <1>3 DEF Completed
  <2>2. \A d \in Clients : OwedAcks(d)' = OwedAcks(d)
    BY <1>3 DEF OwedAcks
  <2>3. \A d \in Clients : /\ Len(ackNet'[d]) \in Nat
                           /\ Len(ackNet'[d]) <= Len(ackNet[d])
    BY <1>1, <1>6, CreditTypes
  <2> QED
    BY <1>1, <1>3, <2>1, <2>2, <2>3, CreditShrinks
<1>9. AcksArePrinted'
  BY <1>1, <1>3, <1>6, AcksShrink
<1>10. \A d \in Clients : \A i \in DOMAIN dataNet'[d] : dataNet'[d][i] <= seqno'[d]
  <2> TAKE d \in Clients
  <2> TAKE i \in DOMAIN dataNet'[d]
  <2>1. CASE d = c /\ dataNet'[d][i] = seqno[c]
    BY <2>1, <1>2, <1>3
  <2>2. CASE i \in DOMAIN dataNet[d] /\ dataNet'[d][i] = dataNet[d][i]
    BY <2>2, <1>3 DEF InductiveInv
  <2> QED
    BY <1>5, <2>1, <2>2
<1>11. \A d \in Clients : /\ cpc'[d] \in {"wait", "gaveup"} => seqno'[d] > 0
                          /\ cpc'[d] = "wait" => remaining'[d] > 0
  BY <1>2, <1>3, <1>4 DEF InductiveInv
<1> QED
  BY <1>3, <1>7, <1>8, <1>9, <1>10, <1>11 DEF InductiveInv

LEMMA ReceiveAckInv ==
  ASSUME InductiveInv, NEW c \in Clients, ReceiveAck(c)
  PROVE  InductiveInv'
<1>1. TypeOK /\ CreditCovered /\ AcksArePrinted
  BY DEF InductiveInv
<1>2. PICK i \in DOMAIN ackNet[c] : ackNet' = [ackNet EXCEPT ![c] = RemoveAt(@, i)]
  BY DEF ReceiveAck, Deliverable
<1>3. /\ cpc[c] = "wait"
      /\ cpc' = [cpc EXCEPT ![c] = "read"]
      /\ UNCHANGED <<seqno, remaining, copies, spc, c_addr, msg, printed, faults>>
      /\ UNCHANGED dataNet
  BY Zenon DEF ReceiveAck, serverVars
<1>4. /\ cpc \in [Clients -> {"absent", "socket", "read", "wait", "closed", "failed", "gaveup"}]
      /\ ackNet \in [Clients -> Seq(Line)]
  BY <1>1 DEF TypeOK
<1>5. /\ ackNet' \in [Clients -> Seq(Line)]
      /\ Len(ackNet'[c]) = Len(ackNet[c]) - 1
      /\ \A d \in Clients : d # c => ackNet'[d] = ackNet[d]
      /\ \A j \in DOMAIN ackNet'[c] :
           \E k \in DOMAIN ackNet[c] : ackNet'[c][j] = ackNet[c][k]
  BY <1>2, <1>4, DequeueProperties
<1>6. cpc' \in [Clients -> {"absent", "socket", "read", "wait", "closed", "failed", "gaveup"}]
  BY <1>3, <1>4
<1>7. TypeOK'
  BY <1>1, <1>3, <1>5, <1>6 DEF TypeOK
<1>8. CreditCovered'
  <2> SUFFICES ASSUME NEW d \in Clients
               PROVE  Completed(d)' + Len(ackNet'[d]) + OwedAcks(d)' <= Len(printed'[d])
    BY DEF CreditCovered
  <2>1. Completed(d) + Len(ackNet[d]) + OwedAcks(d) <= Len(printed[d])
    BY <1>1 DEF CreditCovered
  <2>2. OwedAcks(d)' = OwedAcks(d)
    BY <1>3 DEF OwedAcks
  <2>3. CASE d = c
    <3>1. Completed(c)' = Completed(c) + 1
      <4>1. seqno[c] \in Nat
        BY <1>1, ConstantsAssumption DEF TypeOK
      <4> QED
        BY <1>3, <1>4, <4>1 DEF Completed
    <3>2. /\ Completed(c) \in Int /\ OwedAcks(c) \in Nat
          /\ Len(ackNet[c]) \in Nat /\ Len(printed[c]) \in Nat
      BY <1>1, CreditTypes
    <3>3. printed' = printed
      BY <1>3
    <3> DEFINE n == Len(ackNet[c])
               m == Len(printed[c])
               f == Completed(c)
               o == OwedAcks(c)
    <3>4. f + n + o <= m /\ n \in Nat /\ m \in Nat /\ f \in Int /\ o \in Nat
      BY <2>1, <2>3, <3>2
    <3>5. Completed(c)' + Len(ackNet'[c]) + OwedAcks(c)' = f + 1 + (n - 1) + o
      BY <1>5, <2>2, <2>3, <3>1
    <3> HIDE DEF n, f, o, m
    <3>6. f + 1 + (n - 1) + o <= m
      BY <3>4
    <3> QED
      BY <2>3, <3>3, <3>5, <3>6 DEF m
  <2>4. CASE d # c
    <3>1. Completed(d)' = Completed(d)
      BY <1>3, <1>4, <2>4 DEF Completed
    <3> QED
      BY <1>3, <1>5, <2>1, <2>2, <2>4, <3>1
  <2> QED BY <2>3, <2>4
<1>9. AcksArePrinted'
  BY <1>1, <1>3, <1>5, AcksShrink
<1>10. \A d \in Clients : cpc'[d] \in {"wait", "gaveup"} => cpc'[d] = cpc[d]
  BY <1>3, <1>4
<1> QED
  BY <1>3, <1>7, <1>8, <1>9, <1>10 DEF InductiveInv

LEMMA EndOfInputInv ==
  ASSUME InductiveInv, NEW c \in Clients, EndOfInput(c)
  PROVE  InductiveInv'
<1>1. TypeOK /\ CreditCovered /\ AcksArePrinted
  BY DEF InductiveInv
<1>2. /\ cpc \in [Clients -> {"absent", "socket", "read", "wait", "closed", "failed", "gaveup"}]
      /\ ackNet \in [Clients -> Seq(Line)]
  BY <1>1 DEF TypeOK
<1>3. /\ cpc[c] = "read"
      /\ cpc' = [cpc EXCEPT ![c] = "closed"]
      /\ ackNet' = [ackNet EXCEPT ![c] = << >>]
      /\ UNCHANGED <<seqno, remaining, copies, spc, c_addr, msg, printed, faults>>
      /\ UNCHANGED dataNet
  BY Zenon DEF EndOfInput, serverVars
<1>4. /\ cpc' \in [Clients -> {"absent", "socket", "read", "wait", "closed", "failed", "gaveup"}]
      /\ ackNet' \in [Clients -> Seq(Line)]
      /\ \A d \in Clients : ackNet'[d] = ackNet[d] \/ ackNet'[d] = << >>
      /\ \A d \in Clients : cpc'[d] \in {"wait", "gaveup"} => cpc'[d] = cpc[d]
  BY <1>2, <1>3, EmptySeq
<1>5. TypeOK'
  BY <1>1, <1>3, <1>4 DEF TypeOK
<1>6. CreditCovered'
  <2>1. \A d \in Clients : Completed(d)' = Completed(d)
    BY <1>2, <1>3 DEF Completed
  <2>2. \A d \in Clients : OwedAcks(d)' = OwedAcks(d)
    BY <1>3 DEF OwedAcks
  <2>3. \A d \in Clients : /\ Len(ackNet'[d]) \in Nat
                           /\ Len(ackNet'[d]) <= Len(ackNet[d])
    BY <1>1, <1>4, CreditTypes
  <2> QED
    BY <1>1, <1>3, <2>1, <2>2, <2>3, CreditShrinks
<1>7. AcksArePrinted'
  BY <1>1, <1>3, <1>4, AcksShrink
<1> QED
  BY <1>3, <1>4, <1>5, <1>6, <1>7 DEF InductiveInv

LEMMA BindServerInv ==
  ASSUME InductiveInv, BindServer
  PROVE  InductiveInv'
<1>1. TypeOK /\ CreditCovered /\ AcksArePrinted
  BY DEF InductiveInv
<1>2. /\ spc = "socket" /\ spc' \in {"recv", "stopped"}
      /\ UNCHANGED <<cpc, seqno, remaining, copies, c_addr, msg, printed,
                     dataNet, ackNet, faults>>
  BY Zenon DEF BindServer, clientVars
<1>3. TypeOK'
  BY <1>1, <1>2 DEF TypeOK
<1>4. CreditCovered'
  BY <1>1, <1>2 DEF CreditCovered, Completed, OwedAcks
<1>5. AcksArePrinted'
  BY <1>1, <1>2 DEF AcksArePrinted
<1> QED
  BY <1>2, <1>3, <1>4, <1>5 DEF InductiveInv

LEMMA ReceiveInv ==
  ASSUME InductiveInv, NEW c \in Clients, Receive(c)
  PROVE  InductiveInv'
<1>1. TypeOK /\ CreditCovered /\ AcksArePrinted
  BY DEF InductiveInv
<1>2. PICK i \in DOMAIN dataNet[c] :
        /\ msg' = dataNet[c][i]
        /\ dataNet' = [dataNet EXCEPT ![c] = RemoveAt(@, i)]
  BY DEF Receive, Deliverable
<1>3. /\ spc = "recv" /\ spc' = "print" /\ c_addr' = c
      /\ UNCHANGED <<cpc, seqno, remaining, copies, printed, ackNet, faults>>
  BY Zenon DEF Receive, clientVars
<1>4. dataNet \in [Clients -> Seq(Line)]
  BY <1>1 DEF TypeOK
<1>5. /\ dataNet' \in [Clients -> Seq(Line)]
      /\ \A d \in Clients : d # c => dataNet'[d] = dataNet[d]
      /\ \A j \in DOMAIN dataNet'[c] :
           \E k \in DOMAIN dataNet[c] : dataNet'[c][j] = dataNet[c][k]
      /\ msg' \in Line
  BY <1>2, <1>4, DequeueProperties
<1>6. msg' \in 1..seqno'[c_addr'] /\ msg' \in 0..MaxLines
  <2>1. msg' <= seqno[c]
    BY <1>2 DEF InductiveInv
  <2>2. seqno[c] \in Nat
    BY <1>1, ConstantsAssumption DEF TypeOK
  <2> QED
    BY <1>3, <1>5, <2>1, <2>2, ConstantsAssumption DEF Line
<1>7. TypeOK'
  BY <1>1, <1>3, <1>5, <1>6 DEF TypeOK
<1>8. CreditCovered'
  BY <1>1, <1>3 DEF CreditCovered, Completed, OwedAcks
<1>9. AcksArePrinted'
  BY <1>1, <1>3 DEF AcksArePrinted
<1>10. \A d \in Clients : \A j \in DOMAIN dataNet'[d] : dataNet'[d][j] <= seqno'[d]
  BY <1>3, <1>5 DEF InductiveInv
<1> QED
  BY <1>3, <1>6, <1>7, <1>8, <1>9, <1>10 DEF InductiveInv

LEMMA ReceiveFailsInv ==
  ASSUME InductiveInv, ReceiveFails
  PROVE  InductiveInv'
<1>1. TypeOK /\ CreditCovered /\ AcksArePrinted
  BY DEF InductiveInv
<1>2. /\ spc = "recv" /\ spc' = "stopped"
      /\ dataNet' = [c \in Clients |-> << >>]
      /\ UNCHANGED <<cpc, seqno, remaining, copies, c_addr, msg, printed, ackNet, faults>>
  BY Zenon DEF ReceiveFails, clientVars
<1>3. TypeOK'
  BY <1>1, <1>2, EmptySeq DEF TypeOK
<1>4. CreditCovered'
  BY <1>1, <1>2 DEF CreditCovered, Completed, OwedAcks
<1>5. AcksArePrinted'
  BY <1>1, <1>2 DEF AcksArePrinted
<1> QED
  BY <1>2, <1>3, <1>4, <1>5 DEF InductiveInv

LEMMA PrintLineInv ==
  ASSUME InductiveInv, PrintLine
  PROVE  InductiveInv'
<1>1. TypeOK /\ CreditCovered /\ AcksArePrinted
  BY DEF InductiveInv
<1>2. /\ spc = "print" /\ spc' = "ack"
      /\ printed' = [printed EXCEPT ![c_addr] = Append(@, msg)]
      /\ UNCHANGED <<cpc, seqno, remaining, copies, c_addr, msg, dataNet, ackNet, faults>>
  BY Zenon DEF PrintLine, clientVars
<1>3. /\ printed \in [Clients -> Seq(Line)]
      /\ c_addr \in Clients
      /\ msg \in Line
  <2>1. /\ printed \in [Clients -> Seq(Line)]
        /\ c_addr \in Clients
        /\ seqno[c_addr] \in 0..MaxLines
    BY <1>1, <1>2 DEF TypeOK
  <2>2. msg \in 1..seqno[c_addr]
    BY <1>2 DEF InductiveInv
  <2> QED
    BY <2>1, <2>2, ConstantsAssumption DEF Line
<1>4. /\ printed' \in [Clients -> Seq(Line)]
      /\ Len(printed'[c_addr]) = Len(printed[c_addr]) + 1
      /\ \A d \in Clients : d # c_addr => printed'[d] = printed[d]
      /\ Len(printed[c_addr]) + 1 \in DOMAIN printed'[c_addr]
      /\ printed'[c_addr][Len(printed[c_addr]) + 1] = msg
      /\ \A j \in DOMAIN printed[c_addr] :
           j \in DOMAIN printed'[c_addr] /\ printed'[c_addr][j] = printed[c_addr][j]
  <2>1. /\ printed' \in [Clients -> Seq(Line)]
        /\ Len(printed'[c_addr]) = Len(printed[c_addr]) + 1
        /\ \A d \in Clients : d # c_addr => printed'[d] = printed[d]
        /\ printed'[c_addr][Len(printed[c_addr]) + 1] = msg
        /\ \A j \in DOMAIN printed[c_addr] :
             j \in DOMAIN printed'[c_addr] /\ printed'[c_addr][j] = printed[c_addr][j]
    BY <1>2, <1>3, EnqueueProperties
  <2>2. Len(printed[c_addr]) + 1 \in DOMAIN printed'[c_addr]
    BY <1>3, <2>1, LenProperties
  <2> QED
    BY <2>1, <2>2
<1>5. TypeOK'
  BY <1>1, <1>2, <1>3, <1>4 DEF TypeOK
<1>6. CreditCovered'
  <2> SUFFICES ASSUME NEW d \in Clients
               PROVE  Completed(d)' + Len(ackNet'[d]) + OwedAcks(d)' <= Len(printed'[d])
    BY DEF CreditCovered
  <2>1. Completed(d) + Len(ackNet[d]) + OwedAcks(d) <= Len(printed[d])
    BY <1>1 DEF CreditCovered
  <2>2. Completed(d)' = Completed(d)
    BY <1>2 DEF Completed
  <2>3. CASE d = c_addr
    <3>1. OwedAcks(d) = 0 /\ OwedAcks(d)' = 1
      BY <1>2, <2>3 DEF OwedAcks
    <3> QED
      BY <1>1, <1>2, <1>4, <2>1, <2>2, <2>3, <3>1, CreditTypes
  <2>4. CASE d # c_addr
    <3>1. OwedAcks(d)' = OwedAcks(d)
      BY <1>2, <2>4 DEF OwedAcks
    <3> QED
      BY <1>2, <1>4, <2>1, <2>2, <2>4, <3>1
  <2> QED BY <2>3, <2>4
<1>7. AcksArePrinted'
  <2> SUFFICES ASSUME NEW d \in Clients, NEW i \in DOMAIN ackNet[d]
               PROVE  \E j \in DOMAIN printed'[d] : printed'[d][j] = ackNet[d][i]
    BY <1>2 DEF AcksArePrinted
  <2>1. PICK j \in DOMAIN printed[d] : printed[d][j] = ackNet[d][i]
    BY <1>1 DEF AcksArePrinted
  <2> QED
    BY <1>4, <2>1
<1> QED
  BY <1>2, <1>4, <1>5, <1>6, <1>7 DEF InductiveInv

LEMMA AcknowledgeInv ==
  ASSUME InductiveInv, Acknowledge
  PROVE  InductiveInv'
<1>1. TypeOK /\ CreditCovered /\ AcksArePrinted
  BY DEF InductiveInv
<1>2. /\ spc = "ack" /\ spc' = "recv" /\ c_addr' = NoClient
      /\ \/ ackNet' = [ackNet EXCEPT ![c_addr] = Append(@, msg)]
         \/ ackNet' = ackNet
      /\ UNCHANGED <<cpc, seqno, remaining, copies, msg, printed, faults>>
      /\ UNCHANGED dataNet
  BY Zenon DEF Acknowledge, SendAck, clientVars
<1>3. /\ ackNet \in [Clients -> Seq(Line)]
      /\ c_addr \in Clients
      /\ msg \in Line
  <2>1. /\ ackNet \in [Clients -> Seq(Line)]
        /\ c_addr \in Clients
        /\ seqno[c_addr] \in 0..MaxLines
    BY <1>1, <1>2 DEF TypeOK
  <2>2. msg \in 1..seqno[c_addr]
    BY <1>2 DEF InductiveInv
  <2> QED
    BY <2>1, <2>2, ConstantsAssumption DEF Line
<1>4. /\ ackNet' \in [Clients -> Seq(Line)]
      /\ Len(ackNet'[c_addr]) <= Len(ackNet[c_addr]) + 1
      /\ \A d \in Clients : d # c_addr => ackNet'[d] = ackNet[d]
      /\ \A j \in DOMAIN ackNet'[c_addr] :
           \/ ackNet'[c_addr][j] = msg
           \/ j \in DOMAIN ackNet[c_addr] /\ ackNet'[c_addr][j] = ackNet[c_addr][j]
  <2>1. CASE ackNet' = ackNet
    BY <2>1, <1>1, <1>3, CreditTypes
  <2>2. CASE ackNet' = [ackNet EXCEPT ![c_addr] = Append(@, msg)]
    <3>1. /\ ackNet' \in [Clients -> Seq(Line)]
          /\ Len(ackNet'[c_addr]) = Len(ackNet[c_addr]) + 1
          /\ \A d \in Clients : d # c_addr => ackNet'[d] = ackNet[d]
          /\ \A j \in DOMAIN ackNet'[c_addr] :
               \/ ackNet'[c_addr][j] = msg
               \/ j \in DOMAIN ackNet[c_addr] /\ ackNet'[c_addr][j] = ackNet[c_addr][j]
      BY <2>2, <1>3, EnqueueProperties
    <3> QED
      BY <3>1, <1>1, <1>3, CreditTypes
  <2> QED BY <1>2, <2>1, <2>2
<1>5. TypeOK'
  BY <1>1, <1>2, <1>4 DEF TypeOK
<1>6. CreditCovered'
  <2> SUFFICES ASSUME NEW d \in Clients
               PROVE  Completed(d)' + Len(ackNet'[d]) + OwedAcks(d)' <= Len(printed'[d])
    BY DEF CreditCovered
  <2>1. Completed(d) + Len(ackNet[d]) + OwedAcks(d) <= Len(printed[d])
    BY <1>1 DEF CreditCovered
  <2>2. Completed(d)' = Completed(d) /\ OwedAcks(d)' = 0
    BY <1>2 DEF Completed, OwedAcks
  <2>3. CASE d = c_addr
    <3>1. OwedAcks(d) = 1
      BY <1>2, <2>3 DEF OwedAcks
    <3>2. Len(ackNet'[d]) \in Nat
      BY <1>4, LenProperties
    <3> QED
      BY <1>1, <1>2, <1>4, <2>1, <2>2, <2>3, <3>1, <3>2, CreditTypes
  <2>4. CASE d # c_addr
    <3>1. OwedAcks(d) = 0
      BY <2>4 DEF OwedAcks
    <3> QED
      BY <1>2, <1>4, <2>1, <2>2, <2>4, <3>1
  <2> QED BY <2>3, <2>4
<1>7. AcksArePrinted'
  <2> SUFFICES ASSUME NEW d \in Clients, NEW i \in DOMAIN ackNet'[d]
               PROVE  \E j \in DOMAIN printed[d] : printed[d][j] = ackNet'[d][i]
    BY <1>2 DEF AcksArePrinted
  <2>1. CASE i \in DOMAIN ackNet[d] /\ ackNet'[d][i] = ackNet[d][i]
    BY <1>1, <2>1 DEF AcksArePrinted
  <2>2. CASE d = c_addr /\ ackNet'[d][i] = msg
    BY <1>2, <2>2 DEF InductiveInv
  <2> QED
    BY <1>4, <2>1, <2>2
<1> QED
  BY <1>2, <1>5, <1>6, <1>7 DEF InductiveInv

LEMMA LoseDataInv ==
  ASSUME InductiveInv, NEW c \in Clients, LoseData(c)
  PROVE  InductiveInv'
<1>1. TypeOK /\ CreditCovered /\ AcksArePrinted
  BY DEF InductiveInv
<1>2. PICK i \in DOMAIN dataNet[c] :
        dataNet' = [dataNet EXCEPT ![c] = RemoveAt(@, i)]
  BY DEF LoseData
<1>3. UNCHANGED <<cpc, seqno, remaining, copies, spc, c_addr, msg, printed, ackNet, faults>>
  BY Zenon DEF LoseData, clientVars, serverVars
<1>4. dataNet \in [Clients -> Seq(Line)]
  BY <1>1 DEF TypeOK
<1>5. /\ dataNet' \in [Clients -> Seq(Line)]
      /\ \A d \in Clients : d # c => dataNet'[d] = dataNet[d]
      /\ \A j \in DOMAIN dataNet'[c] :
           \E k \in DOMAIN dataNet[c] : dataNet'[c][j] = dataNet[c][k]
  BY <1>2, <1>4, DequeueProperties
<1>6. TypeOK'
  BY <1>1, <1>3, <1>5 DEF TypeOK
<1>7. CreditCovered'
  BY <1>1, <1>3 DEF CreditCovered, Completed, OwedAcks
<1>8. AcksArePrinted'
  BY <1>1, <1>3 DEF AcksArePrinted
<1>9. \A d \in Clients : \A j \in DOMAIN dataNet'[d] : dataNet'[d][j] <= seqno'[d]
  BY <1>3, <1>5 DEF InductiveInv
<1> QED
  BY <1>3, <1>6, <1>7, <1>8, <1>9 DEF InductiveInv

LEMMA LoseAckInv ==
  ASSUME InductiveInv, NEW c \in Clients, LoseAck(c)
  PROVE  InductiveInv'
<1>1. TypeOK /\ CreditCovered /\ AcksArePrinted
  BY DEF InductiveInv
<1>2. PICK i \in DOMAIN ackNet[c] :
        ackNet' = [ackNet EXCEPT ![c] = RemoveAt(@, i)]
  BY DEF LoseAck
<1>3. /\ UNCHANGED <<cpc, seqno, remaining, copies, spc, c_addr, msg, printed, faults>>
      /\ UNCHANGED dataNet
  BY Zenon DEF LoseAck, clientVars, serverVars
<1>4. ackNet \in [Clients -> Seq(Line)]
  BY <1>1 DEF TypeOK
<1>5. /\ ackNet' \in [Clients -> Seq(Line)]
      /\ Len(ackNet'[c]) = Len(ackNet[c]) - 1
      /\ \A d \in Clients : d # c => ackNet'[d] = ackNet[d]
      /\ \A j \in DOMAIN ackNet'[c] :
           \E k \in DOMAIN ackNet[c] : ackNet'[c][j] = ackNet[c][k]
  BY <1>2, <1>4, DequeueProperties
<1>6. TypeOK'
  BY <1>1, <1>3, <1>5 DEF TypeOK
<1>7. CreditCovered'
  <2>1. \A d \in Clients : Completed(d)' = Completed(d) /\ OwedAcks(d)' = OwedAcks(d)
    BY <1>3 DEF Completed, OwedAcks
  <2>2. \A d \in Clients : Len(ackNet'[d]) \in Nat
    BY <1>5, LenProperties
  <2>3. \A d \in Clients : Len(ackNet'[d]) <= Len(ackNet[d])
    BY <1>1, <1>5, CreditTypes
  <2> QED
    BY <1>1, <1>3, <2>1, <2>2, <2>3, CreditShrinks
<1>8. AcksArePrinted'
  BY <1>1, <1>3, <1>5, AcksShrink
<1> QED
  BY <1>3, <1>6, <1>7, <1>8 DEF InductiveInv

LEMMA NextInv == InductiveInv /\ [Next]_vars => InductiveInv'
<1> SUFFICES ASSUME InductiveInv, [Next]_vars PROVE InductiveInv'
  OBVIOUS
<1>1. ASSUME NEW c \in Clients, Client(c) PROVE InductiveInv'
  BY <1>1, OpenSocketInv, SendLineInv, ResendInv, ReceiveAckInv, EndOfInputInv, Zenon
     DEF Client
<1>2. ASSUME Server PROVE InductiveInv'
  BY <1>2, BindServerInv, ReceiveInv, PrintLineInv, AcknowledgeInv, Zenon
     DEF Server
<1>3. CASE ReceiveFails
  BY <1>3, ReceiveFailsInv
<1>4. ASSUME NEW c \in Clients, LoseData(c) \/ LoseAck(c) PROVE InductiveInv'
  BY <1>4, LoseDataInv, LoseAckInv, Zenon
<1>5. CASE UNCHANGED vars
  BY <1>5 DEF vars, clientVars, serverVars, InductiveInv, TypeOK, CreditCovered,
              Completed, OwedAcks, AcksArePrinted
<1> QED
  BY <1>1, <1>2, <1>3, <1>4, <1>5, Zenon DEF Next

-----------------------------------------------------------------------------
(* The theorems. *)

\* InductiveInv holds in every reachable state, whatever the clients, the
\* lines, NRETRIES and the faults.
THEOREM InductiveInvariant == Spec => []InductiveInv
  BY InitInv, NextInv, PTL DEF Spec

\* The variables of clients, server and network keep their types.
THEOREM TypeCorrect == Spec => []TypeOK
<1>1. InductiveInv => TypeOK
  BY DEF InductiveInv
<1> QED BY <1>1, InductiveInvariant, PTL

\* No client is credited with more acknowledgements than copies of its own
\* lines were printed.
THEOREM CreditSafe == Spec => []CreditCovered
<1>1. InductiveInv => CreditCovered
  BY DEF InductiveInv
<1> QED BY <1>1, InductiveInvariant, PTL

\* Every ack on its way to a client names a line of that client that the
\* server has printed.
THEOREM AcksSafe == Spec => []AcksArePrinted
<1>1. InductiveInv => AcksArePrinted
  BY DEF InductiveInv
<1> QED BY <1>1, InductiveInvariant, PTL

-----------------------------------------------------------------------------
(* UdpAck implements UdpDelivery. *)

LEMMA InitImplements == Init => Delivery!Init
  BY DEF Init, Delivery!Init, Status

\* Only the end of a client changes its status.
LEMMA StatusStays ==
  ASSUME \A d \in Clients : Status(d)' = Status(d)
  PROVE  [d \in Clients |-> Status(d)]' = [d \in Clients |-> Status(d)]
  OBVIOUS

LEMMA StepImplements ==
  ASSUME InductiveInv, [Next]_vars
  PROVE  [Delivery!Next]_(Delivery!vars)
<1> DEFINE stat == [d \in Clients |-> Status(d)]
<1>1. /\ cpc \in [Clients -> {"absent", "socket", "read", "wait", "closed", "failed", "gaveup"}]
      /\ seqno \in [Clients -> 0..MaxLines]
      /\ printed \in [Clients -> Seq(Line)]
      /\ MaxLines \in Nat
  BY ConstantsAssumption DEF InductiveInv, TypeOK
<1>2. ASSUME UNCHANGED <<seqno, printed, faults>>, \A d \in Clients : Status(d)' = Status(d)
      PROVE  UNCHANGED Delivery!vars
  BY <1>2, StatusStays DEF Delivery!vars
<1>3. ASSUME NEW c \in Clients, OpenSocket(c)
      PROVE  Delivery!Fail(c) \/ UNCHANGED Delivery!vars
  <2>1. /\ cpc[c] = "socket"
        /\ \/ cpc' = [cpc EXCEPT ![c] = "read"]
           \/ cpc' = [cpc EXCEPT ![c] = "failed"]
        /\ UNCHANGED <<seqno, printed, faults>>
    BY <1>3, Zenon DEF OpenSocket, serverVars
  <2>2. CASE cpc' = [cpc EXCEPT ![c] = "read"]
    <3>1. \A d \in Clients : Status(d)' = Status(d)
      BY <1>1, <2>1, <2>2 DEF Status
    <3> QED BY <1>2, <2>1, <3>1
  <2>3. CASE cpc' = [cpc EXCEPT ![c] = "failed"]
    <3>1. stat[c] = "open" /\ stat' = [stat EXCEPT ![c] = "failed"]
      BY <1>1, <2>1, <2>3 DEF Status
    <3> QED BY <2>1, <3>1 DEF Delivery!Fail
  <2> QED BY <2>1, <2>2, <2>3
<1>4. ASSUME NEW c \in Clients, SendLine(c)
      PROVE  Delivery!TakeLine(c)
  <2>1. /\ cpc[c] = "read" /\ seqno[c] < MaxLines
        /\ seqno' = [seqno EXCEPT ![c] = @ + 1]
        /\ cpc' = [cpc EXCEPT ![c] = "wait"]
        /\ printed' = printed
    BY <1>4, Zenon DEF SendLine, serverVars
  <2>2. stat[c] = "open" /\ \A d \in Clients : Status(d)' = Status(d)
    BY <1>1, <2>1 DEF Status
  <2>3. seqno[c] <= Len(printed[c])
    <3>1. Completed(c) + Len(ackNet[c]) + OwedAcks(c) <= Len(printed[c])
      BY DEF InductiveInv, CreditCovered
    <3>2. Completed(c) = seqno[c] /\ seqno[c] \in Nat
      BY <1>1, <2>1 DEF Completed
    <3> QED
      BY <3>1, <3>2, CreditTypes DEF InductiveInv
  <2> QED
    BY <2>1, <2>2, <2>3, StatusStays DEF Delivery!TakeLine, Delivery!Paid
<1>5. ASSUME NEW c \in Clients, Resend(c)
      PROVE  Delivery!Fail(c) \/ UNCHANGED Delivery!vars
  <2>1. /\ cpc[c] = "wait"
        /\ cpc' = cpc \/ cpc' = [cpc EXCEPT ![c] = "gaveup"]
        /\ UNCHANGED <<seqno, printed, faults>>
    BY <1>5, Zenon DEF Resend, serverVars
  <2>2. CASE cpc' = cpc
    <3>1. \A d \in Clients : Status(d)' = Status(d)
      BY <2>2 DEF Status
    <3> QED BY <1>2, <2>1, <3>1
  <2>3. CASE cpc' = [cpc EXCEPT ![c] = "gaveup"]
    <3>1. stat[c] = "open" /\ stat' = [stat EXCEPT ![c] = "failed"]
      BY <1>1, <2>1, <2>3 DEF Status
    <3> QED BY <2>1, <3>1 DEF Delivery!Fail
  <2> QED BY <2>1, <2>2, <2>3
<1>6. ASSUME NEW c \in Clients, ReceiveAck(c)
      PROVE  UNCHANGED Delivery!vars
  <2>1. /\ cpc[c] = "wait"
        /\ cpc' = [cpc EXCEPT ![c] = "read"]
        /\ UNCHANGED <<seqno, printed, faults>>
    BY <1>6, Zenon DEF ReceiveAck, serverVars
  <2>2. \A d \in Clients : Status(d)' = Status(d)
    BY <1>1, <2>1 DEF Status
  <2> QED BY <1>2, <2>1, <2>2
<1>7. ASSUME NEW c \in Clients, EndOfInput(c)
      PROVE  Delivery!Close(c)
  <2>1. /\ cpc[c] = "read"
        /\ cpc' = [cpc EXCEPT ![c] = "closed"]
        /\ UNCHANGED <<seqno, printed, faults>>
    BY <1>7, Zenon DEF EndOfInput, serverVars
  <2>2. stat[c] = "open" /\ stat' = [stat EXCEPT ![c] = "closed"]
    BY <1>1, <2>1 DEF Status
  <2>3. seqno[c] <= Len(printed[c])
    <3>1. Completed(c) + Len(ackNet[c]) + OwedAcks(c) <= Len(printed[c])
      BY DEF InductiveInv, CreditCovered
    <3>2. Completed(c) = seqno[c] /\ seqno[c] \in Nat
      BY <1>1, <2>1 DEF Completed
    <3> QED
      BY <3>1, <3>2, CreditTypes DEF InductiveInv
  <2> QED
    BY <2>1, <2>2, <2>3 DEF Delivery!Close, Delivery!Paid
<1>8. ASSUME PrintLine
      PROVE  \E c \in Clients : Delivery!PrintCopy(c)
  <2>1. /\ spc = "print"
        /\ printed' = [printed EXCEPT ![c_addr] = Append(@, msg)]
        /\ UNCHANGED <<cpc, seqno, faults>>
    BY <1>8, Zenon DEF PrintLine, clientVars
  <2>2. c_addr \in Clients /\ msg \in 1..seqno[c_addr]
    BY <2>1 DEF InductiveInv, TypeOK
  <2>3. \A d \in Clients : Status(d)' = Status(d)
    BY <2>1 DEF Status
  <2> QED
    BY <2>1, <2>2, <2>3, StatusStays DEF Delivery!PrintCopy
<1>9. ASSUME \/ BindServer \/ ReceiveFails \/ Acknowledge
             \/ \E c \in Clients : Receive(c) \/ LoseData(c) \/ LoseAck(c)
             \/ UNCHANGED vars
      PROVE  UNCHANGED Delivery!vars
  <2>1. UNCHANGED <<cpc, seqno, printed, faults>>
    BY <1>9, Zenon DEF BindServer, ReceiveFails, Acknowledge, Receive, LoseData,
                       LoseAck, vars, clientVars, serverVars
  <2>2. \A d \in Clients : Status(d)' = Status(d)
    BY <2>1 DEF Status
  <2> QED BY <1>2, <2>1, <2>2
<1> QED
  BY <1>3, <1>4, <1>5, <1>6, <1>7, <1>8, <1>9, Zenon
     DEF Next, Client, Server, Delivery!Next

\* Clients, server and network implement the delivery service with credit:
\* every behaviour of UdpAck is one of UdpDelivery, under any faults.
THEOREM Refinement == Spec => ImplementsDelivery
<1>1. InductiveInv /\ [Next]_vars => [Delivery!Next]_(Delivery!vars)
  BY StepImplements
<1> QED
  BY <1>1, InitImplements, InductiveInvariant, PTL
     DEF Spec, ImplementsDelivery, Delivery!Spec

-----------------------------------------------------------------------------
(* Lemmas about the copies of a line in a queue. *)

\* The positions of a queue that hold line k are finitely many.
LEMMA CountType ==
  ASSUME NEW S, NEW q \in Seq(S), NEW k
  PROVE  /\ IsFiniteSet({i \in DOMAIN q : q[i] = k})
         /\ Count(q, k) \in Nat
         /\ Count(q, k) = 0 <=> \A i \in DOMAIN q : q[i] # k
<1> DEFINE at == {i \in DOMAIN q : q[i] = k}
<1>1. Len(q) \in Nat /\ DOMAIN q = 1..Len(q)
  BY LenProperties
<1>2. IsFiniteSet(DOMAIN q)
  BY <1>1, FS_Interval
<1>3. IsFiniteSet(at)
  BY <1>2, FS_Subset
<1>4. Cardinality(at) \in Nat /\ (Cardinality(at) = 0 <=> at = {})
  BY <1>3, FS_CardinalityType, FS_EmptySet
<1> QED BY <1>3, <1>4 DEF Count

LEMMA CountAppend ==
  ASSUME NEW S, NEW q \in Seq(S), NEW x \in S, NEW k
  PROVE  Count(Append(q, x), k) = Count(q, k) + (IF x = k THEN 1 ELSE 0)
<1> DEFINE r == Append(q, x)
           at == {i \in DOMAIN q : q[i] = k}
           atr == {i \in DOMAIN r : r[i] = k}
           n == Len(q) + 1
<1>1. /\ r \in Seq(S)
      /\ Len(r) = n
      /\ \A j \in 1..Len(q) : r[j] = q[j]
      /\ r[n] = x
  BY AppendProperties
<1>2. /\ Len(q) \in Nat /\ DOMAIN q = 1..Len(q)
      /\ DOMAIN r = 1..n
  BY <1>1, LenProperties
<1>3. IsFiniteSet(at) /\ Cardinality(at) = Count(q, k) /\ Count(q, k) \in Nat
  BY CountType DEF Count
<1>4. Cardinality(atr) = Count(r, k)
  BY DEF Count
<1> HIDE DEF r
<1>5. CASE x = k
  <2>1. atr = at \cup {n} /\ n \notin at
    BY <1>1, <1>2, <1>5
  <2> HIDE DEF at, atr, n
  <2>2. Cardinality(atr) = Cardinality(at) + 1
    BY <1>3, <2>1, FS_AddElement
  <2> QED BY <1>3, <1>4, <1>5, <2>2 DEF r
<1>6. CASE x # k
  <2>1. atr = at
    BY <1>1, <1>2, <1>6
  <2> HIDE DEF at, atr
  <2> QED BY <1>3, <1>4, <1>6, <2>1 DEF r
<1> QED BY <1>5, <1>6

LEMMA CountRemoveAt ==
  ASSUME NEW S, NEW q \in Seq(S), NEW i \in DOMAIN q, NEW k
  PROVE  Count(RemoveAt(q, i), k) = Count(q, k) - (IF q[i] = k THEN 1 ELSE 0)
<1> DEFINE r == RemoveAt(q, i)
           at == {j \in DOMAIN q : q[j] = k}
           atr == {j \in DOMAIN r : r[j] = k}
           place == [j \in atr |-> IF j < i THEN j ELSE j + 1]
<1>1. /\ r \in Seq(S)
      /\ Len(r) = Len(q) - 1
      /\ \A j \in 1..(Len(q) - 1) : r[j] = IF j < i THEN q[j] ELSE q[j + 1]
  BY RemoveAtProperties
<1> HIDE DEF r
<1>2. /\ Len(q) \in Nat /\ DOMAIN q = 1..Len(q) /\ i \in 1..Len(q)
      /\ DOMAIN r = 1..(Len(q) - 1)
  BY <1>1, LenProperties
<1>3. /\ IsFiniteSet(at) /\ Cardinality(at) = Count(q, k) /\ Count(q, k) \in Nat
      /\ IsFiniteSet(atr) /\ Cardinality(atr) = Count(r, k)
  <2>1. /\ IsFiniteSet(at) /\ Count(q, k) \in Nat
    BY CountType
  <2>2. IsFiniteSet(atr)
    BY <1>1, CountType
  <2> QED BY <2>1, <2>2 DEF Count
<1>4. \A j \in atr : place[j] \in at \ {i}
  <2> TAKE j \in atr
  <2>1. j \in 1..(Len(q) - 1) /\ r[j] = k
    BY <1>2
  <2>2. CASE j < i
    BY <1>1, <1>2, <2>1, <2>2
  <2>3. CASE ~ (j < i)
    BY <1>1, <1>2, <2>1, <2>3
  <2> QED BY <2>2, <2>3
<1>5. \A j, l \in atr : place[j] = place[l] => j = l
  BY <1>2
<1>6. ASSUME NEW l \in at \ {i}
      PROVE  \E j \in atr : place[j] = l
  <2>1. l \in 1..Len(q) /\ l # i /\ q[l] = k
    BY <1>2
  <2>2. CASE l < i
    <3>1. l \in 1..(Len(q) - 1) /\ r[l] = q[l]
      BY <1>1, <1>2, <2>1, <2>2
    <3>2. l \in atr /\ place[l] = l
      BY <1>2, <2>1, <2>2, <3>1
    <3> QED BY <3>2
  <2>3. CASE l > i
    <3>1. l - 1 \in 1..(Len(q) - 1) /\ ~ (l - 1 < i) /\ (l - 1) + 1 = l
      BY <1>2, <2>1, <2>3
    <3>2. r[l - 1] = q[l]
      BY <1>1, <3>1
    <3>3. l - 1 \in atr /\ place[l - 1] = l
      BY <1>2, <2>1, <3>1, <3>2
    <3> QED BY <3>3
  <2> QED BY <1>2, <2>1, <2>2, <2>3
<1>7. place \in Bijection(atr, at \ {i})
  <2>1. place \in [atr -> at \ {i}]
    BY <1>4
  <2>2. DOMAIN place = atr
    OBVIOUS
  <2> HIDE DEF place
  <2> QED
    BY <1>5, <1>6, <2>1, <2>2 DEF Bijection, Injection, Surjection, IsInjective
<1> HIDE DEF place
<1>8. Cardinality(at \ {i}) = Count(r, k)
  <2>1. ExistsBijection(atr, at \ {i})
    BY <1>7 DEF ExistsBijection
  <2> HIDE DEF at, atr
  <2> QED BY <1>3, <2>1, FS_Bijection
<1>9. i \in at <=> q[i] = k
  BY <1>2
<1>10. Cardinality(at \ {i}) = IF i \in at THEN Cardinality(at) - 1 ELSE Cardinality(at)
  <2> HIDE DEF at, atr
  <2> QED BY <1>3, FS_RemoveElement
<1> HIDE DEF at, atr
<1>11. Count(r, k) = Count(q, k) - (IF q[i] = k THEN 1 ELSE 0)
  BY <1>3, <1>8, <1>9, <1>10
<1> QED BY <1>11 DEF r

-----------------------------------------------------------------------------
(* Lemmas about the resends of a client. *)

\* A resend is a line that was taken and the number of a copy after the first.
LEMMA ResentElements ==
  ASSUME NEW d
  PROVE  /\ \A k \in 1..seqno[d] : \A n \in 2..copies[d][k] : <<k, n>> \in Resent(d)
         /\ \A x \in Resent(d) :
              \E k \in 1..seqno[d] : \E n \in 2..copies[d][k] : x = <<k, n>>
BY DEF Resent

LEMMA ResentFinite ==
  ASSUME TypeOK, NEW d \in Clients
  PROVE  IsFiniteSet(Resent(d)) /\ Resends(d) \in Nat
<1> DEFINE S == {{k} \X (2..copies[d][k]) : k \in 1..seqno[d]}
           f == [k \in 1..seqno[d] |-> {k} \X (2..copies[d][k])]
<1>1. /\ seqno[d] \in Nat
      /\ \A k \in 1..seqno[d] : copies[d][k] \in Nat
  BY ConstantsAssumption DEF TypeOK, Line
<1>2. IsFiniteSet(1..seqno[d])
  BY <1>1, FS_Interval
<1>3. f \in Surjection(1..seqno[d], S)
  <2>1. f \in [1..seqno[d] -> S]
    OBVIOUS
  <2>2. \A T \in S : \E k \in 1..seqno[d] : f[k] = T
    OBVIOUS
  <2> HIDE DEF f, S
  <2> QED BY <2>1, <2>2 DEF Surjection
<1>4. IsFiniteSet(S)
  <2> HIDE DEF f, S
  <2> QED BY <1>2, <1>3, FS_Surjection
<1>5. \A T \in S : IsFiniteSet(T)
  <2> SUFFICES ASSUME NEW k \in 1..seqno[d]
               PROVE  IsFiniteSet({k} \X (2..copies[d][k]))
    OBVIOUS
  <2> DEFINE A == {k}
             B == 2..copies[d][k]
  <2>1. IsFiniteSet(A)
    BY FS_Singleton
  <2>2. IsFiniteSet(B)
    <3>1. 2 \in Int /\ copies[d][k] \in Int
      BY <1>1
    <3> HIDE <1>1
    <3> QED BY <3>1, FS_Interval
  <2> HIDE DEF A, B
  <2>3. IsFiniteSet(A \X B)
    BY <2>1, <2>2, FS_Product
  <2> QED BY <2>3 DEF A, B
<1>6. IsFiniteSet(Resent(d))
  <2>1. Resent(d) = UNION S
    BY DEF Resent
  <2> HIDE DEF S
  <2> QED BY <1>4, <1>5, <2>1, FS_UNION
<1> QED BY <1>6, FS_CardinalityType DEF Resends

\* The first copy of the next line is not a resend.
LEMMA FirstCopyResends ==
  ASSUME TypeOK, NEW d \in Clients, copies[d][seqno[d] + 1] = 0, seqno[d] < MaxLines,
         seqno'[d] = seqno[d] + 1,
         copies'[d] = [copies[d] EXCEPT ![seqno[d] + 1] = @ + 1]
  PROVE  Resends(d)' = Resends(d)
<1>1. /\ seqno[d] \in Nat /\ seqno[d] + 1 \in Line /\ 1..seqno[d] \subseteq Line
      /\ copies[d] \in [Line -> Nat]
  <2>1. /\ MaxLines \in Nat /\ seqno[d] \in 0..MaxLines
        /\ copies[d] \in [Line -> Nat]
    BY ConstantsAssumption DEF TypeOK
  <2> QED BY <2>1 DEF Line
<1>2. /\ copies'[d][seqno[d] + 1] = 1
      /\ \A k \in 1..seqno[d] : copies'[d][k] = copies[d][k]
  BY <1>1
<1>3. Resent(d)' = Resent(d)
  <2>1. ASSUME NEW x \in Resent(d)
        PROVE  x \in Resent(d)'
    <3>0. PICK k \in 1..seqno[d] : \E n \in 2..copies[d][k] : x = <<k, n>>
      BY ResentElements
    <3>1. PICK n \in 2..copies[d][k] : x = <<k, n>>
      BY <3>0
    <3>2. k \in 1..seqno'[d] /\ n \in 2..copies'[d][k]
      BY <1>1, <1>2
    <3> QED BY <3>1, <3>2 DEF Resent
  <2>2. ASSUME NEW x \in Resent(d)'
        PROVE  x \in Resent(d)
    <3>0. PICK k \in 1..seqno'[d] : \E n \in 2..copies'[d][k] : x = <<k, n>>
      BY <2>2 DEF Resent
    <3>1. PICK n \in 2..copies'[d][k] : x = <<k, n>>
      BY <3>0
    <3>2. k # seqno[d] + 1
      <4>1. 2..1 = {}
        OBVIOUS
      <4> QED BY <1>2, <4>1
    <3>3. k \in 1..seqno[d]
      BY <1>1, <3>2
    <3>4. n \in 2..copies[d][k]
      BY <1>2, <3>3
    <3> QED BY <3>1, <3>3, <3>4, ResentElements
  <2> QED BY <2>1, <2>2
<1> QED BY <1>3 DEF Resends

\* Every further copy of the line last taken is one.
LEMMA FurtherCopyResends ==
  ASSUME TypeOK, NEW d \in Clients, seqno[d] > 0, copies[d][seqno[d]] > 0,
         seqno'[d] = seqno[d],
         copies'[d] = [copies[d] EXCEPT ![seqno[d]] = @ + 1]
  PROVE  Resends(d)' = Resends(d) + 1
<1> DEFINE l == seqno[d]
           x == <<l, copies[d][l] + 1>>
<1>1. /\ l \in Nat /\ l \in 1..l /\ 1..l \subseteq Line
      /\ copies[d] \in [Line -> Nat] /\ copies[d][l] \in Nat
  <2>1. /\ MaxLines \in Nat /\ l \in 0..MaxLines
        /\ copies[d] \in [Line -> Nat]
    BY ConstantsAssumption DEF TypeOK
  <2>2. l \in Nat /\ l \in 1..l /\ 1..l \subseteq Line
    BY <2>1 DEF Line
  <2> QED BY <2>1, <2>2
<1>2. /\ copies'[d][l] = copies[d][l] + 1
      /\ \A k \in 1..l : k # l => copies'[d][k] = copies[d][k]
  BY <1>1
<1>3. Resent(d)' = Resent(d) \cup {x}
  <2>1. ASSUME NEW y \in Resent(d)
        PROVE  y \in Resent(d)'
    <3>0. PICK k \in 1..l : \E n \in 2..copies[d][k] : y = <<k, n>>
      BY ResentElements
    <3>1. PICK n \in 2..copies[d][k] : y = <<k, n>>
      BY <3>0
    <3>2. n \in 2..copies'[d][k]
      <4>1. copies[d][k] <= copies'[d][k] /\ copies[d][k] \in Nat /\ copies'[d][k] \in Nat
        BY <1>1, <1>2
      <4> QED BY <4>1
    <3> QED BY <3>1, <3>2 DEF Resent
  <2>2. x \in Resent(d)'
    <3>1. copies[d][l] + 1 \in 2..copies'[d][l]
      BY <1>1, <1>2
    <3> QED BY <1>1, <3>1 DEF Resent
  <2>3. ASSUME NEW y \in Resent(d)'
        PROVE  y \in Resent(d) \cup {x}
    <3>0. PICK k \in 1..l : \E n \in 2..copies'[d][k] : y = <<k, n>>
      BY <2>3 DEF Resent
    <3>1. PICK n \in 2..copies'[d][k] : y = <<k, n>>
      BY <3>0
    <3>2. n \in 2..copies[d][k] \/ (k = l /\ n = copies[d][l] + 1)
      <4>1. CASE k = l
        BY <1>1, <1>2, <4>1
      <4>2. CASE k # l
        BY <1>2, <4>2
      <4> QED BY <4>1, <4>2
    <3> QED BY <3>1, <3>2, ResentElements
  <2> QED BY <2>1, <2>2, <2>3
<1>4. x \notin Resent(d)
  <2> SUFFICES ASSUME x \in Resent(d) PROVE FALSE
    OBVIOUS
  <2>0. PICK k \in 1..l : \E n \in 2..copies[d][k] : x = <<k, n>>
    BY ResentElements
  <2>1. PICK n \in 2..copies[d][k] : x = <<k, n>>
    BY <2>0
  <2>2. k = l /\ n = copies[d][l] + 1
    BY <2>1
  <2> QED BY <1>1, <2>1, <2>2
<1> HIDE DEF x
<1> QED BY <1>3, <1>4, ResentFinite, FS_AddElement DEF Resends

-----------------------------------------------------------------------------
(* The second inductive invariant: what InductiveInv does not say of the   *)
(* copies, the numbers and the order of the lines of one client d.         *)

\* The frame in hand is a copy of line k of d that is not printed yet.
Hand(d, k) == IF spc = "print" /\ c_addr = d /\ msg = k THEN 1 ELSE 0

\* The server has a frame of d in hand, printed or not.
Handed(d) == IF c_addr = d THEN 1 ELSE 0

ServerInv == c_addr # NoClient => spc \in {"print", "ack"}

\* A copy of a line is in one place at a time; the lines sent are the lines
\* taken; the selects left for a line pay for the copies still to be made.
CopiesInv(d) ==
  /\ \A k \in Line :
       /\ Count(dataNet[d], k) + Hand(d, k) + Count(printed[d], k) <= copies[d][k]
       /\ k <= seqno[d] <=> copies[d][k] > 0
       /\ copies[d][k] <= NRETRIES + 1
  /\ cpc[d] = "wait" => copies[d][seqno[d]] + remaining[d] <= NRETRIES + 1

\* The prints that name a line client d is done with pay for those lines.
CreditInv(d) ==
  /\ \A i \in DOMAIN printed[d] : printed[d][i] <= seqno[d]
  /\ Completed(d) <=
       Cardinality({i \in DOMAIN printed[d] : printed[d][i] <= Completed(d)})

\* Before the first resend one copy of the last line taken is the only one
\* that can be on its way.
ExactInv(d) ==
  (\A k \in 1..seqno[d] : copies[d][k] = 1) =>
    /\ \A i \in DOMAIN printed[d] : printed[d][i] = i
    /\ Len(dataNet[d]) + Hand(d, msg) + Len(printed[d]) <= seqno[d]
    /\ \A i \in DOMAIN dataNet[d] : dataNet[d][i] = seqno[d]
    /\ Hand(d, msg) = 1 => msg = seqno[d]

\* Without reordering, the prints, the frame in hand and the queue are
\* copies of lines in order.
OrderInv(d) ==
  /\ \A i, j \in DOMAIN printed[d] : i <= j => printed[d][i] <= printed[d][j]
  /\ \A i, j \in DOMAIN dataNet[d] : i <= j => dataNet[d][i] <= dataNet[d][j]
  /\ \A i \in DOMAIN printed[d] : \A j \in DOMAIN dataNet[d] :
       printed[d][i] <= dataNet[d][j]
  /\ c_addr = d =>
       /\ \A i \in DOMAIN printed[d] : printed[d][i] <= msg
       /\ \A j \in DOMAIN dataNet[d] : msg <= dataNet[d][j]

\* Without reordering, the frame that will produce the n-th ack still to be
\* taken is a copy of line n, or of an earlier one for every resend.
LagInv(d) ==
  LET before == Completed(d) + Len(ackNet[d]) IN
  /\ \A i \in DOMAIN ackNet[d] : Completed(d) + i <= ackNet[d][i] + Resends(d)
  /\ c_addr = d => before + 1 <= msg + Resends(d)
  /\ \A i \in DOMAIN dataNet[d] :
       before + Handed(d) + i <= dataNet[d][i] + Resends(d)
  /\ before + Handed(d) + Len(dataNet[d]) <= seqno[d] + Resends(d)

ClientInv(d) ==
  /\ CopiesInv(d)
  /\ CreditInv(d)
  /\ ExactInv(d)
  /\ "reorder" \notin faults => OrderInv(d) /\ LagInv(d)

DeliveryInv == ServerInv /\ \A d \in Clients : ClientInv(d)

-----------------------------------------------------------------------------
(* What a step leaves alone keeps the invariants of a client. *)

\* The parts of the state of client d and what they hold.
LEMMA ClientTypes ==
  ASSUME TypeOK, NEW d \in Clients
  PROVE  /\ seqno[d] \in Nat /\ seqno[d] <= MaxLines
         /\ MaxLines \in Nat /\ NRETRIES \in Nat \ {0}
         /\ remaining[d] \in Nat
         /\ copies[d] \in [Line -> Nat]
         /\ dataNet[d] \in Seq(Line) /\ Len(dataNet[d]) \in Nat
         /\ DOMAIN dataNet[d] = 1..Len(dataNet[d])
         /\ \A i \in 1..Len(dataNet[d]) : dataNet[d][i] \in Line
         /\ ackNet[d] \in Seq(Line) /\ Len(ackNet[d]) \in Nat
         /\ DOMAIN ackNet[d] = 1..Len(ackNet[d])
         /\ \A i \in 1..Len(ackNet[d]) : ackNet[d][i] \in Line
         /\ printed[d] \in Seq(Line) /\ Len(printed[d]) \in Nat
         /\ DOMAIN printed[d] = 1..Len(printed[d])
         /\ \A i \in 1..Len(printed[d]) : printed[d][i] \in Line
         /\ msg \in Nat
         /\ cpc[d] \in {"absent", "socket", "read", "wait", "closed", "failed", "gaveup"}
<1>1. /\ seqno[d] \in 0..MaxLines /\ MaxLines \in Nat /\ NRETRIES \in Nat \ {0}
      /\ remaining[d] \in 0..NRETRIES /\ copies[d] \in [Line -> Nat]
      /\ dataNet[d] \in Seq(Line) /\ ackNet[d] \in Seq(Line) /\ printed[d] \in Seq(Line)
      /\ msg \in 0..MaxLines
      /\ cpc[d] \in {"absent", "socket", "read", "wait", "closed", "failed", "gaveup"}
  BY ConstantsAssumption DEF TypeOK
<1>2. ASSUME NEW q \in Seq(Line)
      PROVE  /\ Len(q) \in Nat /\ DOMAIN q = 1..Len(q)
             /\ \A i \in 1..Len(q) : q[i] \in Line
  BY LenProperties, ElementOfSeq
<1>3. seqno[d] \in Nat /\ seqno[d] <= MaxLines /\ remaining[d] \in Nat /\ msg \in Nat
  BY <1>1
<1> QED BY <1>1, <1>2, <1>3

\* The numbers among them.
LEMMA ClientNumbers ==
  ASSUME TypeOK, NEW d \in Clients
  PROVE  /\ seqno[d] \in Nat /\ seqno[d] <= MaxLines /\ msg \in Nat
         /\ MaxLines \in Nat /\ NRETRIES \in Nat
         /\ Len(dataNet[d]) \in Nat /\ Len(ackNet[d]) \in Nat
         /\ Len(printed[d]) \in Nat
BY ClientTypes

\* The elements of a queue that grows by one frame.
LEMMA AppendElements ==
  ASSUME NEW S, NEW q \in Seq(S), NEW x \in S
  PROVE  /\ Append(q, x) \in Seq(S)
         /\ Len(Append(q, x)) = Len(q) + 1
         /\ DOMAIN Append(q, x) = 1..(Len(q) + 1)
         /\ \A j \in 1..Len(q) : Append(q, x)[j] = q[j]
         /\ Append(q, x)[Len(q) + 1] = x
<1>1. /\ Append(q, x) \in Seq(S)
      /\ Len(Append(q, x)) = Len(q) + 1
      /\ \A j \in 1..Len(q) : Append(q, x)[j] = q[j]
      /\ Append(q, x)[Len(q) + 1] = x
  BY AppendProperties
<1>2. DOMAIN Append(q, x) = 1..Len(Append(q, x))
  BY <1>1, LenProperties
<1> QED BY <1>1, <1>2

\* The parts of CopiesInv that no send, receive, print or loss touches.
LEMMA CopiesStays ==
  ASSUME NEW d, CopiesInv(d),
         seqno'[d] = seqno[d], copies'[d] = copies[d],
         dataNet'[d] = dataNet[d], printed'[d] = printed[d],
         \A k \in Line : Hand(d, k)' = Hand(d, k),
         cpc'[d] = "wait" => cpc[d] = "wait" /\ remaining'[d] = remaining[d]
  PROVE  CopiesInv(d)'
BY DEF CopiesInv, Count

LEMMA CreditStays ==
  ASSUME TypeOK, TypeOK', NEW d \in Clients, CreditInv(d),
         Completed(d)' = Completed(d),
         printed'[d] = printed[d], seqno[d] <= seqno'[d]
  PROVE  CreditInv(d)'
<1>1. /\ \A i \in DOMAIN printed[d] : printed[d][i] \in Nat
      /\ seqno[d] \in Nat /\ seqno'[d] \in Nat
  <2>1. /\ \A i \in DOMAIN printed[d] : printed[d][i] \in Line
        /\ seqno[d] \in Nat
    BY ClientTypes
  <2>2. seqno'[d] \in Nat
    BY ConstantsAssumption DEF TypeOK
  <2> QED BY <2>1, <2>2 DEF Line
<1>2. \A i \in DOMAIN printed'[d] : printed'[d][i] <= seqno'[d]
  BY <1>1 DEF CreditInv
<1>3. (Cardinality({i \in DOMAIN printed[d] : printed[d][i] <= Completed(d)}))'
      = Cardinality({i \in DOMAIN printed[d] : printed[d][i] <= Completed(d)})
  OBVIOUS
<1> QED BY <1>2, <1>3 DEF CreditInv

LEMMA ExactStays ==
  ASSUME NEW d, ExactInv(d),
         seqno'[d] = seqno[d], copies'[d] = copies[d],
         dataNet'[d] = dataNet[d], printed'[d] = printed[d],
         Hand(d, msg)' = Hand(d, msg),
         Hand(d, msg) = 1 => msg' = msg
  PROVE  ExactInv(d)'
BY DEF ExactInv

LEMMA OrderStays ==
  ASSUME NEW d, OrderInv(d),
         dataNet'[d] = dataNet[d], printed'[d] = printed[d],
         c_addr' = d => c_addr = d /\ msg' = msg
  PROVE  OrderInv(d)'
BY DEF OrderInv

LEMMA LagStays ==
  ASSUME NEW d, LagInv(d),
         Completed(d)' = Completed(d), seqno'[d] = seqno[d], copies'[d] = copies[d],
         dataNet'[d] = dataNet[d], ackNet'[d] = ackNet[d],
         c_addr' = d <=> c_addr = d,
         c_addr = d => msg' = msg
  PROVE  LagInv(d)'
<1>1. Resends(d)' = Resends(d) /\ Handed(d)' = Handed(d)
  BY DEF Resends, Resent, Handed
<1> QED BY <1>1 DEF LagInv

\* A step of another client, or of the server with a frame of another client.
LEMMA ClientStays ==
  ASSUME TypeOK, TypeOK', NEW d \in Clients, ClientInv(d),
         cpc'[d] = cpc[d], seqno'[d] = seqno[d], remaining'[d] = remaining[d],
         copies'[d] = copies[d], dataNet'[d] = dataNet[d], ackNet'[d] = ackNet[d],
         printed'[d] = printed[d], faults' = faults,
         c_addr' = d <=> c_addr = d,
         c_addr = d => spc' = spc /\ msg' = msg
  PROVE  ClientInv(d)'
<1>1. /\ \A k : Hand(d, k)' = Hand(d, k)
      /\ Hand(d, msg)' = Hand(d, msg)
      /\ Hand(d, msg) = 1 => msg' = msg
      /\ Completed(d)' = Completed(d)
  BY DEF Hand, Completed
<1>2. seqno[d] <= seqno'[d]
  BY ClientTypes
<1> QED
  BY <1>1, <1>2, CopiesStays, CreditStays, ExactStays, OrderStays, LagStays
     DEF ClientInv

-----------------------------------------------------------------------------
(* The actions preserve the invariants of the client they are about. *)

LEMMA OpenSocketDelivery ==
  ASSUME InductiveInv, InductiveInv', DeliveryInv, NEW c \in Clients, OpenSocket(c),
         NEW d \in Clients
  PROVE  ClientInv(d)'
<1>1. TypeOK /\ TypeOK' /\ ClientInv(d)
  BY DEF InductiveInv, DeliveryInv
<1>2. /\ cpc[c] = "socket" /\ cpc'[c] \in {"read", "failed"}
      /\ d # c => cpc'[d] = cpc[d]
      /\ UNCHANGED <<seqno, remaining, copies, faults>>
      /\ UNCHANGED <<spc, c_addr, msg, printed, dataNet, ackNet>>
  BY <1>1 DEF OpenSocket, serverVars, TypeOK
<1>3. CASE d # c
  BY <1>1, <1>2, <1>3, ClientStays
<1>4. CASE d = c
  <2>1. /\ Completed(c)' = Completed(c)
        /\ \A k : Hand(c, k)' = Hand(c, k)
        /\ seqno[c] <= seqno'[c]
    BY <1>1, <1>2, ClientTypes DEF Completed, Hand
  <2>2. CopiesInv(c)' /\ CreditInv(c)' /\ ExactInv(c)'
    BY <1>1, <1>2, <1>4, <2>1, CopiesStays, CreditStays, ExactStays DEF ClientInv
  <2>3. "reorder" \notin faults => OrderInv(c)' /\ LagInv(c)'
    BY <1>1, <1>2, <1>4, <2>1, OrderStays, LagStays DEF ClientInv
  <2> QED BY <1>2, <1>4, <2>2, <2>3 DEF ClientInv
<1> QED BY <1>3, <1>4

\* What a sendto of client c changes.
LEMMA SendDataEffects ==
  ASSUME TypeOK, NEW c \in Clients, NEW k \in Line, SendData(c, k)
  PROVE  /\ copies'[c] = [copies[c] EXCEPT ![k] = @ + 1]
         /\ dataNet'[c] = dataNet[c] \/ dataNet'[c] = Append(dataNet[c], k)
         /\ \A d \in Clients : d # c => copies'[d] = copies[d] /\ dataNet'[d] = dataNet[d]
<1>1. /\ copies \in [Clients -> [Line -> Nat]] /\ dataNet \in [Clients -> Seq(Line)]
  BY DEF TypeOK
<1>2. /\ copies' = [copies EXCEPT ![c] = [copies[c] EXCEPT ![k] = copies[c][k] + 1]]
      /\ \/ dataNet' = dataNet
         \/ dataNet' = [dataNet EXCEPT ![c] = Append(dataNet[c], k)]
  BY Zenon DEF SendData
<1> QED BY <1>1, <1>2

\* A sendto of line k adds at most one copy of it to the queue.
LEMMA SendDataCounts ==
  ASSUME TypeOK, NEW c \in Clients, NEW k \in Line, SendData(c, k), NEW l \in Line
  PROVE  /\ Count(dataNet'[c], l) \in Nat /\ Count(dataNet[c], l) \in Nat
         /\ l # k => Count(dataNet'[c], l) = Count(dataNet[c], l)
         /\ Count(dataNet'[c], l) <= Count(dataNet[c], l) + 1
<1> DEFINE q == dataNet[c]
<1>1. q \in Seq(Line)
  BY ClientTypes
<1>2. q' = q \/ q' = Append(q, k)
  BY SendDataEffects
<1> HIDE DEF q
<1>3. Count(q, l) \in Nat
  BY <1>1, CountType
<1>4. Count(Append(q, k), l) = Count(q, l) + (IF k = l THEN 1 ELSE 0)
  BY <1>1, CountAppend
<1>5. \/ Count(q', l) = Count(q, l)
      \/ Count(q', l) = Count(q, l) + (IF k = l THEN 1 ELSE 0)
  BY <1>2, <1>4
<1>6. /\ Count(q', l) \in Nat /\ Count(q, l) \in Nat
      /\ l # k => Count(q', l) = Count(q, l)
      /\ Count(q', l) <= Count(q, l) + 1
  BY <1>3, <1>5
<1> QED BY <1>6 DEF q

\* The queue of client c after a sendto of line k.
LEMMA SendDataQueue ==
  ASSUME TypeOK, NEW c \in Clients, NEW k \in Line, SendData(c, k)
  PROVE  /\ Len(dataNet'[c]) \in Nat /\ DOMAIN dataNet'[c] = 1..Len(dataNet'[c])
         /\ Len(dataNet'[c]) <= Len(dataNet[c]) + 1
         /\ \A i \in DOMAIN dataNet'[c] :
              \/ i \in DOMAIN dataNet[c] /\ dataNet'[c][i] = dataNet[c][i]
              \/ i = Len(dataNet[c]) + 1 /\ dataNet'[c][i] = k
<1> DEFINE q == dataNet[c]
<1>1. q' = q \/ q' = Append(q, k)
  BY SendDataEffects
<1>2. q \in Seq(Line) /\ Len(q) \in Nat /\ DOMAIN q = 1..Len(q)
  BY ClientTypes
<1> HIDE DEF q
<1>3. /\ Len(q') \in Nat /\ DOMAIN q' = 1..Len(q')
      /\ Len(q') <= Len(q) + 1
      /\ \A i \in DOMAIN q' : \/ i \in DOMAIN q /\ q'[i] = q[i]
                              \/ i = Len(q) + 1 /\ q'[i] = k
  BY <1>1, <1>2, AppendElements
<1> QED BY <1>3 DEF q

\* A copy is counted when it is sent, whether the network takes it or not.
LEMMA SendCopies ==
  ASSUME TypeOK, NEW c \in Clients, NEW k \in Line, SendData(c, k), CopiesInv(c),
         UNCHANGED <<spc, c_addr, msg, printed>>,
         NEW l \in Line
  PROVE  /\ Count(dataNet[c], l)' + Hand(c, l)' + Count(printed[c], l)' <= copies'[c][l]
         /\ copies'[c][l] = copies[c][l] + (IF l = k THEN 1 ELSE 0)
         /\ copies[c][l] \in Nat
<1>1. /\ copies'[c] = [copies[c] EXCEPT ![k] = @ + 1]
      /\ copies[c] \in [Line -> Nat]
  BY SendDataEffects, ClientTypes
<1>2. Count(dataNet[c], l) + Hand(c, l) + Count(printed[c], l) <= copies[c][l]
  BY DEF CopiesInv
<1>3. /\ Count(dataNet'[c], l) \in Nat /\ Count(dataNet[c], l) \in Nat
      /\ l # k => Count(dataNet'[c], l) = Count(dataNet[c], l)
      /\ Count(dataNet'[c], l) <= Count(dataNet[c], l) + 1
  BY SendDataCounts
<1>4. /\ Hand(c, l)' = Hand(c, l) /\ Count(printed[c], l)' = Count(printed[c], l)
      /\ Count(dataNet[c], l)' = Count(dataNet'[c], l)
  BY DEF Hand, Count
<1>5. Hand(c, l) \in {0, 1} /\ Count(printed[c], l) \in Nat
  BY ClientTypes, CountType DEF Hand
<1>6. copies'[c][l] = copies[c][l] + (IF l = k THEN 1 ELSE 0) /\ copies[c][l] \in Nat
  BY <1>1
<1> QED BY <1>2, <1>3, <1>4, <1>5, <1>6

\* A copy of the highest line so far joins the queue at its end.
LEMMA SendOrder ==
  ASSUME TypeOK, NEW c \in Clients, NEW k \in Line, SendData(c, k), OrderInv(c),
         UNCHANGED <<c_addr, msg, printed>>,
         \A i \in DOMAIN dataNet[c] : dataNet[c][i] <= k,
         \A i \in DOMAIN printed[c] : printed[c][i] <= k,
         c_addr = c => msg <= k
  PROVE  OrderInv(c)'
<1> DEFINE q == dataNet[c]
<1>1. /\ Len(q') \in Nat /\ DOMAIN q' = 1..Len(q')
      /\ \A i \in DOMAIN q' : \/ i \in DOMAIN q /\ q'[i] = q[i]
                              \/ i = Len(q) + 1 /\ q'[i] = k
  BY SendDataQueue
<1>2. Len(q) \in Nat /\ DOMAIN q = 1..Len(q) /\ k \in Nat
  BY ClientTypes DEF Line
<1> HIDE DEF q
<1>3. \A i, j \in DOMAIN q' : i <= j => q'[i] <= q'[j]
  <2> TAKE i, j \in DOMAIN q'
  <2> HAVE i <= j
  <2>1. CASE j \in DOMAIN q /\ q'[j] = q[j]
    <3>1. i \in Nat /\ j \in 1..Len(q)
      BY <1>1, <1>2, <2>1
    <3>2. i # Len(q) + 1
      BY <1>2, <3>1
    <3>3. i \in DOMAIN q /\ q'[i] = q[i]
      BY <1>1, <3>2
    <3> QED BY <2>1, <3>3 DEF OrderInv, q
  <2>2. CASE q'[j] = k
    <3>1. q'[i] <= k
      BY <1>1, <1>2 DEF q
    <3> QED BY <2>2, <3>1
  <2> QED BY <1>1, <2>1, <2>2
<1>4. \A i \in DOMAIN printed[c] : \A j \in DOMAIN q' : printed[c][i] <= q'[j]
  BY <1>1 DEF OrderInv, q
<1>5. c_addr = c => \A j \in DOMAIN q' : msg <= q'[j]
  BY <1>1 DEF OrderInv, q
<1> QED BY <1>3, <1>4, <1>5 DEF OrderInv, q

\* A copy of the last line pays for its place in the queue: it is the first
\* copy of a new line, or one more resend.
LEMMA SendLag ==
  ASSUME TypeOK, NEW c \in Clients, NEW k \in Line, SendData(c, k), LagInv(c)
  PROVE  /\ c_addr' = c_addr /\ msg' = msg
         /\ Completed(c)' = Completed(c) /\ Completed(c) \in Nat
         /\ Len(ackNet'[c]) \in Nat /\ Len(ackNet'[c]) <= Len(ackNet[c])
         /\ \A i \in DOMAIN ackNet'[c] : i \in DOMAIN ackNet[c] /\ ackNet'[c][i] = ackNet[c][i]
         /\ seqno'[c] = k
         /\ Resends(c)' \in Nat /\ Resends(c) <= Resends(c)'
         /\ k + Resends(c)' = seqno[c] + Resends(c) + 1
         => LagInv(c)'
<1>0. SUFFICES ASSUME /\ c_addr' = c_addr /\ msg' = msg
                      /\ Completed(c)' = Completed(c) /\ Completed(c) \in Nat
                      /\ Len(ackNet'[c]) \in Nat /\ Len(ackNet'[c]) <= Len(ackNet[c])
                      /\ \A i \in DOMAIN ackNet'[c] :
                           i \in DOMAIN ackNet[c] /\ ackNet'[c][i] = ackNet[c][i]
                      /\ seqno'[c] = k
                      /\ Resends(c)' \in Nat /\ Resends(c) <= Resends(c)'
                      /\ k + Resends(c)' = seqno[c] + Resends(c) + 1
               PROVE  LagInv(c)'
  OBVIOUS
<1> DEFINE before == Completed(c) + Len(ackNet[c])
           q == dataNet[c]
<1>1. /\ Len(q') \in Nat /\ DOMAIN q' = 1..Len(q')
      /\ Len(q') <= Len(q) + 1
      /\ \A i \in DOMAIN q' : \/ i \in DOMAIN q /\ q'[i] = q[i]
                              \/ i = Len(q) + 1 /\ q'[i] = k
  BY SendDataQueue
<1>2. /\ Len(q) \in Nat /\ k \in Nat /\ msg \in Nat /\ seqno[c] \in Nat
      /\ Len(ackNet[c]) \in Nat
  BY ClientTypes DEF Line
<1>3. /\ DOMAIN q = 1..Len(q)
      /\ \A i \in DOMAIN q : q[i] \in Nat /\ i \in Nat
      /\ DOMAIN ackNet[c] = 1..Len(ackNet[c])
      /\ \A i \in DOMAIN ackNet[c] : ackNet[c][i] \in Nat /\ i \in Nat
  <2>1. /\ DOMAIN q = 1..Len(q) /\ DOMAIN ackNet[c] = 1..Len(ackNet[c])
        /\ \A i \in 1..Len(q) : q[i] \in Line
        /\ \A i \in 1..Len(ackNet[c]) : ackNet[c][i] \in Line
    BY ClientTypes
  <2> QED BY <2>1 DEF Line
<1>4. /\ Resends(c) \in Nat /\ Resends(c)' \in Nat /\ Resends(c) <= Resends(c)'
      /\ k + Resends(c)' = seqno[c] + Resends(c) + 1
  <2>1. Resends(c) \in Nat
    BY ResentFinite
  <2> QED BY <1>0, <2>1, Zenon
<1>5. /\ before \in Nat /\ before' \in Nat /\ before' <= before
      /\ Handed(c) \in Nat /\ Handed(c)' = Handed(c)
  <2>1. Handed(c) \in Nat /\ Handed(c)' = Handed(c)
    BY <1>0 DEF Handed
  <2> DEFINE n == Len(ackNet[c])
             r == Len(ackNet'[c])
             f == Completed(c)
  <2>2. n \in Nat /\ r \in Nat /\ r <= n /\ f \in Nat
    BY <1>0, <1>2
  <2>3. before = f + n /\ before' = f + r
    BY <1>0
  <2> HIDE DEF n, r, f, before
  <2>4. f + n \in Nat /\ f + r \in Nat /\ f + r <= f + n
    BY <2>2
  <2> QED BY <2>1, <2>3, <2>4
<1>6. \A i \in DOMAIN ackNet[c] : Completed(c) + i <= ackNet[c][i] + Resends(c)
  BY DEF LagInv
<1>7. c_addr = c => before + 1 <= msg + Resends(c)
  BY DEF LagInv
<1>8. \A i \in DOMAIN q : before + Handed(c) + i <= q[i] + Resends(c)
  BY DEF LagInv
<1>9. before + Handed(c) + Len(q) <= seqno[c] + Resends(c)
  BY DEF LagInv
<1> HIDE DEF q, before
<1>10. \A i \in DOMAIN ackNet'[c] : Completed(c) + i <= ackNet'[c][i] + Resends(c)'
  <2> TAKE i \in DOMAIN ackNet'[c]
  <2>1. i \in DOMAIN ackNet[c] /\ ackNet'[c][i] = ackNet[c][i]
    BY <1>0
  <2>2. Completed(c) + i <= ackNet'[c][i] + Resends(c) /\ i \in Nat /\ ackNet'[c][i] \in Nat
    BY <1>3, <1>6, <2>1
  <2> DEFINE paid == Completed(c) + i
             x == ackNet'[c][i]
             r == Resends(c)
             s == Resends(c)'
  <2>3. paid <= x + r /\ paid \in Nat /\ x \in Nat
    BY <1>0, <2>2
  <2>4. r \in Nat /\ s \in Nat /\ r <= s
    BY <1>4
  <2> HIDE DEF paid, x, r, s
  <2>5. paid <= x + s
    BY <2>3, <2>4
  <2> QED BY <2>5 DEF paid, x, s
<1>11. c_addr = c => before' + 1 <= msg + Resends(c)'
  BY <1>2, <1>4, <1>5, <1>7
<1>12. before' + Handed(c) + Len(q) + 1 <= k + Resends(c)'
  <2> DEFINE line == seqno[c] + Resends(c)
             n == Len(q)
             h == Handed(c)
             after == before'
  <2>1. before + h + n <= line /\ k + Resends(c)' = line + 1
    BY <1>4, <1>9
  <2>2. line \in Nat
    BY <1>2, <1>4
  <2>3. after <= before /\ after \in Nat /\ before \in Nat
        /\ n \in Nat /\ h \in Nat
    BY <1>2, <1>5
  <2> HIDE DEF line, n, h, after
  <2>4. after + h + n + 1 <= line + 1
    BY <2>1, <2>2, <2>3
  <2> QED BY <2>1, <2>4 DEF n, h, after
<1>13. \A i \in DOMAIN q' : before' + Handed(c) + i <= q'[i] + Resends(c)'
  <2> TAKE i \in DOMAIN q'
  <2>1. CASE i \in DOMAIN q /\ q'[i] = q[i]
    <3> DEFINE h == Handed(c)
               x == q'[i]
               r == Resends(c)
               s == Resends(c)'
               after == before'
    <3>1. before + h + i <= x + r /\ i \in Nat /\ x \in Nat
      BY <1>3, <1>8, <2>1
    <3>2. r \in Nat /\ s \in Nat /\ r <= s /\ h \in Nat
      BY <1>4, <1>5
    <3>3. after <= before /\ after \in Nat /\ before \in Nat
      BY <1>5
    <3> HIDE DEF h, x, r, s, after
    <3>4. after + h + i <= x + s
      BY <3>1, <3>2, <3>3
    <3> QED BY <3>4 DEF h, x, s, after
  <2>2. CASE i = Len(q) + 1 /\ q'[i] = k
    BY <1>2, <1>4, <1>5, <1>12, <2>2
  <2> QED BY <1>1, <2>1, <2>2
<1>14. before' + Handed(c) + Len(q') <= k + Resends(c)'
  <2> DEFINE room == k + Resends(c)'
             n == Len(q)
             m == Len(q')
             h == Handed(c)
             after == before'
  <2>1. m \in Nat /\ m <= n + 1 /\ n \in Nat /\ h \in Nat
    BY <1>1, <1>2, <1>5
  <2>2. after + h + n + 1 <= room
    BY <1>12
  <2>3. room \in Nat /\ after \in Nat
    BY <1>2, <1>4, <1>5
  <2> HIDE DEF room, n, m, h, after
  <2>4. after + h + m <= room
    BY <2>1, <2>2, <2>3
  <2> QED BY <2>4 DEF room, m, h, after
<1> QED BY <1>0, <1>5, <1>10, <1>11, <1>13, <1>14 DEF LagInv, q, before

LEMMA SendLineDelivery ==
  ASSUME InductiveInv, InductiveInv', DeliveryInv, NEW c \in Clients, SendLine(c),
         NEW d \in Clients
  PROVE  ClientInv(d)'
<1> DEFINE k == seqno[c] + 1
           q == dataNet[c]
<1>1. /\ TypeOK /\ TypeOK' /\ ClientInv(d) /\ CreditCovered
      /\ \A i \in DOMAIN q : q[i] <= seqno[c]
  BY DEF InductiveInv, DeliveryInv
<1>2. /\ cpc[c] = "read" /\ cpc'[c] = "wait" /\ seqno[c] < MaxLines
      /\ seqno'[c] = seqno[c] + 1 /\ remaining'[c] = NRETRIES
      /\ d # c => /\ cpc'[d] = cpc[d] /\ seqno'[d] = seqno[d]
                  /\ remaining'[d] = remaining[d]
      /\ UNCHANGED <<spc, c_addr, msg, printed, ackNet, faults>>
  <2>1. /\ cpc[c] = "read" /\ seqno[c] < MaxLines
        /\ seqno' = [seqno EXCEPT ![c] = @ + 1]
        /\ remaining' = [remaining EXCEPT ![c] = NRETRIES]
        /\ cpc' = [cpc EXCEPT ![c] = "wait"]
        /\ UNCHANGED <<spc, c_addr, msg, printed, ackNet, faults>>
    BY Zenon DEF SendLine, serverVars
  <2>2. /\ cpc \in [Clients -> {"absent", "socket", "read", "wait", "closed", "failed", "gaveup"}]
        /\ seqno \in [Clients -> 0..MaxLines] /\ remaining \in [Clients -> 0..NRETRIES]
    BY <1>1 DEF TypeOK
  <2>3. cpc'[c] = "wait" /\ seqno'[c] = seqno[c] + 1 /\ remaining'[c] = NRETRIES
    BY <2>1, <2>2
  <2>4. d # c => /\ cpc'[d] = cpc[d] /\ seqno'[d] = seqno[d]
                 /\ remaining'[d] = remaining[d]
    BY <2>1, <2>2
  <2> QED BY <2>1, <2>3, <2>4, Zenon
<1>3. /\ seqno[c] \in Nat /\ MaxLines \in Nat /\ NRETRIES \in Nat
      /\ k \in Line /\ k \in Nat /\ seqno'[c] = k
  BY <1>1, <1>2, ClientNumbers DEF Line
<1>4. SendData(c, k)
  BY Zenon DEF SendLine
<1>5. /\ copies'[c] = [copies[c] EXCEPT ![k] = @ + 1]
      /\ q' = q \/ q' = Append(q, k)
      /\ d # c => copies'[d] = copies[d] /\ dataNet'[d] = dataNet[d]
  BY <1>1, <1>3, <1>4, SendDataEffects
<1>6. CASE d # c
  BY <1>1, <1>2, <1>5, <1>6, ClientStays
<1>7. CASE d = c
  <2>1. /\ CopiesInv(c) /\ CreditInv(c) /\ ExactInv(c)
        /\ "reorder" \notin faults => OrderInv(c) /\ LagInv(c)
    BY <1>1, <1>7 DEF ClientInv
  <2>2. copies[c] \in [Line -> Nat] /\ copies[c][k] = 0
    <3>1. copies[c] \in [Line -> Nat]
      BY <1>1, ClientTypes
    <3>2. ~ (copies[c][k] > 0)
      BY <1>3, <2>1 DEF CopiesInv
    <3> QED BY <1>3, <3>1, <3>2
  <2>3. /\ Completed(c)' = Completed(c) /\ Completed(c) = seqno[c]
        /\ \A l : Hand(c, l)' = Hand(c, l)
        /\ Hand(c, msg)' = Hand(c, msg) /\ Hand(c, msg) \in {0, 1}
    BY <1>2, <1>3 DEF Completed, Hand
  <2>4. /\ q \in Seq(Line) /\ Len(q) \in Nat /\ DOMAIN q = 1..Len(q)
        /\ \A i \in 1..Len(q) : q[i] \in Line /\ q[i] \in Nat
    <3>1. /\ q \in Seq(Line) /\ Len(q) \in Nat /\ DOMAIN q = 1..Len(q)
          /\ \A i \in 1..Len(q) : q[i] \in Line
      BY <1>1, ClientTypes
    <3> QED BY <3>1 DEF Line
  <2>5. /\ Len(q') \in Nat /\ DOMAIN q' = 1..Len(q')
        /\ Len(q') <= Len(q) + 1
        /\ \A i \in DOMAIN q' : \/ i \in DOMAIN q /\ q'[i] = q[i]
                                \/ i = Len(q) + 1 /\ q'[i] = k
    BY <1>1, <1>3, <1>4, SendDataQueue
  <2> HIDE DEF k, q
  <2>6. CopiesInv(c)'
    <3>1. \A l \in Line : (l <= k <=> l <= seqno[c] \/ l = k)
      BY <1>3 DEF Line, k
    <3>2. ASSUME NEW l \in Line
          PROVE  /\ Count(q, l)' + Hand(c, l)' + Count(printed[c], l)' <= copies'[c][l]
                 /\ copies'[c][l] = copies[c][l] + (IF l = k THEN 1 ELSE 0)
                 /\ copies[c][l] \in Nat
      BY <1>1, <1>2, <1>3, <1>4, <2>1, SendCopies DEF q
    <3>3. ASSUME NEW l \in Line
          PROVE  /\ l <= k <=> copies'[c][l] > 0
                 /\ copies'[c][l] <= NRETRIES + 1
      <4>1. /\ l <= seqno[c] <=> copies[c][l] > 0
            /\ copies[c][l] <= NRETRIES + 1
        BY <2>1 DEF CopiesInv
      <4>2. CASE l = k
        BY <1>3, <2>2, <3>2, <4>2
      <4>3. CASE l # k
        BY <3>1, <3>2, <4>1, <4>3
      <4> QED BY <4>2, <4>3
    <3>4. copies'[c][seqno'[c]] + remaining'[c] <= NRETRIES + 1
      BY <1>2, <1>3, <2>2, <3>2
    <3> QED BY <1>3, <3>2, <3>3, <3>4 DEF CopiesInv, q
  <2>7. CreditInv(c)'
    BY <1>1, <1>2, <1>3, <2>1, <2>3, CreditStays DEF k
  <2>8. ExactInv(c)'
    <3> SUFFICES ASSUME \A l \in 1..k : copies'[c][l] = 1
                 PROVE  /\ \A i \in DOMAIN printed[c] : printed[c][i] = i
                        /\ Len(q') + Hand(c, msg) + Len(printed[c]) <= k
                        /\ \A i \in DOMAIN q' : q'[i] = k
                        /\ Hand(c, msg) = 1 => msg = k
      BY <1>2, <1>3, <2>3 DEF ExactInv, q
    <3>1. \A l \in 1..seqno[c] : copies[c][l] = 1
      <4> TAKE l \in 1..seqno[c]
      <4>1. l \in 1..k /\ l # k /\ l \in Line
        BY <1>3 DEF k, Line
      <4> QED BY <1>5, <2>2, <4>1
    <3>2. /\ \A i \in DOMAIN printed[c] : printed[c][i] = i
          /\ Len(q) + Hand(c, msg) + Len(printed[c]) <= seqno[c]
      BY <2>1, <3>1 DEF ExactInv, q
    <3>3. seqno[c] <= Len(printed[c]) /\ Len(printed[c]) \in Nat
      <4>1. /\ Completed(c) + Len(ackNet[c]) + OwedAcks(c) <= Len(printed[c])
            /\ OwedAcks(c) \in {0, 1} /\ Len(ackNet[c]) \in Nat
            /\ Len(printed[c]) \in Nat
        BY <1>1, CreditTypes DEF CreditCovered
      <4> QED BY <1>3, <2>3, <4>1
    <3>4. Len(q) = 0 /\ Hand(c, msg) = 0 /\ Len(printed[c]) = seqno[c]
      BY <1>3, <2>3, <2>4, <3>2, <3>3
    <3>5. Len(q') + Hand(c, msg) + Len(printed[c]) <= k
      BY <1>3, <2>5, <3>4 DEF k
    <3>6. \A i \in DOMAIN q' : q'[i] = k
      BY <2>4, <2>5, <3>4
    <3> QED BY <3>2, <3>4, <3>5, <3>6
  <2>9. ASSUME "reorder" \notin faults PROVE OrderInv(c)'
    <3>1. OrderInv(c)
      BY <2>1, <2>9
    <3>2. \A i \in DOMAIN q : q[i] <= k
      BY <1>1, <1>3, <2>4 DEF q, k
    <3>3. \A i \in DOMAIN printed[c] : printed[c][i] <= k
      <4>1. \A i \in DOMAIN printed[c] : printed[c][i] <= seqno[c] /\ printed[c][i] \in Line
        BY <1>1, <2>1, ClientTypes DEF CreditInv
      <4> QED BY <1>3, <4>1 DEF k, Line
    <3>4. c_addr = c => msg <= k
      <4>1. c_addr = c => msg \in 1..seqno[c]
        <5>1. c_addr = c => spc \in {"print", "ack"}
          BY ConstantsAssumption DEF DeliveryInv, ServerInv
        <5>2. spc \in {"print", "ack"} => msg \in 1..seqno[c_addr]
          BY DEF InductiveInv
        <5> QED BY <5>1, <5>2
      <4> QED BY <1>3, <4>1 DEF k
    <3> QED BY <1>1, <1>2, <1>3, <1>4, <3>1, <3>2, <3>3, <3>4, SendOrder DEF q
  <2>10. ASSUME "reorder" \notin faults PROVE LagInv(c)'
    <3>1. Resends(c)' = Resends(c) /\ Resends(c) \in Nat
      BY <1>1, <1>2, <1>5, <2>2, FirstCopyResends, ResentFinite DEF k
    <3>2. k + Resends(c)' = seqno[c] + Resends(c) + 1
      BY <1>3, <3>1 DEF k
    <3>3. LagInv(c)
      BY <2>1, <2>10
    <3>4. Len(ackNet[c]) \in Nat /\ ackNet'[c] = ackNet[c] /\ Completed(c) \in Nat
      BY <1>1, <1>2, <1>3, <2>3, ClientTypes
    <3> QED BY <1>1, <1>2, <1>3, <1>4, <2>3, <3>1, <3>2, <3>3, <3>4, SendLag
  <2> QED BY <1>2, <1>7, <2>6, <2>7, <2>8, <2>9, <2>10 DEF ClientInv
<1> QED BY <1>6, <1>7

LEMMA ResendDelivery ==
  ASSUME InductiveInv, InductiveInv', DeliveryInv, NEW c \in Clients, Resend(c),
         NEW d \in Clients
  PROVE  ClientInv(d)'
<1> DEFINE k == seqno[c]
           q == dataNet[c]
<1>1. /\ TypeOK /\ TypeOK' /\ ClientInv(d)
      /\ \A i \in DOMAIN q : q[i] <= seqno[c]
      /\ cpc[c] \in {"wait", "gaveup"} => seqno[c] > 0
      /\ cpc[c] = "wait" => remaining[c] > 0
  BY DEF InductiveInv, DeliveryInv
<1>2. /\ cpc[c] = "wait" /\ cpc'[c] \in {"wait", "gaveup"}
      /\ remaining'[c] = remaining[c] - 1
      /\ ackNet'[c] = ackNet[c] \/ ackNet'[c] = << >>
      /\ d # c => /\ cpc'[d] = cpc[d] /\ remaining'[d] = remaining[d]
                  /\ ackNet'[d] = ackNet[d]
      /\ UNCHANGED <<seqno, spc, c_addr, msg, printed, faults>>
  <2>1. /\ cpc[c] = "wait"
        /\ remaining' = [remaining EXCEPT ![c] = @ - 1]
        /\ \/ /\ cpc' = [cpc EXCEPT ![c] = "gaveup"]
              /\ ackNet' = [ackNet EXCEPT ![c] = << >>]
           \/ UNCHANGED <<cpc, ackNet>>
        /\ UNCHANGED <<seqno, spc, c_addr, msg, printed, faults>>
    BY Zenon DEF Resend, serverVars
  <2>2. /\ cpc \in [Clients -> {"absent", "socket", "read", "wait", "closed", "failed", "gaveup"}]
        /\ remaining \in [Clients -> 0..NRETRIES] /\ ackNet \in [Clients -> Seq(Line)]
    BY <1>1 DEF TypeOK
  <2> QED BY <2>1, <2>2
<1>3. /\ k \in Line /\ k \in Nat /\ k > 0 /\ NRETRIES \in Nat
      /\ remaining[c] \in Nat /\ remaining[c] > 0 /\ seqno'[c] = k
  BY <1>1, <1>2, ClientTypes DEF Line
<1>4. SendData(c, k)
  BY Zenon DEF Resend
<1>5. /\ copies'[c] = [copies[c] EXCEPT ![k] = @ + 1]
      /\ q' = q \/ q' = Append(q, k)
      /\ d # c => copies'[d] = copies[d] /\ dataNet'[d] = dataNet[d]
  BY <1>1, <1>3, <1>4, SendDataEffects
<1>6. CASE d # c
  BY <1>1, <1>2, <1>5, <1>6, ClientStays
<1>7. CASE d = c
  <2>1. /\ CopiesInv(c) /\ CreditInv(c) /\ ExactInv(c)
        /\ "reorder" \notin faults => OrderInv(c) /\ LagInv(c)
    BY <1>1, <1>7 DEF ClientInv
  <2>2. copies[c] \in [Line -> Nat] /\ copies[c][k] > 0
    BY <1>1, <1>3, <2>1, ClientTypes DEF CopiesInv
  <2>3. Completed(c)' = Completed(c) /\ Completed(c) \in Nat
    BY <1>2, <1>3 DEF Completed
  <2> HIDE DEF k, q
  <2>4. CopiesInv(c)'
    <3>1. ASSUME NEW l \in Line
          PROVE  /\ Count(q, l)' + Hand(c, l)' + Count(printed[c], l)' <= copies'[c][l]
                 /\ copies'[c][l] = copies[c][l] + (IF l = k THEN 1 ELSE 0)
                 /\ copies[c][l] \in Nat
      BY <1>1, <1>2, <1>3, <1>4, <2>1, SendCopies DEF q
    <3>2. copies[c][k] + remaining[c] <= NRETRIES + 1
      BY <1>2, <2>1 DEF CopiesInv, k
    <3>3. ASSUME NEW l \in Line
          PROVE  /\ l <= k <=> copies'[c][l] > 0
                 /\ copies'[c][l] <= NRETRIES + 1
      <4>1. /\ l <= k <=> copies[c][l] > 0
            /\ copies[c][l] <= NRETRIES + 1
        BY <2>1 DEF CopiesInv, k
      <4>2. CASE l = k
        BY <1>3, <2>2, <3>1, <3>2, <4>2
      <4>3. CASE l # k
        BY <3>1, <4>1, <4>3
      <4> QED BY <4>2, <4>3
    <3>4. copies'[c][seqno'[c]] + remaining'[c] <= NRETRIES + 1
      BY <1>2, <1>3, <3>1, <3>2
    <3> QED BY <1>3, <3>1, <3>3, <3>4 DEF CopiesInv, q
  <2>5. CreditInv(c)'
    BY <1>1, <1>2, <1>3, <2>1, <2>3, CreditStays DEF k
  <2>6. ExactInv(c)'
    <3>1. copies'[c][k] # 1 /\ k \in 1..k
      BY <1>3, <1>5, <2>2
    <3> QED BY <1>3, <3>1 DEF ExactInv
  <2>7. ASSUME "reorder" \notin faults PROVE OrderInv(c)'
    <3>1. OrderInv(c)
      BY <2>1, <2>7
    <3>2. \A i \in DOMAIN q : q[i] <= k
      BY <1>1 DEF q, k
    <3>3. \A i \in DOMAIN printed[c] : printed[c][i] <= k
      BY <2>1 DEF CreditInv, k
    <3>4. c_addr = c => msg <= k
      <4>1. c_addr = c => spc \in {"print", "ack"}
        BY ConstantsAssumption DEF DeliveryInv, ServerInv
      <4>2. spc \in {"print", "ack"} => msg \in 1..seqno[c_addr]
        BY DEF InductiveInv
      <4> QED BY <1>3, <4>1, <4>2 DEF k
    <3> QED BY <1>1, <1>2, <1>3, <1>4, <3>1, <3>2, <3>3, <3>4, SendOrder DEF q
  <2>8. ASSUME "reorder" \notin faults PROVE LagInv(c)'
    <3>1. Resends(c)' = Resends(c) + 1 /\ Resends(c) \in Nat
      BY <1>1, <1>2, <1>3, <1>5, <2>2, FurtherCopyResends, ResentFinite DEF k
    <3>2. k + Resends(c)' = seqno[c] + Resends(c) + 1
      BY <1>3, <3>1 DEF k
    <3>3. LagInv(c)
      BY <2>1, <2>8
    <3>4. /\ Len(ackNet'[c]) \in Nat /\ Len(ackNet'[c]) <= Len(ackNet[c])
          /\ \A i \in DOMAIN ackNet'[c] :
               i \in DOMAIN ackNet[c] /\ ackNet'[c][i] = ackNet[c][i]
      BY <1>1, <1>2, ClientTypes
    <3>5. Resends(c)' \in Nat /\ Resends(c) <= Resends(c)'
      BY <3>1
    <3> QED BY <1>1, <1>2, <1>3, <1>4, <2>3, <3>2, <3>3, <3>4, <3>5, SendLag
  <2> QED BY <1>2, <1>7, <2>4, <2>5, <2>6, <2>7, <2>8 DEF ClientInv
<1> QED BY <1>6, <1>7

\* Fewer acks in the pipeline, or one of them credited to its line.
LEMMA FewerAcksLag ==
  ASSUME TypeOK, NEW c \in Clients, LagInv(c)
  PROVE  /\ c_addr' = c_addr /\ msg' = msg /\ dataNet'[c] = dataNet[c]
         /\ seqno'[c] = seqno[c] /\ copies'[c] = copies[c]
         /\ Completed(c)' + Len(ackNet'[c]) \in Int
         /\ Completed(c)' + Len(ackNet'[c]) <= Completed(c) + Len(ackNet[c])
         /\ \A i \in DOMAIN ackNet'[c] : Completed(c)' + i <= ackNet'[c][i] + Resends(c)
         => LagInv(c)'
<1> DEFINE before == Completed(c) + Len(ackNet[c])
           q == dataNet[c]
<1>0. SUFFICES ASSUME /\ c_addr' = c_addr /\ msg' = msg /\ q' = q
                      /\ seqno'[c] = seqno[c] /\ copies'[c] = copies[c]
                      /\ before' \in Int
                      /\ before' <= before
                      /\ \A i \in DOMAIN ackNet'[c] :
                           Completed(c)' + i <= ackNet'[c][i] + Resends(c)
               PROVE  LagInv(c)'
  OBVIOUS
<1>1. /\ Len(q) \in Nat /\ msg \in Nat /\ seqno[c] \in Nat
      /\ Resends(c) \in Nat /\ Handed(c) \in Nat /\ before \in Int
  BY ClientTypes, CreditTypes, ResentFinite DEF Handed
<1>2. Resends(c)' = Resends(c) /\ Handed(c)' = Handed(c)
  BY <1>0 DEF Resends, Resent, Handed
<1>3. \A i \in DOMAIN q : q[i] \in Nat /\ i \in Nat
  <2>1. DOMAIN q = 1..Len(q) /\ \A i \in 1..Len(q) : q[i] \in Line
    BY ClientTypes
  <2> QED BY <2>1 DEF Line
<1>4. c_addr = c => before + 1 <= msg + Resends(c)
  BY DEF LagInv
<1>5. \A i \in DOMAIN q : before + Handed(c) + i <= q[i] + Resends(c)
  BY DEF LagInv
<1>6. before + Handed(c) + Len(q) <= seqno[c] + Resends(c)
  BY DEF LagInv
<1>7. before' \in Int /\ before' <= before
  BY <1>0
<1> HIDE DEF q, before
<1>8. c_addr = c => before' + 1 <= msg + Resends(c)
  BY <1>1, <1>4, <1>7
<1>9. \A i \in DOMAIN q : before' + Handed(c) + i <= q[i] + Resends(c)
  <2> TAKE i \in DOMAIN q
  <2> DEFINE h == Handed(c)
             room == q[i] + Resends(c)
             after == before'
  <2>1. before + h + i <= room /\ i \in Nat /\ h \in Nat
    BY <1>1, <1>3, <1>5
  <2>2. room \in Nat /\ after \in Int /\ after <= before /\ before \in Int
    BY <1>1, <1>3, <1>7
  <2> HIDE DEF h, room, after
  <2>3. after + h + i <= room
    BY <2>1, <2>2
  <2> QED BY <2>3 DEF h, room, after
<1>10. before' + Handed(c) + Len(q) <= seqno[c] + Resends(c)
  <2>1. before' + Handed(c) + Len(q) <= before + Handed(c) + Len(q)
    BY <1>1, <1>7
  <2> QED BY <1>1, <1>6, <1>7, <2>1
<1> QED BY <1>0, <1>2, <1>8, <1>9, <1>10 DEF LagInv, q, before

LEMMA ReceiveAckDelivery ==
  ASSUME InductiveInv, InductiveInv', DeliveryInv, NEW c \in Clients, ReceiveAck(c),
         NEW d \in Clients
  PROVE  ClientInv(d)'
<1>1. TypeOK /\ TypeOK' /\ ClientInv(d) /\ CreditCovered'
  BY DEF InductiveInv, DeliveryInv
<1>2. PICK i \in Deliverable(ackNet[c]) :
        ackNet' = [ackNet EXCEPT ![c] = RemoveAt(@, i)]
  BY DEF ReceiveAck
<1>3. /\ cpc[c] = "wait" /\ cpc'[c] = "read"
      /\ ackNet'[c] = RemoveAt(ackNet[c], i)
      /\ d # c => cpc'[d] = cpc[d] /\ ackNet'[d] = ackNet[d]
      /\ UNCHANGED <<seqno, remaining, copies, spc, c_addr, msg, printed, dataNet, faults>>
  <2>1. /\ cpc[c] = "wait"
        /\ cpc' = [cpc EXCEPT ![c] = "read"]
        /\ UNCHANGED <<seqno, remaining, copies, spc, c_addr, msg, printed, dataNet, faults>>
    BY Zenon DEF ReceiveAck, serverVars
  <2>2. /\ cpc \in [Clients -> {"absent", "socket", "read", "wait", "closed", "failed", "gaveup"}]
        /\ ackNet \in [Clients -> Seq(Line)]
    BY <1>1 DEF TypeOK
  <2> QED BY <1>2, <2>1, <2>2
<1>4. CASE d # c
  BY <1>1, <1>3, <1>4, ClientStays
<1>5. CASE d = c
  <2>1. /\ CopiesInv(c) /\ CreditInv(c) /\ ExactInv(c)
        /\ "reorder" \notin faults => OrderInv(c) /\ LagInv(c)
    BY <1>1, <1>5 DEF ClientInv
  <2>2. /\ Completed(c)' = seqno[c] /\ Completed(c) = seqno[c] - 1 /\ seqno[c] \in Nat
        /\ \A k : Hand(c, k)' = Hand(c, k)
    BY <1>1, <1>3, ClientTypes DEF Completed, Hand
  <2>3. CopiesInv(c)' /\ ExactInv(c)'
    BY <1>3, <2>1, <2>2, CopiesStays, ExactStays
  <2>4. CreditInv(c)'
    <3>1. seqno[c] <= Len(printed[c])
      <4>1. seqno[c] + Len(ackNet'[c]) + OwedAcks(c)' <= Len(printed[c])
        BY <1>1, <1>3, <2>2 DEF CreditCovered
      <4>2. Len(ackNet'[c]) \in Nat /\ OwedAcks(c)' \in Nat /\ Len(printed[c]) \in Nat
        <5>1. Len(ackNet'[c]) \in Nat
          <6>1. ackNet'[c] \in Seq(Line)
            BY <1>1 DEF TypeOK
          <6> QED BY <6>1, LenProperties
        <5> QED BY <1>1, <5>1, ClientTypes DEF OwedAcks
      <4> QED BY <2>2, <4>1, <4>2
    <3>2. {j \in DOMAIN printed[c] : printed[c][j] <= seqno[c]} = 1..Len(printed[c])
      BY <1>1, <2>1, ClientTypes DEF CreditInv
    <3>3. Cardinality(1..Len(printed[c])) = Len(printed[c])
      <4>1. 1 \in Int /\ Len(printed[c]) \in Nat
        BY <1>1, ClientTypes
      <4> QED BY <4>1, FS_Interval
    <3> QED BY <1>3, <2>1, <2>2, <3>1, <3>2, <3>3 DEF CreditInv
  <2>5. ASSUME "reorder" \notin faults PROVE OrderInv(c)' /\ LagInv(c)'
    <3>1. OrderInv(c) /\ LagInv(c)
      BY <2>1, <2>5
    <3>2. i = 1 /\ i \in DOMAIN ackNet[c]
      BY <2>5 DEF Deliverable
    <3>3. /\ Len(ackNet[c]) \in Nat
          /\ Len(ackNet'[c]) = Len(ackNet[c]) - 1
          /\ DOMAIN ackNet'[c] = 1..(Len(ackNet[c]) - 1)
          /\ \A j \in 1..(Len(ackNet[c]) - 1) : ackNet'[c][j] = ackNet[c][j + 1]
      <4>1. ackNet[c] \in Seq(Line) /\ Len(ackNet[c]) \in Nat
        BY <1>1, ClientTypes
      <4>2. /\ ackNet'[c] \in Seq(Line)
            /\ Len(ackNet'[c]) = Len(ackNet[c]) - 1
            /\ \A j \in 1..(Len(ackNet[c]) - 1) :
                 ackNet'[c][j] = IF j < i THEN ackNet[c][j] ELSE ackNet[c][j + 1]
        <5> DEFINE q == ackNet[c]
        <5>1. q \in Seq(Line) /\ i \in DOMAIN q /\ ackNet'[c] = RemoveAt(q, i)
          BY <1>3, <3>2, <4>1
        <5> HIDE DEF q
        <5>2. /\ RemoveAt(q, i) \in Seq(Line)
              /\ Len(RemoveAt(q, i)) = Len(q) - 1
              /\ \A j \in 1..(Len(q) - 1) :
                   RemoveAt(q, i)[j] = IF j < i THEN q[j] ELSE q[j + 1]
          BY <5>1, RemoveAtProperties
        <5> QED BY <5>1, <5>2 DEF q
      <4>3. DOMAIN ackNet'[c] = 1..(Len(ackNet[c]) - 1)
        BY <4>2, LenProperties
      <4>4. ASSUME NEW j \in 1..(Len(ackNet[c]) - 1)
            PROVE  ackNet'[c][j] = ackNet[c][j + 1]
        <5>1. ~ (j < i)
          BY <3>2, <4>1
        <5> QED BY <4>2, <5>1, Zenon
      <4> QED BY <4>1, <4>2, <4>3, <4>4, Zenon
    <3>4. Len(ackNet[c]) > 0 /\ DOMAIN ackNet[c] = 1..Len(ackNet[c])
      BY <1>1, <3>2, ClientTypes
    <3>5. \A j \in DOMAIN ackNet'[c] : seqno[c] + j <= ackNet'[c][j] + Resends(c)
      <4> TAKE j \in DOMAIN ackNet'[c]
      <4>1. j \in Nat /\ j + 1 \in DOMAIN ackNet[c] /\ ackNet'[c][j] = ackNet[c][j + 1]
        BY <3>3, <3>4
      <4>2. Completed(c) + (j + 1) <= ackNet[c][j + 1] + Resends(c)
        BY <3>1, <4>1 DEF LagInv
      <4>3. Completed(c) + (j + 1) = seqno[c] + j
        BY <2>2, <4>1
      <4> QED BY <4>1, <4>2, <4>3
    <3>6. /\ Completed(c)' + Len(ackNet'[c]) \in Int
          /\ Completed(c)' + Len(ackNet'[c]) <= Completed(c) + Len(ackNet[c])
      BY <2>2, <3>3
    <3> QED BY <1>1, <1>3, <2>2, <3>1, <3>5, <3>6, OrderStays, FewerAcksLag
  <2> QED BY <1>3, <1>5, <2>3, <2>4, <2>5 DEF ClientInv
<1> QED BY <1>4, <1>5

LEMMA EndOfInputDelivery ==
  ASSUME InductiveInv, InductiveInv', DeliveryInv, NEW c \in Clients, EndOfInput(c),
         NEW d \in Clients
  PROVE  ClientInv(d)'
<1>1. TypeOK /\ TypeOK' /\ ClientInv(d)
  BY DEF InductiveInv, DeliveryInv
<1>2. /\ cpc[c] = "read" /\ cpc'[c] = "closed" /\ ackNet'[c] = << >>
      /\ d # c => cpc'[d] = cpc[d] /\ ackNet'[d] = ackNet[d]
      /\ UNCHANGED <<seqno, remaining, copies, spc, c_addr, msg, printed, dataNet, faults>>
  <2>1. /\ cpc[c] = "read"
        /\ cpc' = [cpc EXCEPT ![c] = "closed"]
        /\ ackNet' = [ackNet EXCEPT ![c] = << >>]
        /\ UNCHANGED <<seqno, remaining, copies, spc, c_addr, msg, printed, dataNet, faults>>
    BY Zenon DEF EndOfInput, serverVars
  <2>2. /\ cpc \in [Clients -> {"absent", "socket", "read", "wait", "closed", "failed", "gaveup"}]
        /\ ackNet \in [Clients -> Seq(Line)]
    BY <1>1 DEF TypeOK
  <2> QED BY <2>1, <2>2
<1>3. CASE d # c
  BY <1>1, <1>2, <1>3, ClientStays
<1>4. CASE d = c
  <2>1. /\ CopiesInv(c) /\ CreditInv(c) /\ ExactInv(c)
        /\ "reorder" \notin faults => OrderInv(c) /\ LagInv(c)
    BY <1>1, <1>4 DEF ClientInv
  <2>2. /\ Completed(c)' = Completed(c) /\ Completed(c) = seqno[c] /\ seqno[c] \in Nat
        /\ seqno[c] <= seqno'[c]
        /\ \A k : Hand(c, k)' = Hand(c, k)
    BY <1>1, <1>2, ClientTypes DEF Completed, Hand
  <2>3. CopiesInv(c)' /\ CreditInv(c)' /\ ExactInv(c)'
    BY <1>1, <1>2, <2>1, <2>2, CopiesStays, CreditStays, ExactStays
  <2>4. ASSUME "reorder" \notin faults PROVE OrderInv(c)' /\ LagInv(c)'
    <3>1. /\ Len(ackNet'[c]) = 0 /\ Len(ackNet[c]) \in Nat
          /\ \A i \in DOMAIN ackNet'[c] : FALSE
      BY <1>1, <1>2, ClientTypes
    <3>2. /\ Completed(c)' + Len(ackNet'[c]) \in Int
          /\ Completed(c)' + Len(ackNet'[c]) <= Completed(c) + Len(ackNet[c])
      BY <2>2, <3>1
    <3> QED BY <1>1, <1>2, <2>1, <2>4, <3>1, <3>2, OrderStays, FewerAcksLag
  <2> QED BY <1>2, <1>4, <2>3, <2>4 DEF ClientInv
<1> QED BY <1>3, <1>4

LEMMA LoseAckDelivery ==
  ASSUME InductiveInv, InductiveInv', DeliveryInv, NEW c \in Clients, LoseAck(c),
         NEW d \in Clients
  PROVE  ClientInv(d)'
<1>1. TypeOK /\ TypeOK' /\ ClientInv(d)
  BY DEF InductiveInv, DeliveryInv
<1>2. PICK i \in DOMAIN ackNet[c] :
        ackNet' = [ackNet EXCEPT ![c] = RemoveAt(@, i)]
  BY DEF LoseAck
<1>3. /\ ackNet'[c] = RemoveAt(ackNet[c], i)
      /\ d # c => ackNet'[d] = ackNet[d]
      /\ UNCHANGED <<cpc, seqno, remaining, copies, spc, c_addr, msg, printed, dataNet, faults>>
  <2>1. UNCHANGED <<cpc, seqno, remaining, copies, spc, c_addr, msg, printed, dataNet, faults>>
    BY Zenon DEF LoseAck, clientVars, serverVars
  <2>2. ackNet \in [Clients -> Seq(Line)]
    BY <1>1 DEF TypeOK
  <2> QED BY <1>2, <2>1, <2>2
<1>4. CASE d # c
  BY <1>1, <1>3, <1>4, ClientStays
<1>5. CASE d = c
  <2>1. /\ CopiesInv(c) /\ CreditInv(c) /\ ExactInv(c)
        /\ "reorder" \notin faults => OrderInv(c) /\ LagInv(c)
    BY <1>1, <1>5 DEF ClientInv
  <2>2. /\ Completed(c)' = Completed(c) /\ Completed(c) \in Int /\ seqno[c] <= seqno'[c]
        /\ \A k : Hand(c, k)' = Hand(c, k)
    BY <1>1, <1>3, ClientTypes, CreditTypes DEF Completed, Hand
  <2>3. CopiesInv(c)' /\ CreditInv(c)' /\ ExactInv(c)'
    BY <1>1, <1>3, <2>1, <2>2, CopiesStays, CreditStays, ExactStays
  <2>4. ASSUME "reorder" \notin faults PROVE OrderInv(c)' /\ LagInv(c)'
    <3>1. OrderInv(c) /\ LagInv(c)
      BY <2>1, <2>4
    <3>2. /\ ackNet[c] \in Seq(Line) /\ Len(ackNet[c]) \in Nat
          /\ DOMAIN ackNet[c] = 1..Len(ackNet[c])
          /\ Resends(c) \in Nat
          /\ \A j \in 1..Len(ackNet[c]) : ackNet[c][j] \in Line
      BY <1>1, ClientTypes, ResentFinite
    <3>3. /\ Len(ackNet'[c]) = Len(ackNet[c]) - 1
          /\ DOMAIN ackNet'[c] = 1..(Len(ackNet[c]) - 1)
          /\ \A j \in 1..(Len(ackNet[c]) - 1) :
               ackNet'[c][j] = IF j < i THEN ackNet[c][j] ELSE ackNet[c][j + 1]
      <4>1. /\ ackNet'[c] \in Seq(Line)
            /\ Len(ackNet'[c]) = Len(ackNet[c]) - 1
            /\ \A j \in 1..(Len(ackNet[c]) - 1) :
                 ackNet'[c][j] = IF j < i THEN ackNet[c][j] ELSE ackNet[c][j + 1]
        <5> DEFINE q == ackNet[c]
        <5>1. q \in Seq(Line) /\ i \in DOMAIN q /\ ackNet'[c] = RemoveAt(q, i)
          BY <1>3, <3>2
        <5> HIDE DEF q
        <5>2. /\ RemoveAt(q, i) \in Seq(Line)
              /\ Len(RemoveAt(q, i)) = Len(q) - 1
              /\ \A j \in 1..(Len(q) - 1) :
                   RemoveAt(q, i)[j] = IF j < i THEN q[j] ELSE q[j + 1]
          BY <5>1, RemoveAtProperties
        <5> QED BY <5>1, <5>2 DEF q
      <4> QED BY <4>1, LenProperties
    <3>4. \A j \in DOMAIN ackNet'[c] : Completed(c) + j <= ackNet'[c][j] + Resends(c)
      <4> TAKE j \in DOMAIN ackNet'[c]
      <4>1. j \in Nat /\ j \in DOMAIN ackNet[c] /\ j + 1 \in DOMAIN ackNet[c]
        BY <3>2, <3>3
      <4>2. /\ Completed(c) + j <= ackNet[c][j] + Resends(c)
            /\ Completed(c) + (j + 1) <= ackNet[c][j + 1] + Resends(c)
        BY <3>1, <4>1 DEF LagInv
      <4>3. Completed(c) + j <= ackNet[c][j + 1] + Resends(c)
        <5>1. ackNet[c][j + 1] + Resends(c) \in Int
          BY <3>2, <4>1 DEF Line
        <5> QED BY <2>2, <4>1, <4>2, <5>1
      <4> QED BY <3>3, <4>2, <4>3
    <3>5. /\ Completed(c)' + Len(ackNet'[c]) \in Int
          /\ Completed(c)' + Len(ackNet'[c]) <= Completed(c) + Len(ackNet[c])
      BY <2>2, <3>2, <3>3
    <3> QED BY <1>1, <1>3, <2>2, <3>1, <3>4, <3>5, OrderStays, FewerAcksLag
  <2> QED BY <1>3, <1>5, <2>3, <2>4 DEF ClientInv
<1> QED BY <1>4, <1>5

LEMMA BindServerDelivery ==
  ASSUME InductiveInv, InductiveInv', DeliveryInv, BindServer, NEW d \in Clients
  PROVE  ClientInv(d)'
<1>1. TypeOK /\ TypeOK' /\ ClientInv(d)
  BY DEF InductiveInv, DeliveryInv
<1>2. /\ spc = "socket"
      /\ UNCHANGED <<cpc, seqno, remaining, copies, c_addr, msg, printed,
                     dataNet, ackNet, faults>>
  BY Zenon DEF BindServer, clientVars
<1>3. c_addr # d
  BY <1>2, ConstantsAssumption DEF DeliveryInv, ServerInv
<1> QED BY <1>1, <1>2, <1>3, ClientStays

\* A queue that loses the frame at position i.
LEMMA RemoveAtCounts ==
  ASSUME TypeOK, NEW c \in Clients, NEW i \in DOMAIN dataNet[c],
         dataNet'[c] = RemoveAt(dataNet[c], i)
  PROVE  /\ Len(dataNet'[c]) = Len(dataNet[c]) - 1 /\ Len(dataNet[c]) \in Nat
         /\ DOMAIN dataNet'[c] = 1..(Len(dataNet[c]) - 1)
         /\ DOMAIN dataNet[c] = 1..Len(dataNet[c])
         /\ \A j \in 1..(Len(dataNet[c]) - 1) :
              dataNet'[c][j] = IF j < i THEN dataNet[c][j] ELSE dataNet[c][j + 1]
         /\ \A l \in Line :
              /\ Count(dataNet[c], l) \in Nat
              /\ Count(dataNet[c], l)'
                   = Count(dataNet[c], l) - (IF dataNet[c][i] = l THEN 1 ELSE 0)
<1> DEFINE q == dataNet[c]
<1>1. q \in Seq(Line) /\ Len(q) \in Nat /\ DOMAIN q = 1..Len(q)
  BY ClientTypes
<1>2. q' = RemoveAt(q, i)
  OBVIOUS
<1> HIDE DEF q
<1>3. /\ q' \in Seq(Line)
      /\ Len(q') = Len(q) - 1
      /\ \A j \in 1..(Len(q) - 1) : q'[j] = IF j < i THEN q[j] ELSE q[j + 1]
  <2>1. i \in DOMAIN q
    BY DEF q
  <2> QED BY <1>1, <1>2, <2>1, RemoveAtProperties
<1>4. DOMAIN q' = 1..(Len(q) - 1)
  BY <1>3, LenProperties
<1>5. ASSUME NEW l \in Line
      PROVE  /\ Count(q, l) \in Nat
             /\ Count(q', l) = Count(q, l) - (IF q[i] = l THEN 1 ELSE 0)
  <2>1. i \in DOMAIN q
    BY DEF q
  <2>2. Count(q, l) \in Nat
    BY <1>1, CountType
  <2>3. Count(RemoveAt(q, i), l) = Count(q, l) - (IF q[i] = l THEN 1 ELSE 0)
    BY <1>1, <2>1, CountRemoveAt
  <2> QED BY <1>2, <2>2, <2>3
<1>6. \A l \in Line : Count(q, l)' = Count(q', l)
  BY DEF Count
<1> QED BY <1>1, <1>3, <1>4, <1>5, <1>6 DEF q

\* Frames taken out of the queue leave it in order.
LEMMA FewerFramesOrder ==
  ASSUME TypeOK, NEW c \in Clients, OrderInv(c), NEW i \in DOMAIN dataNet[c],
         dataNet'[c] = RemoveAt(dataNet[c], i)
  PROVE  /\ \A j, l \in DOMAIN dataNet'[c] : j <= l => dataNet'[c][j] <= dataNet'[c][l]
         /\ \A j \in DOMAIN dataNet'[c] :
              \E m \in DOMAIN dataNet[c] : dataNet'[c][j] = dataNet[c][m]
<1> DEFINE q == dataNet[c]
           at == [j \in DOMAIN q' |-> IF j < i THEN j ELSE j + 1]
<1>1. /\ Len(q) \in Nat /\ DOMAIN q = 1..Len(q) /\ DOMAIN q' = 1..(Len(q) - 1)
      /\ \A j \in 1..(Len(q) - 1) : q'[j] = IF j < i THEN q[j] ELSE q[j + 1]
  BY RemoveAtCounts
<1>2. i \in 1..Len(q)
  BY <1>1
<1>3. \A j, l \in DOMAIN q : j <= l => q[j] <= q[l]
  BY DEF OrderInv
<1> HIDE DEF q
<1>4. \A j \in DOMAIN q' : at[j] \in DOMAIN q /\ q'[j] = q[at[j]]
  BY <1>1, <1>2
<1>5. \A j, l \in DOMAIN q' : j <= l => at[j] <= at[l]
  BY <1>1, <1>2
<1> HIDE DEF at
<1>6. \A j, l \in DOMAIN q' : j <= l => q'[j] <= q'[l]
  BY <1>3, <1>4, <1>5
<1> QED BY <1>4, <1>6 DEF q

LEMMA ReceiveDelivery ==
  ASSUME InductiveInv, InductiveInv', DeliveryInv, NEW c \in Clients, Receive(c),
         NEW d \in Clients
  PROVE  ClientInv(d)'
<1> DEFINE q == dataNet[c]
<1>1. TypeOK /\ TypeOK' /\ ClientInv(d) /\ c_addr = NoClient
  <2>1. spc = "recv"
    BY DEF Receive
  <2> QED BY <2>1 DEF InductiveInv, DeliveryInv, ServerInv
<1>2. PICK i \in Deliverable(q) :
        /\ msg' = q[i]
        /\ dataNet' = [dataNet EXCEPT ![c] = RemoveAt(@, i)]
  BY DEF Receive
<1>3. i \in DOMAIN q /\ ("reorder" \notin faults => i = 1)
  BY DEF Deliverable
<1>4. /\ spc = "recv" /\ spc' = "print" /\ c_addr' = c
      /\ msg' = q[i] /\ q' = RemoveAt(q, i)
      /\ d # c => dataNet'[d] = dataNet[d]
      /\ UNCHANGED <<cpc, seqno, remaining, copies, printed, ackNet, faults>>
  <2>1. /\ spc = "recv" /\ spc' = "print" /\ c_addr' = c
        /\ UNCHANGED <<cpc, seqno, remaining, copies, printed, ackNet, faults>>
    BY Zenon DEF Receive, clientVars
  <2>2. dataNet \in [Clients -> Seq(Line)]
    BY <1>1 DEF TypeOK
  <2> QED BY <1>2, <2>1, <2>2
<1>5. c_addr # c /\ c_addr # d
  BY <1>1, ConstantsAssumption
<1>6. CASE d # c
  BY <1>1, <1>4, <1>5, <1>6, ClientStays
<1>7. CASE d = c
  <2>1. /\ CopiesInv(c) /\ CreditInv(c) /\ ExactInv(c)
        /\ "reorder" \notin faults => OrderInv(c) /\ LagInv(c)
    BY <1>1, <1>7 DEF ClientInv
  <2>2. /\ Completed(c)' = Completed(c) /\ Completed(c) \in Int /\ seqno[c] <= seqno'[c]
        /\ seqno[c] \in Nat
        /\ \A k : Hand(c, k) = 0 /\ Hand(c, k)' = (IF q[i] = k THEN 1 ELSE 0)
        /\ Hand(c, msg)' = 1
    BY <1>1, <1>4, <1>5, ClientTypes, CreditTypes DEF Completed, Hand
  <2>3. /\ Len(q') = Len(q) - 1 /\ Len(q) \in Nat
        /\ DOMAIN q' = 1..(Len(q) - 1) /\ DOMAIN q = 1..Len(q)
        /\ \A j \in 1..(Len(q) - 1) : q'[j] = IF j < i THEN q[j] ELSE q[j + 1]
        /\ \A l \in Line : /\ Count(q, l) \in Nat
                           /\ Count(q, l)' = Count(q, l) - (IF q[i] = l THEN 1 ELSE 0)
    BY <1>1, <1>3, <1>4, RemoveAtCounts
  <2> HIDE DEF q
  <2>4. CopiesInv(c)'
    <3>1. ASSUME NEW l \in Line
          PROVE  (Count(q, l) + Hand(c, l) + Count(printed[c], l))' <= copies'[c][l]
      <4>1. Count(q, l) + Hand(c, l) + Count(printed[c], l) <= copies[c][l]
        BY <2>1 DEF CopiesInv, q
      <4>2. Count(printed[c], l) \in Nat /\ Count(printed[c], l)' = Count(printed[c], l)
        <5>1. Count(printed[c], l) \in Nat
          BY <1>1, ClientTypes, CountType
        <5> QED BY <1>4, <5>1 DEF Count
      <4> QED BY <1>4, <2>2, <2>3, <4>1, <4>2
    <3> QED BY <1>4, <2>1, <3>1 DEF CopiesInv, q
  <2>5. CreditInv(c)'
    BY <1>1, <1>4, <2>1, <2>2, CreditStays
  <2>6. ExactInv(c)'
    <3> SUFFICES ASSUME \A k \in 1..seqno[c] : copies[c][k] = 1
                 PROVE  /\ \A j \in DOMAIN printed[c] : printed[c][j] = j
                        /\ Len(q') + 1 + Len(printed[c]) <= seqno[c]
                        /\ \A j \in DOMAIN q' : q'[j] = seqno[c]
                        /\ msg' = seqno[c]
      BY <1>4, <2>2 DEF ExactInv, q
    <3>1. /\ \A j \in DOMAIN printed[c] : printed[c][j] = j
          /\ Len(q) + Hand(c, msg) + Len(printed[c]) <= seqno[c]
          /\ \A j \in DOMAIN q : q[j] = seqno[c]
      BY <2>1 DEF ExactInv, q
    <3>2. \A j \in DOMAIN q' : q'[j] = seqno[c]
      BY <2>3, <3>1
    <3>3. Len(printed[c]) \in Nat
      BY <1>1, ClientTypes
    <3>4. Len(q') + 1 + Len(printed[c]) <= seqno[c]
      <4> DEFINE n == Len(q)
                 m == Len(printed[c])
      <4>1. n \in Nat /\ m \in Nat /\ n + 0 + m <= seqno[c]
        BY <2>2, <2>3, <3>1, <3>3
      <4>2. Len(q') = n - 1
        BY <2>3
      <4> HIDE DEF n, m
      <4>3. n - 1 + 1 + m <= seqno[c]
        BY <2>2, <4>1
      <4> QED BY <4>2, <4>3 DEF m
    <3>5. msg' = seqno[c]
      BY <1>3, <1>4, <3>1
    <3> QED BY <3>1, <3>2, <3>4, <3>5
  <2>7. ASSUME "reorder" \notin faults PROVE OrderInv(c)'
    <3>1. OrderInv(c) /\ i = 1
      BY <1>3, <2>1, <2>7
    <3>2. /\ \A j, l \in DOMAIN q' : j <= l => q'[j] <= q'[l]
          /\ \A j \in DOMAIN q' : \E m \in DOMAIN q : q'[j] = q[m]
      BY <1>1, <1>3, <1>4, <3>1, FewerFramesOrder DEF q
    <3>3. \A j \in DOMAIN printed[c] : \A l \in DOMAIN q : printed[c][j] <= q[l]
      BY <3>1 DEF OrderInv, q
    <3>4. \A l \in DOMAIN q : q[i] <= q[l]
      <4>1. \A l \in DOMAIN q : 1 <= l
        BY <2>3
      <4>2. \A j, l \in DOMAIN q : j <= l => q[j] <= q[l]
        BY <3>1 DEF OrderInv, q
      <4> QED BY <1>3, <3>1, <4>1, <4>2, Zenon
    <3>5. \A j \in DOMAIN printed[c] : printed[c][j] <= q[i]
      BY <1>3, <3>3
    <3> QED BY <1>4, <3>1, <3>2, <3>3, <3>4, <3>5 DEF OrderInv, q
  <2>8. ASSUME "reorder" \notin faults PROVE LagInv(c)'
    <3> DEFINE before == Completed(c) + Len(ackNet[c])
    <3>1. LagInv(c) /\ i = 1
      BY <1>3, <2>1, <2>8
    <3>2. Resends(c)' = Resends(c) /\ Resends(c) \in Nat
      BY <1>1, <1>4, ResentFinite DEF Resends, Resent
    <3>3. Handed(c) = 0 /\ Handed(c)' = 1
      BY <1>4, <1>5 DEF Handed
    <3>4. /\ \A j \in DOMAIN ackNet[c] : Completed(c) + j <= ackNet[c][j] + Resends(c)
          /\ \A j \in DOMAIN q : before + 0 + j <= q[j] + Resends(c)
          /\ before + 0 + Len(q) <= seqno[c] + Resends(c)
      BY <3>1, <3>3 DEF LagInv, q
    <3>5. before \in Int /\ before' = before
      BY <1>1, <1>4, <2>2, ClientTypes
    <3> HIDE DEF before
    <3>6. before + 1 <= msg' + Resends(c)
      <4>1. before + 0 + 1 <= q[1] + Resends(c)
        BY <1>3, <3>1, <3>4
      <4> QED BY <1>4, <3>1, <3>5, <4>1
    <3>7. \A j \in DOMAIN q' : before + 1 + j <= q'[j] + Resends(c)
      <4> TAKE j \in DOMAIN q'
      <4>1. j \in Nat /\ j + 1 \in DOMAIN q /\ q'[j] = q[j + 1]
        BY <2>3, <3>1
      <4>2. before + 0 + (j + 1) <= q[j + 1] + Resends(c)
        BY <3>4, <4>1
      <4>3. before + 0 + (j + 1) = before + 1 + j
        BY <3>5, <4>1
      <4> QED BY <4>1, <4>2, <4>3
    <3>8. before + 1 + Len(q') <= seqno[c] + Resends(c)
      BY <2>3, <3>4, <3>5
    <3> QED BY <1>4, <2>2, <3>2, <3>3, <3>4, <3>5, <3>6, <3>7, <3>8 DEF LagInv, q, before
  <2> QED BY <1>4, <1>7, <2>4, <2>5, <2>6, <2>7, <2>8 DEF ClientInv
<1> QED BY <1>6, <1>7

LEMMA LoseDataDelivery ==
  ASSUME InductiveInv, InductiveInv', DeliveryInv, NEW c \in Clients, LoseData(c),
         NEW d \in Clients
  PROVE  ClientInv(d)'
<1> DEFINE q == dataNet[c]
<1>1. TypeOK /\ TypeOK' /\ ClientInv(d)
  BY DEF InductiveInv, DeliveryInv
<1>2. PICK i \in DOMAIN q : dataNet' = [dataNet EXCEPT ![c] = RemoveAt(@, i)]
  BY DEF LoseData
<1>3. /\ q' = RemoveAt(q, i)
      /\ d # c => dataNet'[d] = dataNet[d]
      /\ UNCHANGED <<cpc, seqno, remaining, copies, spc, c_addr, msg, printed, ackNet, faults>>
  <2>1. UNCHANGED <<cpc, seqno, remaining, copies, spc, c_addr, msg, printed, ackNet, faults>>
    BY Zenon DEF LoseData, clientVars, serverVars
  <2>2. dataNet \in [Clients -> Seq(Line)]
    BY <1>1 DEF TypeOK
  <2> QED BY <1>2, <2>1, <2>2
<1>4. CASE d # c
  BY <1>1, <1>3, <1>4, ClientStays
<1>5. CASE d = c
  <2>1. /\ CopiesInv(c) /\ CreditInv(c) /\ ExactInv(c)
        /\ "reorder" \notin faults => OrderInv(c) /\ LagInv(c)
    BY <1>1, <1>5 DEF ClientInv
  <2>2. /\ Completed(c)' = Completed(c) /\ Completed(c) \in Int /\ seqno[c] <= seqno'[c]
        /\ seqno[c] \in Nat
        /\ \A k : Hand(c, k)' = Hand(c, k) /\ Hand(c, k) \in {0, 1}
        /\ Hand(c, msg)' = Hand(c, msg)
    BY <1>1, <1>3, ClientTypes, CreditTypes DEF Completed, Hand
  <2>3. /\ Len(q') = Len(q) - 1 /\ Len(q) \in Nat
        /\ DOMAIN q' = 1..(Len(q) - 1) /\ DOMAIN q = 1..Len(q)
        /\ \A j \in 1..(Len(q) - 1) : q'[j] = IF j < i THEN q[j] ELSE q[j + 1]
        /\ \A l \in Line : /\ Count(q, l) \in Nat
                           /\ Count(q, l)' = Count(q, l) - (IF q[i] = l THEN 1 ELSE 0)
    BY <1>1, <1>2, <1>3, RemoveAtCounts
  <2> HIDE DEF q
  <2>4. CopiesInv(c)'
    <3>1. ASSUME NEW l \in Line
          PROVE  (Count(q, l) + Hand(c, l) + Count(printed[c], l))' <= copies'[c][l]
      <4>1. Count(q, l) + Hand(c, l) + Count(printed[c], l) <= copies[c][l]
        BY <2>1 DEF CopiesInv, q
      <4>2. Count(printed[c], l) \in Nat /\ Count(printed[c], l)' = Count(printed[c], l)
        <5>1. Count(printed[c], l) \in Nat
          BY <1>1, ClientTypes, CountType
        <5> QED BY <1>3, <5>1 DEF Count
      <4>3. copies[c][l] \in Nat /\ copies'[c][l] = copies[c][l]
        BY <1>1, <1>3, ClientTypes
      <4>4. /\ Count(q, l)' \in Int /\ Count(q, l)' <= Count(q, l) /\ Count(q, l) \in Nat
            /\ Hand(c, l)' = Hand(c, l) /\ Hand(c, l) \in Nat
        BY <2>2, <2>3
      <4> QED BY <4>1, <4>2, <4>3, <4>4
    <3> QED BY <1>3, <2>1, <3>1 DEF CopiesInv, q
  <2>5. CreditInv(c)'
    BY <1>1, <1>3, <2>1, <2>2, CreditStays
  <2>6. ExactInv(c)'
    <3> SUFFICES ASSUME \A k \in 1..seqno[c] : copies[c][k] = 1
                 PROVE  /\ \A j \in DOMAIN printed[c] : printed[c][j] = j
                        /\ Len(q') + Hand(c, msg) + Len(printed[c]) <= seqno[c]
                        /\ \A j \in DOMAIN q' : q'[j] = seqno[c]
                        /\ Hand(c, msg) = 1 => msg = seqno[c]
      BY <1>3, <2>2 DEF ExactInv, q
    <3>1. /\ \A j \in DOMAIN printed[c] : printed[c][j] = j
          /\ Len(q) + Hand(c, msg) + Len(printed[c]) <= seqno[c]
          /\ \A j \in DOMAIN q : q[j] = seqno[c]
          /\ Hand(c, msg) = 1 => msg = seqno[c]
      BY <2>1 DEF ExactInv, q
    <3>2. \A j \in DOMAIN q' : q'[j] = seqno[c]
      BY <2>3, <3>1
    <3>3. Len(printed[c]) \in Nat /\ Hand(c, msg) \in Nat
      BY <1>1, <2>2, ClientNumbers
    <3>4. Len(q') + Hand(c, msg) + Len(printed[c]) <= seqno[c]
      <4> DEFINE n == Len(q)
                 h == Hand(c, msg)
                 m == Len(printed[c])
      <4>1. n \in Nat /\ h \in Nat /\ m \in Nat /\ n + h + m <= seqno[c]
        BY <2>3, <3>1, <3>3
      <4>2. Len(q') = n - 1
        BY <2>3
      <4> HIDE DEF n, h, m
      <4>3. n - 1 + h + m <= seqno[c]
        BY <2>2, <4>1
      <4> QED BY <4>2, <4>3 DEF h, m
    <3> QED BY <3>1, <3>2, <3>4
  <2>7. ASSUME "reorder" \notin faults PROVE OrderInv(c)'
    <3>1. OrderInv(c)
      BY <2>1, <2>7
    <3>2. /\ \A j, l \in DOMAIN q' : j <= l => q'[j] <= q'[l]
          /\ \A j \in DOMAIN q' : \E m \in DOMAIN q : q'[j] = q[m]
      BY <1>1, <1>2, <1>3, <3>1, FewerFramesOrder DEF q
    <3> QED BY <1>3, <3>1, <3>2 DEF OrderInv, q
  <2>8. ASSUME "reorder" \notin faults PROVE LagInv(c)'
    <3> DEFINE before == Completed(c) + Len(ackNet[c])
    <3>1. LagInv(c)
      BY <2>1, <2>8
    <3>2. /\ Resends(c)' = Resends(c) /\ Resends(c) \in Nat
          /\ Handed(c)' = Handed(c) /\ Handed(c) \in Nat
      BY <1>1, <1>3, ResentFinite DEF Resends, Resent, Handed
    <3>3. /\ \A j \in DOMAIN q : before + Handed(c) + j <= q[j] + Resends(c)
          /\ before + Handed(c) + Len(q) <= seqno[c] + Resends(c)
      BY <3>1 DEF LagInv, q
    <3>4. before \in Int /\ before' = before
      BY <1>1, <1>3, <2>2, ClientTypes
    <3>5. \A j \in DOMAIN q : q[j] \in Nat /\ j \in Nat
      <4>1. \A j \in DOMAIN q : q[j] \in Line
        BY <1>1, <2>3, ClientTypes DEF q
      <4> QED BY <2>3, <4>1 DEF Line
    <3> DEFINE base == before + Handed(c)
    <3>6. base \in Int
      BY <3>2, <3>4
    <3> HIDE DEF before, base
    <3>7. \A j \in DOMAIN q' : base + j <= q'[j] + Resends(c)
      <4> TAKE j \in DOMAIN q'
      <4>1. j \in Nat /\ j \in DOMAIN q /\ j + 1 \in DOMAIN q
        BY <2>3
      <4>2. /\ base + j <= q[j] + Resends(c)
            /\ base + (j + 1) <= q[j + 1] + Resends(c)
        BY <3>3, <4>1 DEF base
      <4>3. base + j <= q[j + 1] + Resends(c)
        BY <3>2, <3>5, <3>6, <4>1, <4>2
      <4> QED BY <2>3, <4>2, <4>3
    <3>8. base + Len(q') <= seqno[c] + Resends(c)
      BY <2>2, <2>3, <3>2, <3>3, <3>6 DEF base
    <3> QED BY <1>3, <2>2, <3>1, <3>2, <3>4, <3>7, <3>8 DEF LagInv, q, before, base
  <2> QED BY <1>3, <1>5, <2>4, <2>5, <2>6, <2>7, <2>8 DEF ClientInv
<1> QED BY <1>4, <1>5

LEMMA ReceiveFailsDelivery ==
  ASSUME InductiveInv, InductiveInv', DeliveryInv, ReceiveFails, NEW d \in Clients
  PROVE  ClientInv(d)'
<1>1. TypeOK /\ TypeOK' /\ ClientInv(d)
  BY DEF InductiveInv, DeliveryInv
<1>2. /\ spc = "recv" /\ spc' = "stopped" /\ dataNet'[d] = << >>
      /\ UNCHANGED <<cpc, seqno, remaining, copies, c_addr, msg, printed, ackNet, faults>>
  BY Zenon DEF ReceiveFails, clientVars
<1>3. /\ CopiesInv(d) /\ CreditInv(d) /\ ExactInv(d)
      /\ "reorder" \notin faults => OrderInv(d) /\ LagInv(d)
  BY <1>1 DEF ClientInv
<1>4. /\ Completed(d)' = Completed(d) /\ Completed(d) \in Int
      /\ seqno[d] <= seqno'[d] /\ seqno[d] \in Nat
      /\ \A k : Hand(d, k) = 0 /\ Hand(d, k)' = 0
      /\ Hand(d, msg) = 0 /\ Hand(d, msg)' = 0
      /\ Handed(d) = 0 /\ Handed(d)' = 0
      /\ c_addr # d
  <2>1. c_addr # d
    BY <1>2, ConstantsAssumption DEF DeliveryInv, ServerInv
  <2> QED BY <1>1, <1>2, <2>1, ClientTypes, CreditTypes DEF Completed, Hand, Handed
<1>5. Len(dataNet'[d]) = 0 /\ \A i \in DOMAIN dataNet'[d] : FALSE
  BY <1>2
<1>6. /\ Len(dataNet[d]) \in Nat /\ Len(printed[d]) \in Nat /\ Len(ackNet[d]) \in Nat
  BY <1>1, ClientTypes
<1>7. CopiesInv(d)'
  <2>1. ASSUME NEW l \in Line
        PROVE  (Count(dataNet[d], l) + Hand(d, l) + Count(printed[d], l))' <= copies'[d][l]
    <3>1. Count(dataNet[d], l) + Hand(d, l) + Count(printed[d], l) <= copies[d][l]
      BY <1>3 DEF CopiesInv
    <3>2. /\ Count(dataNet[d], l) \in Nat /\ Count(printed[d], l) \in Nat
          /\ copies[d][l] \in Nat
      BY <1>1, ClientTypes, CountType
    <3>3. Count(printed[d], l)' = Count(printed[d], l)
      BY <1>2 DEF Count
    <3>4. Count(dataNet[d], l)' = 0
      <4>1. Count(dataNet'[d], l) = 0
        <5>1. dataNet'[d] \in Seq(Line)
          BY <1>1 DEF TypeOK
        <5> QED BY <1>5, <5>1, CountType
      <4> QED BY <4>1 DEF Count
    <3> QED BY <1>2, <1>4, <3>1, <3>2, <3>3, <3>4
  <2> QED BY <1>2, <1>3, <2>1 DEF CopiesInv
<1>8. CreditInv(d)'
  BY <1>1, <1>2, <1>3, <1>4, CreditStays
<1>9. ExactInv(d)'
  <2>0. SUFFICES ASSUME \A k \in 1..seqno[d] : copies[d][k] = 1
               PROVE  /\ \A i \in DOMAIN printed[d] : printed[d][i] = i
                      /\ 0 + 0 + Len(printed[d]) <= seqno[d]
    BY <1>2, <1>4, <1>5 DEF ExactInv
  <2>1. \A i \in DOMAIN printed[d] : printed[d][i] = i
    BY <1>3, <2>0 DEF ExactInv
  <2>2. Len(dataNet[d]) + Hand(d, msg) + Len(printed[d]) <= seqno[d]
    BY <1>3, <2>0 DEF ExactInv
  <2>3. Hand(d, msg) = 0 /\ seqno[d] \in Nat
    BY <1>4
  <2>4. Len(printed[d]) <= seqno[d]
    <3> DEFINE n == Len(dataNet[d])
               m == Len(printed[d])
    <3>1. n \in Nat /\ m \in Nat
      BY <1>6
    <3>2. n + 0 + m <= seqno[d]
      BY <2>2, <2>3
    <3> HIDE DEF n, m
    <3>3. m <= seqno[d]
      BY <2>3, <3>1, <3>2
    <3> QED BY <3>3 DEF m
  <2> QED BY <1>6, <2>1, <2>4
<1>10. ASSUME "reorder" \notin faults PROVE OrderInv(d)' /\ LagInv(d)'
  <2>1. OrderInv(d) /\ LagInv(d)
    BY <1>3, <1>10
  <2>2. OrderInv(d)'
    BY <1>2, <1>4, <1>5, <2>1 DEF OrderInv
  <2>3. Resends(d)' = Resends(d) /\ Resends(d) \in Nat
    BY <1>1, <1>2, ResentFinite DEF Resends, Resent
  <2>4. LagInv(d)'
    <3> DEFINE before == Completed(d) + Len(ackNet[d])
    <3>1. /\ \A i \in DOMAIN ackNet[d] : Completed(d) + i <= ackNet[d][i] + Resends(d)
          /\ before + Handed(d) + Len(dataNet[d]) <= seqno[d] + Resends(d)
      BY <2>1 DEF LagInv
    <3>2. before \in Int /\ before' = before
      BY <1>2, <1>4, <1>6
    <3> HIDE DEF before
    <3>3. before + 0 + 0 <= seqno[d] + Resends(d)
      BY <1>4, <1>6, <2>3, <3>1, <3>2
    <3> QED BY <1>2, <1>4, <1>5, <2>3, <3>1, <3>2, <3>3 DEF LagInv, before
  <2> QED BY <2>2, <2>4
<1> QED BY <1>2, <1>7, <1>8, <1>9, <1>10 DEF ClientInv

LEMMA PrintLineDelivery ==
  ASSUME InductiveInv, InductiveInv', DeliveryInv, PrintLine, NEW d \in Clients
  PROVE  ClientInv(d)'
<1> DEFINE p == printed[d]
<1>1. /\ TypeOK /\ TypeOK' /\ ClientInv(d) /\ CreditCovered
      /\ c_addr \in Clients /\ msg \in 1..seqno[c_addr]
  <2>1. spc = "print"
    BY DEF PrintLine
  <2> QED BY <2>1 DEF InductiveInv, DeliveryInv, TypeOK
<1>2. /\ spc = "print" /\ spc' = "ack"
      /\ c_addr = d => p' = Append(p, msg)
      /\ c_addr # d => p' = p
      /\ UNCHANGED <<cpc, seqno, remaining, copies, c_addr, msg, dataNet, ackNet, faults>>
  <2>1. /\ spc = "print" /\ spc' = "ack"
        /\ printed' = [printed EXCEPT ![c_addr] = Append(@, msg)]
        /\ UNCHANGED <<cpc, seqno, remaining, copies, c_addr, msg, dataNet, ackNet, faults>>
    BY Zenon DEF PrintLine, clientVars
  <2>2. printed \in [Clients -> Seq(Line)]
    BY <1>1 DEF TypeOK
  <2> QED BY <2>1, <2>2
<1>3. CASE c_addr # d
  BY <1>1, <1>2, <1>3, ClientStays
<1>4. CASE c_addr = d
  <2>1. /\ CopiesInv(d) /\ CreditInv(d) /\ ExactInv(d)
        /\ "reorder" \notin faults => OrderInv(d) /\ LagInv(d)
    BY <1>1 DEF ClientInv
  <2>2. /\ Completed(d)' = Completed(d) /\ Completed(d) \in Int
        /\ seqno[d] \in Nat /\ seqno[d] - 1 <= Completed(d)
        /\ msg \in Nat /\ msg <= seqno[d] /\ msg \in Line
        /\ \A k : Hand(d, k)' = 0 /\ Hand(d, k) = (IF msg = k THEN 1 ELSE 0)
        /\ Hand(d, msg)' = 0 /\ Hand(d, msg) = 1
    <3>1. /\ seqno[d] \in Nat /\ seqno[d] <= MaxLines /\ MaxLines \in Nat
          /\ Completed(d) \in Int
      BY <1>1, ClientTypes, CreditTypes
    <3>2. Completed(d)' = Completed(d) /\ seqno[d] - 1 <= Completed(d)
      BY <1>2, <3>1 DEF Completed
    <3>3. msg \in Nat /\ msg <= seqno[d] /\ msg \in Line
      BY <1>1, <1>4, <3>1 DEF Line
    <3>4. /\ \A k : Hand(d, k)' = 0 /\ Hand(d, k) = (IF msg = k THEN 1 ELSE 0)
          /\ Hand(d, msg)' = 0 /\ Hand(d, msg) = 1
      BY <1>2, <1>4 DEF Hand
    <3> QED BY <3>1, <3>2, <3>3, <3>4
  <2>3. /\ p \in Seq(Line) /\ Len(p) \in Nat /\ DOMAIN p = 1..Len(p)
        /\ \A i \in DOMAIN p : p[i] \in Nat
    <3>1. /\ p \in Seq(Line) /\ Len(p) \in Nat /\ DOMAIN p = 1..Len(p)
          /\ \A i \in DOMAIN p : p[i] \in Line
      BY <1>1, ClientTypes
    <3> QED BY <3>1 DEF Line
  <2>4. p' = Append(p, msg)
    BY <1>2, <1>4
  <2> HIDE DEF p
  <2>5. /\ Len(p') = Len(p) + 1 /\ DOMAIN p' = 1..(Len(p) + 1)
        /\ \A i \in 1..Len(p) : p'[i] = p[i]
        /\ p'[Len(p) + 1] = msg
    BY <2>2, <2>3, <2>4, AppendElements
  <2>6. CopiesInv(d)'
    <3>1. ASSUME NEW l \in Line
          PROVE  (Count(dataNet[d], l) + Hand(d, l) + Count(p, l))' <= copies'[d][l]
      <4>1. Count(dataNet[d], l) + Hand(d, l) + Count(p, l) <= copies[d][l]
        BY <2>1 DEF CopiesInv, p
      <4>2. Count(dataNet[d], l) \in Nat
        BY <1>1, ClientTypes, CountType
      <4>3. Count(p, l) \in Nat
        BY <2>3, CountType
      <4>4. Count(p, l)' = Count(p, l) + (IF msg = l THEN 1 ELSE 0)
        <5>1. Count(Append(p, msg), l) = Count(p, l) + (IF msg = l THEN 1 ELSE 0)
          BY <2>2, <2>3, CountAppend
        <5> QED BY <2>4, <5>1 DEF Count
      <4>5. Count(dataNet[d], l)' = Count(dataNet[d], l)
        BY <1>2 DEF Count
      <4> QED BY <1>2, <2>2, <4>1, <4>2, <4>3, <4>4, <4>5
    <3> QED BY <1>2, <2>1, <3>1 DEF CopiesInv, p
  <2>7. CreditInv(d)'
    <3> DEFINE paid == {i \in DOMAIN p : p[i] <= Completed(d)}
               paid2 == {i \in DOMAIN p' : p'[i] <= Completed(d)}
    <3>1. Completed(d) <= Cardinality(paid)
      BY <2>1 DEF CreditInv, p
    <3>2. paid \subseteq paid2
      BY <2>3, <2>5
    <3>3. IsFiniteSet(paid2)
      <4>1. IsFiniteSet(1..(Len(p) + 1))
        <5>1. 1 \in Int /\ Len(p) + 1 \in Int
          BY <2>3
        <5> QED BY <5>1, FS_Interval
      <4>2. paid2 \subseteq 1..(Len(p) + 1)
        BY <2>5
      <4> HIDE DEF paid2
      <4> QED BY <4>1, <4>2, FS_Subset
    <3> HIDE DEF paid, paid2
    <3>4. Cardinality(paid) <= Cardinality(paid2)
      BY <3>2, <3>3, FS_Subset
    <3>5. Cardinality(paid2) \in Nat /\ Cardinality(paid) \in Nat
      BY <3>2, <3>3, FS_Subset, FS_CardinalityType
    <3>6. Completed(d) <= Cardinality(paid2)
      BY <2>2, <3>1, <3>4, <3>5
    <3>7. \A i \in DOMAIN p' : p'[i] <= seqno[d]
      <4>1. \A i \in DOMAIN p : p[i] <= seqno[d]
        BY <2>1 DEF CreditInv, p
      <4> QED BY <2>2, <2>3, <2>5, <4>1
    <3> QED BY <1>2, <2>2, <3>6, <3>7 DEF CreditInv, p, paid2
  <2>8. ExactInv(d)'
    <3>0. SUFFICES ASSUME \A k \in 1..seqno[d] : copies[d][k] = 1
                 PROVE  /\ \A i \in DOMAIN p' : p'[i] = i
                        /\ Len(dataNet[d]) + 0 + Len(p') <= seqno[d]
                        /\ \A i \in DOMAIN dataNet[d] : dataNet[d][i] = seqno[d]
      <4>1. 0 # 1
        OBVIOUS
      <4> QED BY <1>2, <2>2, <4>1 DEF ExactInv, p
    <3>1. /\ \A i \in DOMAIN p : p[i] = i
          /\ Len(dataNet[d]) + 1 + Len(p) <= seqno[d]
          /\ \A i \in DOMAIN dataNet[d] : dataNet[d][i] = seqno[d]
          /\ msg = seqno[d]
      BY <2>1, <2>2, <3>0 DEF ExactInv, p
    <3>2. Len(dataNet[d]) \in Nat
      BY <1>1, ClientTypes
    <3>3. Completed(d) <= Len(p)
      <4>1. /\ Completed(d) + Len(ackNet[d]) + OwedAcks(d) <= Len(p)
            /\ OwedAcks(d) \in {0, 1} /\ Len(ackNet[d]) \in Nat
        BY <1>1, CreditTypes DEF CreditCovered, p
      <4> QED BY <2>2, <2>3, <4>1
    <3>4. msg = Len(p) + 1
      BY <2>2, <2>3, <3>1, <3>2, <3>3
    <3>5. \A i \in DOMAIN p' : p'[i] = i
      BY <2>3, <2>5, <3>1, <3>4
    <3>6. Len(dataNet[d]) + 0 + Len(p') <= seqno[d]
      <4>1. Len(dataNet[d]) + 1 + Len(p) <= seqno[d]
        BY <3>1
      <4>2. Len(p') = Len(p) + 1
        BY <2>5
      <4> DEFINE n == Len(dataNet[d])
                 m == Len(p)
      <4>3. n + 1 + m <= seqno[d] /\ n \in Nat /\ m \in Nat
        BY <2>3, <3>2, <4>1
      <4>4. Len(dataNet[d]) + 0 + Len(p') = n + 0 + (m + 1)
        BY <4>2
      <4> HIDE DEF n, m
      <4>5. n + 0 + (m + 1) = n + 1 + m
        BY <4>3
      <4> QED BY <4>3, <4>4, <4>5
    <3> QED BY <3>1, <3>5, <3>6
  <2>9. ASSUME "reorder" \notin faults PROVE OrderInv(d)'
    <3>1. /\ \A i, j \in DOMAIN p : i <= j => p[i] <= p[j]
          /\ \A i \in DOMAIN p : \A j \in DOMAIN dataNet[d] : p[i] <= dataNet[d][j]
          /\ \A i \in DOMAIN p : p[i] <= msg
          /\ \A j \in DOMAIN dataNet[d] : msg <= dataNet[d][j]
          /\ \A i, j \in DOMAIN dataNet[d] : i <= j => dataNet[d][i] <= dataNet[d][j]
      BY <1>4, <2>1, <2>9 DEF OrderInv, p
    <3>2. \A i \in DOMAIN p' : p'[i] <= msg
      BY <2>2, <2>3, <2>5, <3>1
    <3>3. \A i, j \in DOMAIN p' : i <= j => p'[i] <= p'[j]
      <4> TAKE i, j \in DOMAIN p'
      <4> HAVE i <= j
      <4>1. CASE j \in 1..Len(p)
        <5>1. i \in 1..Len(p)
          BY <2>3, <2>5, <4>1
        <5> QED BY <2>3, <2>5, <3>1, <4>1, <5>1
      <4>2. CASE j = Len(p) + 1
        BY <2>5, <3>2, <4>2
      <4> QED BY <2>3, <2>5, <4>1, <4>2
    <3>4. \A i \in DOMAIN p' : \A j \in DOMAIN dataNet[d] : p'[i] <= dataNet[d][j]
      BY <2>3, <2>5, <3>1
    <3> QED BY <1>2, <3>1, <3>2, <3>3, <3>4 DEF OrderInv, p
  <2>10. ASSUME "reorder" \notin faults PROVE LagInv(d)'
    BY <1>2, <2>1, <2>2, <2>10, LagStays
  <2> QED BY <1>2, <2>6, <2>7, <2>8, <2>9, <2>10 DEF ClientInv
<1> QED BY <1>3, <1>4

LEMMA AcknowledgeDelivery ==
  ASSUME InductiveInv, InductiveInv', DeliveryInv, Acknowledge, NEW d \in Clients
  PROVE  ClientInv(d)'
<1> DEFINE a == ackNet[d]
<1>1. /\ TypeOK /\ TypeOK' /\ ClientInv(d)
      /\ c_addr \in Clients /\ msg \in 1..seqno[c_addr]
  <2>1. spc = "ack"
    BY DEF Acknowledge
  <2> QED BY <2>1 DEF InductiveInv, DeliveryInv, TypeOK
<1>2. /\ spc = "ack" /\ spc' = "recv" /\ c_addr' = NoClient
      /\ c_addr = d => a' = a \/ a' = Append(a, msg)
      /\ c_addr # d => a' = a
      /\ UNCHANGED <<cpc, seqno, remaining, copies, msg, printed, dataNet, faults>>
  <2>1. /\ spc = "ack" /\ spc' = "recv" /\ c_addr' = NoClient
        /\ \/ ackNet' = [ackNet EXCEPT ![c_addr] = Append(@, msg)]
           \/ ackNet' = ackNet
        /\ UNCHANGED <<cpc, seqno, remaining, copies, msg, printed, dataNet, faults>>
    BY Zenon DEF Acknowledge, SendAck, clientVars
  <2>2. ackNet \in [Clients -> Seq(Line)]
    BY <1>1 DEF TypeOK
  <2> QED BY <2>1, <2>2
<1>3. c_addr' # d
  BY <1>2, ConstantsAssumption
<1>4. CASE c_addr # d
  BY <1>1, <1>2, <1>3, <1>4, ClientStays
<1>5. CASE c_addr = d
  <2>1. /\ CopiesInv(d) /\ CreditInv(d) /\ ExactInv(d)
        /\ "reorder" \notin faults => OrderInv(d) /\ LagInv(d)
    BY <1>1 DEF ClientInv
  <2>2. /\ Completed(d)' = Completed(d) /\ Completed(d) \in Int
        /\ seqno[d] \in Nat /\ seqno[d] <= seqno'[d]
        /\ \A k : Hand(d, k)' = 0 /\ Hand(d, k) = 0
        /\ Hand(d, msg)' = 0 /\ Hand(d, msg) = 0
    BY <1>1, <1>2, ClientTypes, CreditTypes DEF Completed, Hand
  <2>3. CopiesInv(d)' /\ CreditInv(d)' /\ ExactInv(d)'
    BY <1>1, <1>2, <2>1, <2>2, CopiesStays, CreditStays, ExactStays
  <2>4. ASSUME "reorder" \notin faults PROVE OrderInv(d)'
    BY <1>2, <1>3, <2>1, <2>4, OrderStays
  <2>5. ASSUME "reorder" \notin faults PROVE LagInv(d)'
    <3> DEFINE before == Completed(d) + Len(a)
               q == dataNet[d]
    <3>1. /\ a \in Seq(Line) /\ Len(a) \in Nat /\ DOMAIN a = 1..Len(a)
          /\ msg \in Line /\ msg \in Nat
          /\ Len(q) \in Nat /\ DOMAIN q = 1..Len(q) /\ \A i \in DOMAIN q : q[i] \in Nat
      <4>1. /\ a \in Seq(Line) /\ Len(a) \in Nat /\ DOMAIN a = 1..Len(a)
            /\ Len(q) \in Nat /\ DOMAIN q = 1..Len(q) /\ \A i \in DOMAIN q : q[i] \in Line
            /\ seqno[d] <= MaxLines /\ MaxLines \in Nat
        BY <1>1, ClientTypes
      <4> QED BY <1>1, <1>5, <2>2, <4>1 DEF Line
    <3>2. /\ Resends(d)' = Resends(d) /\ Resends(d) \in Nat
          /\ Handed(d) = 1 /\ Handed(d)' = 0
      BY <1>1, <1>2, <1>3, <1>5, ResentFinite DEF Resends, Resent, Handed
    <3>3. LagInv(d)
      BY <2>1, <2>5
    <3>4. \A i \in DOMAIN a : Completed(d) + i <= a[i] + Resends(d)
      BY <3>3 DEF LagInv
    <3>5. before + 1 <= msg + Resends(d)
      BY <1>5, <3>3 DEF LagInv
    <3>6. \A i \in DOMAIN q : before + 1 + i <= q[i] + Resends(d)
      BY <3>2, <3>3 DEF LagInv
    <3>7. before + 1 + Len(q) <= seqno[d] + Resends(d)
      BY <3>2, <3>3 DEF LagInv
    <3>8. \/ a' = a
          \/ a' = Append(a, msg)
      BY <1>2, <1>5
    <3> HIDE DEF a, q
    <3>9. /\ Len(a') \in Nat /\ Len(a') <= Len(a) + 1
          /\ \A i \in DOMAIN a' : \/ i \in DOMAIN a /\ a'[i] = a[i]
                                  \/ i = Len(a) + 1 /\ a'[i] = msg
      BY <3>1, <3>8, AppendElements
    <3>10. /\ before \in Int /\ before' \in Int /\ before' <= before + 1
      BY <2>2, <3>1, <3>9
    <3>11. \A i \in DOMAIN a' : Completed(d) + i <= a'[i] + Resends(d)
      <4> TAKE i \in DOMAIN a'
      <4>1. CASE i = Len(a) + 1 /\ a'[i] = msg
        <5>1. Completed(d) + (Len(a) + 1) = before + 1
          BY <2>2, <3>1
        <5> QED BY <3>5, <4>1, <5>1
      <4> QED BY <3>4, <3>9, <4>1
    <3> HIDE DEF before
    <3>12. \A i \in DOMAIN q : before' + 0 + i <= q[i] + Resends(d)
      <4> TAKE i \in DOMAIN q
      <4>1. i \in Nat /\ q[i] \in Nat /\ before + 1 + i <= q[i] + Resends(d)
        BY <3>1, <3>6
      <4>2. before' + 0 + i <= before + 1 + i
        BY <3>10, <4>1
      <4> QED BY <3>2, <3>10, <4>1, <4>2
    <3>13. before' + 0 + Len(q) <= seqno[d] + Resends(d)
      <4>1. before' + 0 + Len(q) <= before + 1 + Len(q)
        BY <3>1, <3>10
      <4> QED BY <2>2, <3>1, <3>2, <3>7, <3>10, <4>1
    <3> QED BY <1>2, <1>3, <2>2, <3>2, <3>11, <3>12, <3>13 DEF LagInv, a, q, before
  <2> QED BY <1>2, <2>3, <2>4, <2>5 DEF ClientInv
<1> QED BY <1>4, <1>5

-----------------------------------------------------------------------------
(* DeliveryInv holds initially and is preserved by each action. *)

LEMMA InitDelivery == Init => DeliveryInv
<1> SUFFICES ASSUME Init PROVE DeliveryInv
  OBVIOUS
<1>1. /\ spc \in {"socket", "recv"} /\ c_addr = NoClient
      /\ dataNet = [c \in Clients |-> << >>] /\ ackNet = [c \in Clients |-> << >>]
      /\ printed = [c \in Clients |-> << >>]
      /\ seqno = [c \in Clients |-> 0] /\ copies = [c \in Clients |-> [k \in Line |-> 0]]
      /\ \A c \in Clients : cpc[c] \in {"socket", "absent"}
  BY DEF Init
<1>2. ServerInv
  BY <1>1 DEF ServerInv
<1>3. ASSUME NEW d \in Clients PROVE ClientInv(d)
  <2>1. /\ seqno[d] = 0 /\ \A k \in Line : copies[d][k] = 0
        /\ dataNet[d] = << >> /\ ackNet[d] = << >> /\ printed[d] = << >>
        /\ cpc[d] \notin {"wait", "gaveup"} /\ c_addr # d
    BY <1>1, ConstantsAssumption
  <2>2. /\ TypeOK
        /\ << >> \in Seq(Line) /\ Len(<< >>) = 0
        /\ \A i \in DOMAIN << >> : FALSE
    BY InitInv DEF InductiveInv
  <2>3. CopiesInv(d)
    <3>1. \A k \in Line : Count(<< >>, k) = 0
      BY <2>2, CountType
    <3>2. \A k \in Line : k > 0 /\ k \in Nat
      BY ConstantsAssumption DEF Line
    <3>3. \A k \in Line : Hand(d, k) = 0
      BY <2>1 DEF Hand
    <3> QED BY <2>1, <3>1, <3>2, <3>3, ConstantsAssumption DEF CopiesInv
  <2>4. Completed(d) = 0 /\ Handed(d) = 0 /\ Hand(d, msg) = 0
    BY <2>1 DEF Completed, Handed, Hand
  <2>5. CreditInv(d)
    <3>1. \A i \in DOMAIN printed[d] : FALSE
      BY <2>1, <2>2
    <3>2. {i \in DOMAIN printed[d] : printed[d][i] <= Completed(d)} = {}
      BY <3>1
    <3>3. Cardinality({}) = 0
      BY FS_EmptySet
    <3>4. 0 <= 0
      OBVIOUS
    <3> QED BY <2>4, <3>1, <3>2, <3>3, <3>4 DEF CreditInv
  <2>6. ExactInv(d)
    <3>1. 0 + 0 + 0 <= 0 /\ 0 # 1
      OBVIOUS
    <3> QED BY <2>1, <2>2, <2>4, <3>1 DEF ExactInv
  <2>7. OrderInv(d)
    BY <2>1, <2>2 DEF OrderInv
  <2>8. LagInv(d)
    <3>1. Resends(d) \in Nat
      BY <2>2, ResentFinite
    <3>2. 0 + 0 + 0 + 0 <= 0 + Resends(d)
      BY <3>1
    <3> QED BY <2>1, <2>2, <2>4, <3>2 DEF LagInv
  <2> QED BY <2>3, <2>5, <2>6, <2>7, <2>8 DEF ClientInv
<1> QED BY <1>2, <1>3 DEF DeliveryInv

\* What a client or the network does leaves the server alone.
LEMMA NextServerInv ==
  ASSUME TypeOK, ServerInv, [Next]_vars
  PROVE  ServerInv'
<1>1. ASSUME NEW c \in Clients, Client(c) \/ LoseData(c) \/ LoseAck(c)
      PROVE  UNCHANGED <<spc, c_addr>>
  BY <1>1, Zenon DEF Client, OpenSocket, SendLine, Resend, ReceiveAck, EndOfInput,
                     LoseData, LoseAck, serverVars
<1>2. ASSUME Server PROVE ServerInv'
  <2>1. CASE BindServer
    BY <2>1 DEF BindServer, ServerInv
  <2>2. ASSUME NEW c \in Clients, Receive(c) PROVE ServerInv'
    BY <2>2 DEF Receive, ServerInv
  <2>3. CASE PrintLine
    BY <2>3 DEF PrintLine, ServerInv
  <2>4. CASE Acknowledge
    BY <2>4 DEF Acknowledge, ServerInv
  <2> QED BY <1>2, <2>1, <2>2, <2>3, <2>4 DEF Server
<1>3. CASE ReceiveFails
  BY <1>3 DEF ReceiveFails, ServerInv
<1>4. CASE UNCHANGED vars
  BY <1>4 DEF vars, serverVars, ServerInv
<1>5. ASSUME UNCHANGED <<spc, c_addr>> PROVE ServerInv'
  BY <1>5 DEF ServerInv
<1> QED BY <1>1, <1>2, <1>3, <1>4, <1>5, Zenon DEF Next

LEMMA NextDelivery ==
  InductiveInv /\ InductiveInv' /\ DeliveryInv /\ [Next]_vars => DeliveryInv'
<1> SUFFICES ASSUME InductiveInv, InductiveInv', DeliveryInv, [Next]_vars
             PROVE  DeliveryInv'
  OBVIOUS
<1>1. ServerInv'
  BY NextServerInv DEF InductiveInv, DeliveryInv
<1>2. ASSUME NEW d \in Clients PROVE ClientInv(d)'
  <2>1. ASSUME NEW c \in Clients, Client(c) PROVE ClientInv(d)'
    BY <2>1, OpenSocketDelivery, SendLineDelivery, ResendDelivery, ReceiveAckDelivery,
       EndOfInputDelivery, Zenon DEF Client
  <2>2. ASSUME Server PROVE ClientInv(d)'
    BY <2>2, BindServerDelivery, ReceiveDelivery, PrintLineDelivery, AcknowledgeDelivery,
       Zenon DEF Server
  <2>3. CASE ReceiveFails
    BY <2>3, ReceiveFailsDelivery
  <2>4. ASSUME NEW c \in Clients, LoseData(c) \/ LoseAck(c) PROVE ClientInv(d)'
    BY <2>4, LoseDataDelivery, LoseAckDelivery, Zenon
  <2>5. CASE UNCHANGED vars
    <3>1. TypeOK /\ TypeOK' /\ ClientInv(d)
      BY DEF InductiveInv, DeliveryInv
    <3>2. UNCHANGED <<cpc, seqno, remaining, copies, spc, c_addr, msg, printed,
                      dataNet, ackNet, faults>>
      BY <2>5 DEF vars, clientVars, serverVars
    <3> QED BY <3>1, <3>2, ClientStays
  <2> QED BY <2>1, <2>2, <2>3, <2>4, <2>5, Zenon DEF Next
<1> QED BY <1>1, <1>2 DEF DeliveryInv

\* Both inductive invariants hold in every reachable state.
THEOREM DeliveryInvariant == Spec => [](InductiveInv /\ DeliveryInv)
<1>1. Init => InductiveInv /\ DeliveryInv
  BY InitInv, InitDelivery
<1>2. InductiveInv /\ DeliveryInv /\ [Next]_vars => (InductiveInv /\ DeliveryInv)'
  BY NextInv, NextDelivery
<1> QED BY <1>1, <1>2, PTL DEF Spec

-----------------------------------------------------------------------------
(* What the two invariants say together. *)

LEMMA CopiesBound == InductiveInv /\ DeliveryInv => BoundedCopies
<1> SUFFICES ASSUME InductiveInv, DeliveryInv, NEW d \in Clients, NEW k \in Line
             PROVE  /\ Count(printed[d], k) <= copies[d][k]
                    /\ copies[d][k] <= NRETRIES + 1
  BY DEF BoundedCopies
<1>1. /\ Count(dataNet[d], k) + Hand(d, k) + Count(printed[d], k) <= copies[d][k]
      /\ copies[d][k] <= NRETRIES + 1
  BY DEF DeliveryInv, ClientInv, CopiesInv
<1>2. /\ Count(dataNet[d], k) \in Nat /\ Count(printed[d], k) \in Nat
      /\ copies[d][k] \in Nat /\ Hand(d, k) \in {0, 1}
  <2>1. TypeOK
    BY DEF InductiveInv
  <2> QED BY <2>1, ClientTypes, CountType DEF Hand
<1>3. Count(printed[d], k) <= copies[d][k]
  <2> DEFINE n == Count(dataNet[d], k)
             m == Count(printed[d], k)
             h == Hand(d, k)
  <2>1. n \in Nat /\ m \in Nat /\ h \in {0, 1} /\ n + h + m <= copies[d][k]
    BY <1>1, <1>2
  <2> HIDE DEF n, m, h
  <2>2. m <= copies[d][k]
    BY <1>2, <2>1
  <2> QED BY <2>2 DEF m
<1> QED BY <1>1, <1>3

\* The only lines that can be on the server's stdout are all of 1..seqno, or
\* all but the one that is being sent.
LEMMA ExactPrints == InductiveInv /\ DeliveryInv => ExactWithoutResends
<1> SUFFICES ASSUME InductiveInv, DeliveryInv, NEW d \in Clients,
                    \A k \in 1..seqno[d] : copies[d][k] = 1
             PROVE  /\ printed[d] = [k \in 1..Len(printed[d]) |-> k]
                    /\ Len(printed[d]) \in {Completed(d), seqno[d]}
  BY DEF ExactWithoutResends
<1>1. /\ \A i \in DOMAIN printed[d] : printed[d][i] = i
      /\ Len(dataNet[d]) + Hand(d, msg) + Len(printed[d]) <= seqno[d]
  BY DEF DeliveryInv, ClientInv, ExactInv
<1>2. /\ TypeOK
      /\ Completed(d) + Len(ackNet[d]) + OwedAcks(d) <= Len(printed[d])
  BY DEF InductiveInv, CreditCovered
<1>3. printed[d] \in Seq(Line) /\ DOMAIN printed[d] = 1..Len(printed[d])
  BY <1>2, ClientTypes, LenProperties
<1>4. printed[d] = [k \in 1..Len(printed[d]) |-> k]
  <2>1. printed[d] = [k \in DOMAIN printed[d] |-> printed[d][k]]
    BY <1>3
  <2> QED BY <1>1, <1>3, <2>1
<1>5. Len(printed[d]) \in {Completed(d), seqno[d]}
  <2> DEFINE n == Len(dataNet[d])
             m == Len(printed[d])
             h == Hand(d, msg)
             a == Len(ackNet[d])
             o == OwedAcks(d)
             f == Completed(d)
  <2>1. /\ n \in Nat /\ m \in Nat /\ h \in {0, 1} /\ a \in Nat /\ o \in {0, 1}
        /\ f \in Int /\ seqno[d] \in Nat
    BY <1>2, ClientTypes, CreditTypes DEF Hand
  <2>2. n + h + m <= seqno[d] /\ f + a + o <= m
    BY <1>1, <1>2
  <2>3. f = seqno[d] \/ f = seqno[d] - 1
    BY DEF Completed
  <2> HIDE DEF n, m, h, a, o, f
  <2>4. m <= seqno[d] /\ f <= m
    BY <2>1, <2>2
  <2>5. m \in {f, seqno[d]}
    BY <2>1, <2>3, <2>4
  <2> QED BY <2>5 DEF m, f
<1> QED BY <1>4, <1>5

LEMMA PrintsOrdered == DeliveryInv => PrintedInOrder
BY DEF DeliveryInv, ClientInv, OrderInv, PrintedInOrder

LEMMA LagBound == InductiveInv /\ DeliveryInv => AckLagBounded
<1> SUFFICES ASSUME InductiveInv, DeliveryInv, "reorder" \notin faults,
                    NEW d \in Clients, ClientBound(d), NEW k \in InFlight(d)
             PROVE  seqno[d] <= k + Resends(d)
  BY DEF AckLagBounded
<1>1. TypeOK /\ LagInv(d)
  BY DEF InductiveInv, DeliveryInv, ClientInv
<1>2. /\ seqno[d] \in Nat /\ Len(ackNet[d]) \in Nat /\ Resends(d) \in Nat
      /\ dataNet[d] \in Seq(Line) /\ ackNet[d] \in Seq(Line)
  BY <1>1, ClientTypes, ResentFinite
<1>3. Completed(d) \in Int /\ seqno[d] <= Completed(d) + 1
  BY <1>2 DEF Completed
<1>4. CASE k \in ToSet(ackNet[d])
  <2>1. PICK i \in DOMAIN ackNet[d] : k = ackNet[d][i]
    BY <1>4 DEF ToSet
  <2>2. Completed(d) + i <= k + Resends(d)
    BY <1>1, <2>1 DEF LagInv
  <2>3. i \in Nat /\ i >= 1 /\ k \in Nat
    <3>1. i \in 1..Len(ackNet[d]) /\ Len(ackNet[d]) \in Nat
      BY <1>1, <2>1, ClientTypes
    <3>2. k \in Line
      BY <1>1, <2>1, <3>1, ClientTypes
    <3>3. i \in Nat /\ i >= 1
      BY <3>1
    <3>4. k \in Nat
      BY <3>2, ConstantsAssumption DEF Line
    <3> QED BY <3>3, <3>4
  <2> QED BY <1>2, <1>3, <2>2, <2>3
<1>5. CASE k \in ToSet(dataNet[d])
  <2>1. PICK i \in DOMAIN dataNet[d] : k = dataNet[d][i]
    BY <1>5 DEF ToSet
  <2> DEFINE a == Len(ackNet[d])
             h == Handed(d)
             f == Completed(d)
  <2>2. f + a + h + i <= k + Resends(d)
    BY <1>1, <2>1 DEF LagInv
  <2>3. i \in Nat /\ i >= 1 /\ k \in Nat
    <3>1. i \in 1..Len(dataNet[d]) /\ Len(dataNet[d]) \in Nat
      BY <1>1, <2>1, ClientTypes
    <3>2. k \in Line
      BY <1>1, <2>1, <3>1, ClientTypes
    <3>3. i \in Nat /\ i >= 1
      BY <3>1
    <3>4. k \in Nat
      BY <3>2, ConstantsAssumption DEF Line
    <3> QED BY <3>3, <3>4
  <2>4. a \in Nat /\ h \in {0, 1} /\ f \in Int /\ seqno[d] <= f + 1
    BY <1>2, <1>3 DEF Handed
  <2> HIDE DEF a, h, f
  <2> QED BY <1>2, <2>2, <2>3, <2>4
<1>6. CASE c_addr = d /\ k = msg
  <2> DEFINE a == Len(ackNet[d])
             f == Completed(d)
  <2>1. f + a + 1 <= msg + Resends(d)
    BY <1>1, <1>6 DEF LagInv
  <2>2. a \in Nat /\ f \in Int /\ seqno[d] <= f + 1 /\ msg \in Nat
    BY <1>1, <1>2, <1>3, ConstantsAssumption DEF TypeOK
  <2> HIDE DEF a, f
  <2> QED BY <1>2, <1>6, <2>1, <2>2
<1> QED BY <1>4, <1>5, <1>6 DEF InFlight

\* How many elements of s up to position i equal the element at i.
Rank(s, i) == Cardinality({j \in DOMAIN s : s[j] = s[i] /\ j <= i})

\* Equal elements have different ranks, from 1 to their number.
LEMMA RankProperties ==
  ASSUME NEW S, NEW q \in Seq(S), NEW i \in DOMAIN q
  PROVE  /\ Rank(q, i) \in 1..Count(q, q[i])
         /\ \A j \in DOMAIN q : q[j] = q[i] /\ Rank(q, j) = Rank(q, i) => j = i
<1> DEFINE upTo(j) == {l \in DOMAIN q : q[l] = q[j] /\ l <= j}
<1>1. DOMAIN q = 1..Len(q) /\ Len(q) \in Nat
  BY LenProperties
<1>2. ASSUME NEW j \in DOMAIN q PROVE IsFiniteSet(upTo(j)) /\ j \in upTo(j)
  <2>1. IsFiniteSet(DOMAIN q)
    <3>1. IsFiniteSet(1..Len(q))
      BY <1>1, FS_Interval
    <3> QED BY <1>1, <3>1
  <2>2. upTo(j) \subseteq DOMAIN q
    OBVIOUS
  <2>3. j \in upTo(j)
    BY <1>1
  <2> HIDE DEF upTo
  <2> QED BY <2>1, <2>2, <2>3, FS_Subset
<1>3. Rank(q, i) \in 1..Count(q, q[i])
  <2> DEFINE all == {l \in DOMAIN q : q[l] = q[i]}
  <2>1. upTo(i) \subseteq all /\ upTo(i) # {}
    BY <1>2
  <2>2. IsFiniteSet(all) /\ Cardinality(all) = Count(q, q[i])
    BY CountType DEF Count
  <2>3. Cardinality(upTo(i)) = Rank(q, i)
    BY DEF Rank
  <2> HIDE DEF all, upTo
  <2>4. /\ Cardinality(upTo(i)) \in Nat /\ Cardinality(upTo(i)) # 0
        /\ Cardinality(all) \in Nat /\ Cardinality(upTo(i)) <= Cardinality(all)
    BY <1>2, <2>1, <2>2, FS_CardinalityType, FS_EmptySet, FS_Subset
  <2> QED BY <2>2, <2>3, <2>4
<1>4. ASSUME NEW j \in DOMAIN q, NEW l \in DOMAIN q, q[j] = q[l], j < l
      PROVE  Rank(q, j) # Rank(q, l)
  <2>1. upTo(j) \subseteq upTo(l) /\ l \notin upTo(j)
    BY <1>1, <1>4
  <2>2. Cardinality(upTo(j)) = Rank(q, j) /\ Cardinality(upTo(l)) = Rank(q, l)
    BY DEF Rank
  <2>3. IsFiniteSet(upTo(l)) /\ l \in upTo(l)
    BY <1>2
  <2> HIDE DEF upTo
  <2>4. Cardinality(upTo(l)) = Cardinality(upTo(j)) => upTo(l) = upTo(j)
    BY <2>1, <2>3, FS_Subset
  <2> QED BY <2>1, <2>2, <2>3, <2>4
<1>5. ASSUME NEW j \in DOMAIN q, q[j] = q[i], Rank(q, j) = Rank(q, i)
      PROVE  j = i
  <2>1. ~ (j < i) /\ ~ (i < j)
    BY <1>4, <1>5
  <2> QED BY <1>1, <2>1
<1> QED BY <1>3, <1>5

\* Each print that names a line client d is done with is told apart by the
\* line it names and its rank among the prints of that line.  Those of rank 1
\* are as many as the lines that were printed, the others name a resend.
LEMMA SkippedBound == InductiveInv /\ DeliveryInv => SkippedBounded
<1> SUFFICES ASSUME InductiveInv, DeliveryInv, NEW d \in Clients
             PROVE  Cardinality((1..Completed(d)) \ ToSet(printed[d])) <= Resends(d)
  BY DEF SkippedBounded
<1> DEFINE p == printed[d]
           f == Completed(d)
           paid == {i \in DOMAIN p : p[i] <= f}
           done == (1..f) \cap ToSet(p)
           place == [i \in paid |-> <<p[i], Rank(p, i)>>]
<1>1. /\ TypeOK /\ CreditInv(d) /\ BoundedCopies
      /\ cpc[d] \in {"wait", "gaveup"} => seqno[d] > 0
  BY CopiesBound DEF InductiveInv, DeliveryInv, ClientInv
<1>2. /\ p \in Seq(Line) /\ DOMAIN p = 1..Len(p) /\ Len(p) \in Nat
      /\ \A i \in DOMAIN p : p[i] \in Line
      /\ seqno[d] \in Nat /\ Resends(d) \in Nat /\ IsFiniteSet(Resent(d))
      /\ copies[d] \in [Line -> Nat]
  BY <1>1, ClientTypes, ResentFinite
<1>3. f \in Nat /\ f <= seqno[d]
  BY <1>1, <1>2 DEF Completed
<1>4. f <= Cardinality(paid)
  BY <1>1 DEF CreditInv
<1>5. IsFiniteSet(1..f) /\ Cardinality(1..f) = f
  <2> HIDE DEF f
  <2> QED BY <1>3, FS_Interval
<1>6. IsFiniteSet(done) /\ Cardinality((1..f) \ ToSet(p)) = f - Cardinality(done)
  <2> HIDE DEF f, p
  <2> QED BY <1>5, FS_Difference, FS_Intersection
<1>7. ASSUME NEW i \in paid
      PROVE  place[i] \in (done \X {1}) \cup Resent(d)
  <2>1. /\ i \in DOMAIN p /\ p[i] \in 1..f /\ p[i] \in ToSet(p) /\ p[i] \in Line
        /\ p[i] \in 1..seqno[d]
    <3>1. p[i] \in Line /\ i \in DOMAIN p /\ p[i] <= f
      BY <1>2
    <3>2. p[i] \in Nat /\ p[i] >= 1
      BY <3>1, ConstantsAssumption DEF Line
    <3>3. p[i] \in ToSet(p)
      BY <3>1 DEF ToSet
    <3> HIDE DEF p, f
    <3> QED BY <1>2, <1>3, <3>1, <3>2, <3>3
  <2>2. place[i] = <<p[i], Rank(p, i)>>
    OBVIOUS
  <2>3. Rank(p, i) \in 1..copies[d][p[i]]
    <3>1. Rank(p, i) \in 1..Count(p, p[i])
      BY <1>2, <2>1, RankProperties
    <3>2. Count(p, p[i]) <= copies[d][p[i]]
      BY <1>1, <2>1 DEF BoundedCopies
    <3>3. Count(p, p[i]) \in Nat /\ copies[d][p[i]] \in Nat
      BY <1>2, <2>1, CountType
    <3> HIDE DEF p
    <3> QED BY <3>1, <3>2, <3>3
  <2>4. CASE Rank(p, i) = 1
    BY <2>1, <2>2, <2>4
  <2>5. CASE Rank(p, i) # 1
    <3>1. Rank(p, i) \in 2..copies[d][p[i]]
      <4>1. copies[d][p[i]] \in Nat
        BY <1>2, <2>1
      <4> HIDE DEF p
      <4> QED BY <2>3, <2>5, <4>1
    <3> QED BY <2>1, <2>2, <3>1, ResentElements
  <2> QED BY <2>4, <2>5
<1>8. ASSUME NEW i \in paid, NEW j \in paid, place[i] = place[j]
      PROVE  i = j
  <2>1. place[i] = <<p[i], Rank(p, i)>> /\ place[j] = <<p[j], Rank(p, j)>>
    OBVIOUS
  <2>2. p[i] = p[j] /\ Rank(p, i) = Rank(p, j)
    BY <1>8, <2>1
  <2>3. i \in DOMAIN p /\ j \in DOMAIN p
    OBVIOUS
  <2> HIDE DEF p
  <2> QED BY <1>2, <2>2, <2>3, RankProperties
<1>9. place \in Injection(paid, (done \X {1}) \cup Resent(d))
  <2>1. place \in [paid -> (done \X {1}) \cup Resent(d)]
    BY <1>7
  <2> HIDE DEF place, paid, done
  <2> QED BY <1>8, <2>1 DEF Injection, IsInjective
<1>10. /\ IsFiniteSet((done \X {1}) \cup Resent(d))
       /\ Cardinality((done \X {1}) \cup Resent(d)) <= Cardinality(done) + Resends(d)
       /\ Cardinality((done \X {1}) \cup Resent(d)) \in Nat
       /\ Cardinality(done) \in Nat
  <2> HIDE DEF done
  <2> DEFINE firsts == done \X {1}
             R == Resent(d)
  <2>1. IsFiniteSet({1}) /\ Cardinality({1}) = 1 /\ Cardinality(done) \in Nat
    BY <1>6, FS_Singleton, FS_CardinalityType
  <2>2. IsFiniteSet(firsts) /\ Cardinality(firsts) = Cardinality(done)
    <3>1. Cardinality(done) * 1 = Cardinality(done)
      BY <2>1
    <3> DEFINE one == {1}
    <3>2. IsFiniteSet(one) /\ Cardinality(one) = 1
      BY <2>1
    <3> HIDE DEF one
    <3>3. IsFiniteSet(done \X one) /\ Cardinality(done \X one) = Cardinality(done) * Cardinality(one)
      BY <1>6, <3>2, FS_Product
    <3> QED BY <3>1, <3>2, <3>3 DEF one
  <2>3. IsFiniteSet(R) /\ Cardinality(R) = Resends(d)
    BY <1>2 DEF Resends
  <2> HIDE DEF firsts, R
  <2>4. /\ IsFiniteSet(firsts \cup R)
        /\ Cardinality(firsts \cup R)
             = Cardinality(firsts) + Cardinality(R) - Cardinality(firsts \cap R)
        /\ Cardinality(firsts \cap R) \in Nat
        /\ Cardinality(firsts \cup R) \in Nat
    BY <2>2, <2>3, FS_Union, FS_Intersection, FS_CardinalityType
  <2>5. Cardinality(firsts \cup R) <= Cardinality(done) + Resends(d)
    BY <1>2, <2>1, <2>2, <2>3, <2>4
  <2> QED BY <2>1, <2>4, <2>5 DEF firsts, R
<1>11. Cardinality(paid) \in Nat
       /\ Cardinality(paid) <= Cardinality((done \X {1}) \cup Resent(d))
  <2> HIDE DEF paid, done, place
  <2> QED BY <1>9, <1>10, FS_Injection, FS_CardinalityType
<1>12. f - Cardinality(done) <= Resends(d)
  <2> DEFINE all == Cardinality((done \X {1}) \cup Resent(d))
             n == Cardinality(done)
             m == Cardinality(paid)
  <2>1. /\ all \in Nat /\ n \in Nat /\ m \in Nat
        /\ f <= m /\ m <= all /\ all <= n + Resends(d)
    BY <1>4, <1>10, <1>11
  <2> HIDE DEF all, n, m, f
  <2>2. f - n <= Resends(d)
    BY <1>2, <1>3, <2>1
  <2> QED BY <2>2 DEF n
<1> QED BY <1>6, <1>12

-----------------------------------------------------------------------------
(* The theorems about delivery. *)

\* No line is printed more often than it was sent, nor sent more often than
\* 1 + NRETRIES times, whatever is lost, reordered or restarted.
THEOREM CopiesSafe == Spec => []BoundedCopies
BY CopiesBound, DeliveryInvariant, PTL

\* As long as no timeout fires, the lines printed are the lines sent, once
\* each and in order, all of them or all but the one being sent.
THEOREM ExactSafe == Spec => []ExactWithoutResends
BY ExactPrints, DeliveryInvariant, PTL

\* At most as many lines are acknowledged and never printed as there were
\* resends.
THEOREM SkippedSafe == Spec => []SkippedBounded
BY SkippedBound, DeliveryInvariant, PTL

\* When frames keep their order, the lines of a client are printed in order.
THEOREM OrderSafe == Spec => []PrintedInOrder
BY PrintsOrdered, DeliveryInvariant, PTL

\* When frames keep their order, what is in flight is stale by at most one
\* line for each resend.
THEOREM LagSafe == Spec => []AckLagBounded
BY LagBound, DeliveryInvariant, PTL
==============================================================================
