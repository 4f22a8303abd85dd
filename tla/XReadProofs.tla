---------------------------- MODULE XReadProofs ----------------------------
(***************************************************************************)
(* Proofs about module XRead: its types, that subscriptions do not leak,   *)
(* what an XREAD that no other one disturbs answers and listens to, and    *)
(* that one queued by MULTI with BLOCK 0 never wakes up.                   *)
(*                                                                         *)
(* The invariant follows an XREAD through its phases: which streams it is  *)
(* subscribed to (Subscribed), which channels may hold an entry (Channels),*)
(* that the shared streamOrder is still its own (OwnOrder), what it has    *)
(* found (Found) and who holds the loop (LoopOwner).                       *)
(***************************************************************************)
EXTENDS XRead, SequenceTheorems, TLAPS

\* Between parseArgs and its answer, whether or not the process is gone.
Started(r) == pc[r] \notin {"new", "done"}

\* The streams whose subscription r has made and not yet taken back.
Subscription(r) ==
    {k \in Keys : \/ pc[r] = "subscribe" /\ k \in Asked(r) \ todo[r]
                  \/ pc[r] \in {"cases", "select"} /\ k \in Asked(r)
                  \/ pc[r] = "unsubscribe" /\ k \in todo[r]}

Subscribed ==
    \A r \in Readers : /\ todo[r] \subseteq Asked(r)
                       /\ \A k \in Keys : r \in subs[k] <=> k \in Subscription(r)

\* A channel holds numbers of entries of its stream, and only a subscription
\* has one.
Channels ==
    \A r \in Readers, k \in Keys :
      /\ r \notin subs[k] => chan[r][k] = <<>>
      /\ \A i \in 1 .. Len(chan[r][k]) : chan[r][k][i] <= size[k]

\* Nobody has replaced the streamOrder of an undisturbed XREAD.
OwnOrder ==
    \A r \in Readers : Started(r) /\ ~disturbed[r] =>
      /\ streamOrder = Order[r]
      /\ pc[r] = "select" => cases[r] = Order[r]

\* What an undisturbed XREAD has found, and has answered with.
Found ==
    \A r \in Readers : ~disturbed[r] =>
      /\ \A k \in Keys : /\ result[r][k] \subseteq 1 .. size[k]
                         /\ result[r][k] # {} => k \in Asked(r)
      /\ pc[r] = "done" => reply[r] = result[r]

PanicCause == panicked => \E r \in Readers : disturbed[r]

\* The loop runs one XREAD at a time, until that is answered.
LoopOwner == \A r \in Readers : InLoop(r) /\ Started(r) => loopHeld = r

\* No entry reaches an XREAD that blocks inside the loop.
QueuedIsDeaf ==
    \A r \in queued : pc[r] \in {"subscribe", "cases", "select"} =>
      \A k \in Keys : chan[r][k] = <<>>

IInv ==
    /\ TypeOK
    /\ Subscribed /\ Channels
    /\ OwnOrder /\ Found /\ PanicCause
    /\ LoopOwner /\ QueuedIsDeaf

(***************************************************************************)
(* Types.                                                                  *)
(***************************************************************************)
\* What an XREAD asks for are keys, and at least one.
LEMMA AskedKeys == \A r \in Readers : Asked(r) \subseteq Keys /\ Asked(r) # {}
<1> SUFFICES ASSUME NEW r \in Readers PROVE Asked(r) \subseteq Keys /\ Asked(r) # {}
  OBVIOUS
<1>1. Order[r] \in Seq(Keys) /\ Order[r] # <<>>
  BY XReadAssumption
<1>2. 1 \in 1 .. Len(Order[r]) /\ \A i \in 1 .. Len(Order[r]) : Order[r][i] \in Keys
  BY <1>1
<1>3. Order[r][1] \in Asked(r)
  BY <1>2 DEF Asked
<1> QED
  BY <1>2, <1>3 DEF Asked

\* The entries found at once exist.
LEMMA AvailableEntries ==
    ASSUME TypeOK, NEW r, NEW k \in Keys
    PROVE  Available(r, k) \subseteq 1 .. size[k] /\ 1 .. size[k] \subseteq 1 .. MaxEntries
<1>1. size[k] \in 0 .. MaxEntries /\ MaxEntries \in Nat
  BY XReadAssumption DEF TypeOK
<1> QED
  BY <1>1 DEF Available

\* The first element of a sequence and the rest.
LEMMA HeadTail ==
    ASSUME NEW S, NEW q \in Seq(S), q # <<>>
    PROVE  /\ Head(q) \in S /\ Tail(q) \in Seq(S)
           /\ Head(q) = q[1] /\ 1 \in 1 .. Len(q)
           /\ \A i \in 1 .. Len(Tail(q)) : i + 1 \in 1 .. Len(q) /\ Tail(q)[i] = q[i + 1]
OBVIOUS

\* What Receive files, and under which name.
LEMMA ReceiveFiles ==
    ASSUME TypeOK, NEW r \in Readers, NEW j \in 1 .. Len(cases[r]), Receive(r, j)
    PROVE  /\ cases[r][j] \in Keys
           /\ r \in subs[cases[r][j]] /\ chan[r][cases[r][j]] # <<>>
           /\ chan' = [chan EXCEPT ![r][cases[r][j]] = Tail(@)]
           /\ \/ UNCHANGED <<result, panicked>>
              \/ panicked' = TRUE /\ UNCHANGED result /\ j > Len(streamOrder)
              \/ /\ j \in 1 .. Len(streamOrder) /\ UNCHANGED panicked
                 /\ result' = [result EXCEPT ![r][streamOrder[j]] =
                                 {Head(chan[r][cases[r][j]])}]
<1>1. cases[r][j] \in Keys /\ j \in Nat /\ j >= 1 /\ Len(streamOrder) \in Nat
  BY DEF TypeOK
<1>2. CASE j > Cardinality(Asked(r))
  BY <1>1, <1>2 DEF Receive
<1>3. CASE ~(j > Cardinality(Asked(r))) /\ j > Len(streamOrder)
  BY <1>1, <1>3 DEF Receive
<1>4. CASE ~(j > Cardinality(Asked(r))) /\ ~(j > Len(streamOrder))
  <2>1. j \in 1 .. Len(streamOrder)
    BY <1>1, <1>4
  <2> QED
    BY <1>1, <1>4, <2>1 DEF Receive
<1> QED
  BY <1>2, <1>3, <1>4

\* Every step keeps the types.
LEMMA TypeStep == TypeOK /\ [Next]_vars => TypeOK'
<1> SUFFICES ASSUME TypeOK, [Next]_vars PROVE TypeOK'
  OBVIOUS
<1>1. ASSUME NEW k \in Keys, XAdd(k) PROVE TypeOK'
  <2>1. size[k] + 1 \in 1 .. MaxEntries /\ size' \in [Keys -> 0 .. MaxEntries]
    BY <1>1, XReadAssumption DEF TypeOK, XAdd
  <2>2. \A r \in Readers : Append(chan[r][k], size[k] + 1) \in Seq(1 .. MaxEntries)
    BY <2>1 DEF TypeOK
  <2>3. chan' \in [Readers -> [Keys -> Seq(1 .. MaxEntries)]]
    BY <1>1, <2>2 DEF TypeOK, XAdd
  <2> QED
    BY <1>1, <2>1, <2>3 DEF TypeOK, XAdd
<1>2. ASSUME NEW r \in Readers, ParseArgs(r) PROVE TypeOK'
  <2>1. Order[r] \in Seq(Keys) /\ Asked(r) \subseteq Keys
    BY XReadAssumption, AskedKeys
  <2> QED
    BY <1>2, <2>1 DEF TypeOK, ParseArgs, Pcs
<1>3. ASSUME NEW r \in Readers, NEW k \in Keys, Check(r, k) PROVE TypeOK'
  <2>1. Available(r, k) \subseteq 1 .. MaxEntries
    BY AvailableEntries
  <2> QED
    BY <1>3, <2>1 DEF TypeOK, Check
<1>4. ASSUME NEW r \in Readers, Checked(r) PROVE TypeOK'
  BY <1>4, AskedKeys DEF TypeOK, Checked, Pcs
<1>5. ASSUME NEW r \in Readers, NEW k \in Keys, Subscribe(r, k) PROVE TypeOK'
  BY <1>5 DEF TypeOK, Subscribe, Pcs
<1>6. ASSUME NEW r \in Readers, BuildCases(r) PROVE TypeOK'
  BY <1>6 DEF TypeOK, BuildCases, Pcs
<1>7. ASSUME NEW r \in Readers, NEW j \in 1 .. Len(cases[r]), Receive(r, j) PROVE TypeOK'
  <2> DEFINE k == cases[r][j]
  <2>1. /\ k \in Keys /\ chan[r][k] # <<>>
        /\ chan' = [chan EXCEPT ![r][k] = Tail(@)]
        /\ \/ UNCHANGED result
           \/ /\ j \in 1 .. Len(streamOrder)
              /\ result' = [result EXCEPT ![r][streamOrder[j]] = {Head(chan[r][k])}]
    BY <1>7, ReceiveFiles
  <2> HIDE DEF k
  <2>2. chan[r][k] \in Seq(1 .. MaxEntries)
    BY <2>1 DEF TypeOK
  <2>3. Head(chan[r][k]) \in 1 .. MaxEntries /\ Tail(chan[r][k]) \in Seq(1 .. MaxEntries)
    BY <2>1, <2>2, HeadTail
  <2>4. chan' \in [Readers -> [Keys -> Seq(1 .. MaxEntries)]]
    BY <2>1, <2>3 DEF TypeOK
  <2>5. result' \in [Readers -> [Keys -> SUBSET (1 .. MaxEntries)]]
    <3>1. CASE UNCHANGED result
      BY <3>1 DEF TypeOK
    <3>2. CASE /\ j \in 1 .. Len(streamOrder)
               /\ result' = [result EXCEPT ![r][streamOrder[j]] = {Head(chan[r][k])}]
      <4>1. streamOrder[j] \in Keys /\ {Head(chan[r][k])} \in SUBSET (1 .. MaxEntries)
        BY <2>3, <3>2 DEF TypeOK
      <4> QED
        BY <3>2, <4>1 DEF TypeOK
    <3> QED
      BY <2>1, <3>1, <3>2
  <2>6. panicked' \in BOOLEAN
    BY <1>7, ReceiveFiles DEF TypeOK
  <2> QED
    BY <1>7, <2>4, <2>5, <2>6, AskedKeys DEF TypeOK, Receive, Pcs
<1>8. ASSUME NEW r \in Readers, Timeout(r) PROVE TypeOK'
  BY <1>8, AskedKeys DEF TypeOK, Timeout, Pcs
<1>9. ASSUME NEW r \in Readers, NEW k \in Keys, Unsubscribe(r, k) PROVE TypeOK'
  BY <1>9 DEF TypeOK, Unsubscribe, Pcs
<1>10. ASSUME NEW r \in Readers, WriteResult(r) PROVE TypeOK'
  BY <1>10 DEF TypeOK, WriteResult, Pcs
<1>11. CASE UNCHANGED vars
  BY <1>11 DEF TypeOK, vars
<1> QED
  BY <1>1, <1>2, <1>3, <1>4, <1>5, <1>6, <1>7, <1>8, <1>9, <1>10, <1>11 DEF Next, Step

(***************************************************************************)
(* Subscriptions and channels.                                             *)
(***************************************************************************)
\* Every step keeps the subscriptions in line with the phases.
LEMMA SubscribedStep == TypeOK /\ Subscribed /\ [Next]_vars => Subscribed'
<1> SUFFICES ASSUME TypeOK, Subscribed, [Next]_vars PROVE Subscribed'
  OBVIOUS
<1> USE AskedKeys DEF Subscribed, Subscription
<1>1. ASSUME NEW k \in Keys, XAdd(k) PROVE Subscribed'
  BY <1>1 DEF XAdd
<1>2. ASSUME NEW r \in Readers, ParseArgs(r) PROVE Subscribed'
  BY <1>2 DEF ParseArgs, TypeOK
<1>3. ASSUME NEW r \in Readers, NEW k \in Keys, Check(r, k) PROVE Subscribed'
  BY <1>3 DEF Check, TypeOK
<1>4. ASSUME NEW r \in Readers, Checked(r) PROVE Subscribed'
  BY <1>4 DEF Checked, TypeOK
<1>5. ASSUME NEW r \in Readers, NEW k \in Keys, Subscribe(r, k) PROVE Subscribed'
  BY <1>5, ZenonT(30) DEF Subscribe, TypeOK
<1>6. ASSUME NEW r \in Readers, BuildCases(r) PROVE Subscribed'
  BY <1>6 DEF BuildCases, TypeOK
<1>7. ASSUME NEW r \in Readers, NEW j \in 1 .. Len(cases[r]), Receive(r, j) PROVE Subscribed'
  BY <1>7 DEF Receive, TypeOK
<1>8. ASSUME NEW r \in Readers, Timeout(r) PROVE Subscribed'
  BY <1>8 DEF Timeout, TypeOK
<1>9. ASSUME NEW r \in Readers, NEW k \in Keys, Unsubscribe(r, k) PROVE Subscribed'
  BY <1>9 DEF Unsubscribe, TypeOK
<1>10. ASSUME NEW r \in Readers, WriteResult(r) PROVE Subscribed'
  BY <1>10 DEF WriteResult, TypeOK
<1>11. CASE UNCHANGED vars
  BY <1>11 DEF vars
<1> QED
  BY <1>1, <1>2, <1>3, <1>4, <1>5, <1>6, <1>7, <1>8, <1>9, <1>10, <1>11 DEF Next, Step

\* Every step keeps entries in the channels of their subscribers.
LEMMA ChannelsStep ==
    TypeOK /\ Channels /\ [Next]_vars => Channels'
<1> SUFFICES ASSUME TypeOK, Channels, [Next]_vars PROVE Channels'
  OBVIOUS
<1>1. ASSUME NEW k \in Keys, XAdd(k) PROVE Channels'
  <2> SUFFICES ASSUME NEW r \in Readers, NEW l \in Keys
               PROVE  /\ r \notin subs[l] => chan'[r][l] = <<>>
                      /\ \A i \in 1 .. Len(chan'[r][l]) : chan'[r][l][i] <= size'[l]
    BY <1>1 DEF XAdd, Channels
  <2>0. /\ chan[r][l] \in Seq(1 .. MaxEntries) /\ size[l] \in Nat
        /\ \A i \in 1 .. Len(chan[r][l]) : chan[r][l][i] \in Nat
    <3>1. chan[r][l] \in Seq(1 .. MaxEntries) /\ size[l] \in Nat
      BY DEF TypeOK
    <3>2. \A i \in 1 .. Len(chan[r][l]) : chan[r][l][i] \in 1 .. MaxEntries
      BY <3>1, ElementOfSeq
    <3> QED
      BY <3>1, <3>2
  <2>1. /\ r \notin subs[l] => chan[r][l] = <<>>
        /\ \A i \in 1 .. Len(chan[r][l]) : chan[r][l][i] <= size[l]
    BY DEF Channels
  <2>2. CASE chan'[r][l] = chan[r][l]
    <3>1. size'[l] \in {size[l], size[l] + 1}
      BY <1>1 DEF XAdd, TypeOK
    <3> QED
      BY <2>0, <2>1, <2>2, <3>1
  <2>3. CASE r \in subs[l] /\ l = k /\ chan'[r][l] = Append(chan[r][l], size[l] + 1)
    <3>1. size'[l] = size[l] + 1
      BY <1>1, <2>3 DEF XAdd, TypeOK
    <3>2. \A i \in 1 .. Len(chan'[r][l]) : \/ i \in 1 .. Len(chan[r][l]) /\ chan'[r][l][i] = chan[r][l][i]
                                          \/ chan'[r][l][i] = size[l] + 1
      BY <2>0, <2>3
    <3> QED
      BY <2>0, <2>1, <2>3, <3>1, <3>2, SMTT(30)
  <2> QED
    BY <1>1, <2>2, <2>3 DEF XAdd, TypeOK
<1>2. ASSUME NEW r \in Readers, ParseArgs(r) PROVE Channels'
  BY <1>2 DEF ParseArgs, TypeOK, Channels
<1>3. ASSUME NEW r \in Readers, NEW k \in Keys, Check(r, k) PROVE Channels'
  BY <1>3 DEF Check, TypeOK, Channels
<1>4. ASSUME NEW r \in Readers, Checked(r) PROVE Channels'
  BY <1>4 DEF Checked, TypeOK, Channels
<1>5. ASSUME NEW r \in Readers, NEW k \in Keys, Subscribe(r, k) PROVE Channels'
  BY <1>5 DEF Subscribe, TypeOK, Channels
<1>6. ASSUME NEW r \in Readers, BuildCases(r) PROVE Channels'
  BY <1>6 DEF BuildCases, TypeOK, Channels
<1>7. ASSUME NEW r \in Readers, NEW j \in 1 .. Len(cases[r]), Receive(r, j) PROVE Channels'
  <2> SUFFICES ASSUME NEW q \in Readers, NEW l \in Keys
               PROVE  /\ q \notin subs[l] => chan'[q][l] = <<>>
                      /\ \A i \in 1 .. Len(chan'[q][l]) : chan'[q][l][i] <= size[l]
    BY <1>7 DEF Receive, Channels
  <2>0. chan[q][l] \in Seq(1 .. MaxEntries)
    BY DEF TypeOK
  <2>1. /\ q \notin subs[l] => chan[q][l] = <<>>
        /\ \A i \in 1 .. Len(chan[q][l]) : chan[q][l][i] <= size[l]
    BY DEF Channels
  <2>2. \/ chan'[q][l] = chan[q][l]
        \/ chan[q][l] # <<>> /\ chan'[q][l] = Tail(chan[q][l]) /\ q \in subs[l]
    <3>1. /\ cases[r][j] \in Keys /\ r \in subs[cases[r][j]] /\ chan[r][cases[r][j]] # <<>>
          /\ chan' = [chan EXCEPT ![r][cases[r][j]] = Tail(@)]
      BY <1>7, ReceiveFiles
    <3>2. CASE q = r /\ l = cases[r][j]
      BY <3>1, <3>2 DEF TypeOK
    <3>3. CASE ~(q = r /\ l = cases[r][j])
      BY <3>1, <3>3 DEF TypeOK
    <3> QED
      BY <3>2, <3>3
  <2>3. chan[q][l] # <<>> => \A i \in 1 .. Len(Tail(chan[q][l])) :
          i + 1 \in 1 .. Len(chan[q][l]) /\ Tail(chan[q][l])[i] = chan[q][l][i + 1]
    BY <2>0, HeadTail
  <2> QED
    BY <2>0, <2>1, <2>2, <2>3
<1>8. ASSUME NEW r \in Readers, Timeout(r) PROVE Channels'
  BY <1>8 DEF Timeout, TypeOK, Channels
<1>9. ASSUME NEW r \in Readers, NEW k \in Keys, Unsubscribe(r, k) PROVE Channels'
  BY <1>9, SMTT(30) DEF Unsubscribe, TypeOK, Channels
<1>10. ASSUME NEW r \in Readers, WriteResult(r) PROVE Channels'
  BY <1>10 DEF WriteResult, TypeOK, Channels
<1>11. CASE UNCHANGED vars
  BY <1>11 DEF vars, TypeOK, Channels
<1> QED
  BY <1>1, <1>2, <1>3, <1>4, <1>5, <1>6, <1>7, <1>8, <1>9, <1>10, <1>11 DEF Next, Step

(***************************************************************************)
(* The shared streamOrder.                                                 *)
(***************************************************************************)
\* Every step keeps the order of an undisturbed XREAD: the parseArgs that
\* replaces it marks all that are running as disturbed.
LEMMA OwnOrderStep ==
    TypeOK /\ OwnOrder /\ [Next]_vars => OwnOrder'
<1> SUFFICES ASSUME TypeOK, OwnOrder, [Next]_vars PROVE OwnOrder'
  OBVIOUS
<1>1. ASSUME NEW k \in Keys, XAdd(k) PROVE OwnOrder'
  BY <1>1 DEF XAdd, TypeOK, OwnOrder, Started, Running
<1>2. ASSUME NEW r \in Readers, ParseArgs(r) PROVE OwnOrder'
  BY <1>2 DEF ParseArgs, TypeOK, OwnOrder, Started, Running
<1>3. ASSUME NEW r \in Readers, NEW k \in Keys, Check(r, k) PROVE OwnOrder'
  BY <1>3 DEF Check, TypeOK, OwnOrder, Started, Running
<1>4. ASSUME NEW r \in Readers, Checked(r) PROVE OwnOrder'
  BY <1>4 DEF Checked, TypeOK, OwnOrder, Started, Running
<1>5. ASSUME NEW r \in Readers, NEW k \in Keys, Subscribe(r, k) PROVE OwnOrder'
  BY <1>5 DEF Subscribe, TypeOK, OwnOrder, Started, Running
<1>6. ASSUME NEW r \in Readers, BuildCases(r) PROVE OwnOrder'
  BY <1>6 DEF BuildCases, TypeOK, OwnOrder, Started, Running
<1>7. ASSUME NEW r \in Readers, NEW j \in 1 .. Len(cases[r]), Receive(r, j) PROVE OwnOrder'
  BY <1>7 DEF Receive, TypeOK, OwnOrder, Started, Running
<1>8. ASSUME NEW r \in Readers, Timeout(r) PROVE OwnOrder'
  BY <1>8 DEF Timeout, TypeOK, OwnOrder, Started, Running
<1>9. ASSUME NEW r \in Readers, NEW k \in Keys, Unsubscribe(r, k) PROVE OwnOrder'
  BY <1>9 DEF Unsubscribe, TypeOK, OwnOrder, Started, Running
<1>10. ASSUME NEW r \in Readers, WriteResult(r) PROVE OwnOrder'
  BY <1>10 DEF WriteResult, TypeOK, OwnOrder, Started, Running
<1>11. CASE UNCHANGED vars
  BY <1>11 DEF vars, TypeOK, OwnOrder, Started, Running
<1> QED
  BY <1>1, <1>2, <1>3, <1>4, <1>5, <1>6, <1>7, <1>8, <1>9, <1>10, <1>11 DEF Next, Step

\* Every step keeps what an undisturbed XREAD has found in order.
LEMMA FoundStep ==
    TypeOK /\ Channels /\ OwnOrder /\ Subscribed /\ Found /\ [Next]_vars => Found'
<1> SUFFICES ASSUME TypeOK, Channels, OwnOrder, Subscribed, Found, [Next]_vars PROVE Found'
  OBVIOUS
<1>1. ASSUME NEW k \in Keys, XAdd(k) PROVE Found'
  BY <1>1 DEF XAdd, TypeOK, Found
<1>2. ASSUME NEW r \in Readers, ParseArgs(r) PROVE Found'
  BY <1>2 DEF ParseArgs, TypeOK, Found
<1>3. ASSUME NEW r \in Readers, NEW k \in Keys, Check(r, k) PROVE Found'
  <2>1. Available(r, k) \subseteq 1 .. size[k] /\ k \in Asked(r)
    BY <1>3, AvailableEntries DEF Check, Subscribed
  <2> QED
    BY <1>3, <2>1 DEF Check, TypeOK, Found
<1>4. ASSUME NEW r \in Readers, Checked(r) PROVE Found'
  BY <1>4 DEF Checked, TypeOK, Found
<1>5. ASSUME NEW r \in Readers, NEW k \in Keys, Subscribe(r, k) PROVE Found'
  BY <1>5 DEF Subscribe, TypeOK, Found
<1>6. ASSUME NEW r \in Readers, BuildCases(r) PROVE Found'
  BY <1>6 DEF BuildCases, TypeOK, Found
<1>7. ASSUME NEW r \in Readers, NEW j \in 1 .. Len(cases[r]), Receive(r, j) PROVE Found'
  <2>1. UNCHANGED <<disturbed, size, reply>> /\ pc' = [pc EXCEPT ![r] = "unsubscribe"]
    BY <1>7 DEF Receive
  <2>2. CASE UNCHANGED result
    BY <2>1, <2>2 DEF Found, TypeOK
  <2>3. CASE /\ j \in 1 .. Len(streamOrder)
             /\ result' = [result EXCEPT ![r][streamOrder[j]] = {Head(chan[r][cases[r][j]])}]
    <3> DEFINE k == cases[r][j]
    <3>1. k \in Keys /\ chan[r][k] # <<>>
      BY <1>7, ReceiveFiles
    <3>2. ~disturbed[r] => streamOrder[j] = k /\ k \in Asked(r)
      <4>1. ~disturbed[r] => streamOrder = Order[r] /\ cases[r] = Order[r]
        BY <1>7 DEF OwnOrder, Started, Receive
      <4> QED
        BY <4>1 DEF Asked
    <3>3. Head(chan[r][k]) \in 1 .. size[k]
      <4>1. /\ chan[r][k] \in Seq(1 .. MaxEntries) /\ size[k] \in Nat
            /\ \A i \in 1 .. Len(chan[r][k]) : chan[r][k][i] <= size[k]
        BY <3>1 DEF TypeOK, Channels
      <4>2. Head(chan[r][k]) \in 1 .. MaxEntries /\ Head(chan[r][k]) <= size[k]
        BY <3>1, <4>1, HeadTail
      <4> QED
        BY <4>1, <4>2
    <3> HIDE DEF k
    <3>4. result' = [result EXCEPT ![r][streamOrder[j]] = {Head(chan[r][k])}]
      BY <2>3 DEF k
    <3>5. streamOrder[j] \in Keys
      BY <2>3 DEF TypeOK
    <3> QED
      BY <2>1, <3>1, <3>2, <3>3, <3>4, <3>5 DEF Found, TypeOK
  <2> QED
    BY <1>7, <2>2, <2>3, ReceiveFiles
<1>8. ASSUME NEW r \in Readers, Timeout(r) PROVE Found'
  BY <1>8 DEF Timeout, TypeOK, Found
<1>9. ASSUME NEW r \in Readers, NEW k \in Keys, Unsubscribe(r, k) PROVE Found'
  BY <1>9 DEF Unsubscribe, TypeOK, Found
<1>10. ASSUME NEW r \in Readers, WriteResult(r) PROVE Found'
  <2>1. ASSUME ~disturbed[r] PROVE reply'[r] = result[r]
    <3>1. streamOrder = Order[r]
      BY <1>10, <2>1 DEF WriteResult, OwnOrder, Started
    <3>2. reply'[r] = [k \in Keys |-> IF k \in Asked(r) THEN result[r][k] ELSE {}]
      BY <1>10, <3>1 DEF WriteResult, TypeOK, Asked
    <3>3. result[r] = [k \in Keys |-> result[r][k]]
      BY DEF TypeOK
    <3> QED
      BY <2>1, <3>2, <3>3 DEF Found
  <2> QED
    BY <1>10, <2>1 DEF WriteResult, TypeOK, Found
<1>11. CASE UNCHANGED vars
  BY <1>11 DEF vars, TypeOK, Found
<1> QED
  BY <1>1, <1>2, <1>3, <1>4, <1>5, <1>6, <1>7, <1>8, <1>9, <1>10, <1>11 DEF Next, Step

\* Only a disturbed XREAD looks up a name beyond the end of streamOrder.
LEMMA PanicStep ==
    TypeOK /\ OwnOrder /\ PanicCause /\ [Next]_vars => PanicCause'
<1> SUFFICES ASSUME TypeOK, OwnOrder, PanicCause, [Next]_vars PROVE PanicCause'
  OBVIOUS
<1>1. ASSUME NEW k \in Keys, XAdd(k) PROVE PanicCause'
  BY <1>1 DEF XAdd, TypeOK, PanicCause
<1>2. ASSUME NEW r \in Readers, ParseArgs(r) PROVE PanicCause'
  BY <1>2 DEF ParseArgs, TypeOK, PanicCause
<1>3. ASSUME NEW r \in Readers, NEW k \in Keys, Check(r, k) PROVE PanicCause'
  BY <1>3 DEF Check, TypeOK, PanicCause
<1>4. ASSUME NEW r \in Readers, Checked(r) PROVE PanicCause'
  BY <1>4 DEF Checked, TypeOK, PanicCause
<1>5. ASSUME NEW r \in Readers, NEW k \in Keys, Subscribe(r, k) PROVE PanicCause'
  BY <1>5 DEF Subscribe, TypeOK, PanicCause
<1>6. ASSUME NEW r \in Readers, BuildCases(r) PROVE PanicCause'
  BY <1>6 DEF BuildCases, TypeOK, PanicCause
<1>7. ASSUME NEW r \in Readers, NEW j \in 1 .. Len(cases[r]), Receive(r, j) PROVE PanicCause'
  <2>1. UNCHANGED disturbed /\ pc[r] = "select"
    BY <1>7 DEF Receive
  <2>2. CASE UNCHANGED panicked
    BY <2>1, <2>2 DEF PanicCause
  <2>3. CASE j > Len(streamOrder)
    <3>1. ~disturbed[r] => streamOrder = Order[r] /\ cases[r] = Order[r]
      BY <2>1 DEF OwnOrder, Started
    <3>2. Len(cases[r]) \in Nat /\ Len(streamOrder) \in Nat
      BY DEF TypeOK
    <3> QED
      BY <2>1, <2>3, <3>1, <3>2 DEF PanicCause
  <2> QED
    BY <1>7, <2>2, <2>3, ReceiveFiles
<1>8. ASSUME NEW r \in Readers, Timeout(r) PROVE PanicCause'
  BY <1>8 DEF Timeout, TypeOK, PanicCause
<1>9. ASSUME NEW r \in Readers, NEW k \in Keys, Unsubscribe(r, k) PROVE PanicCause'
  BY <1>9 DEF Unsubscribe, TypeOK, PanicCause
<1>10. ASSUME NEW r \in Readers, WriteResult(r) PROVE PanicCause'
  BY <1>10 DEF WriteResult, TypeOK, PanicCause
<1>11. CASE UNCHANGED vars
  BY <1>11 DEF vars, TypeOK, PanicCause
<1> QED
  BY <1>1, <1>2, <1>3, <1>4, <1>5, <1>6, <1>7, <1>8, <1>9, <1>10, <1>11 DEF Next, Step

(***************************************************************************)
(* The loop.                                                               *)
(***************************************************************************)
\* Every step leaves the loop with the XREAD that runs in it.
LEMMA LoopOwnerStep ==
    TypeOK /\ LoopOwner /\ [Next]_vars => LoopOwner'
<1> SUFFICES ASSUME TypeOK, LoopOwner, [Next]_vars PROVE LoopOwner'
  OBVIOUS
<1> USE XReadAssumption
<1>1. ASSUME NEW k \in Keys, XAdd(k) PROVE LoopOwner'
  BY <1>1 DEF XAdd, TypeOK, LoopOwner, InLoop, Started
<1>2. ASSUME NEW r \in Readers, ParseArgs(r) PROVE LoopOwner'
  BY <1>2 DEF ParseArgs, TypeOK, LoopOwner, InLoop, Started
<1>3. ASSUME NEW r \in Readers, NEW k \in Keys, Check(r, k) PROVE LoopOwner'
  BY <1>3 DEF Check, TypeOK, LoopOwner, InLoop, Started
<1>4. ASSUME NEW r \in Readers, Checked(r) PROVE LoopOwner'
  BY <1>4 DEF Checked, TypeOK, LoopOwner, InLoop, Started
<1>5. ASSUME NEW r \in Readers, NEW k \in Keys, Subscribe(r, k) PROVE LoopOwner'
  BY <1>5 DEF Subscribe, TypeOK, LoopOwner, InLoop, Started
<1>6. ASSUME NEW r \in Readers, BuildCases(r) PROVE LoopOwner'
  BY <1>6 DEF BuildCases, TypeOK, LoopOwner, InLoop, Started
<1>7. ASSUME NEW r \in Readers, NEW j \in 1 .. Len(cases[r]), Receive(r, j) PROVE LoopOwner'
  BY <1>7 DEF Receive, TypeOK, LoopOwner, InLoop, Started
<1>8. ASSUME NEW r \in Readers, Timeout(r) PROVE LoopOwner'
  BY <1>8 DEF Timeout, TypeOK, LoopOwner, InLoop, Started
<1>9. ASSUME NEW r \in Readers, NEW k \in Keys, Unsubscribe(r, k) PROVE LoopOwner'
  BY <1>9 DEF Unsubscribe, TypeOK, LoopOwner, InLoop, Started
<1>10. ASSUME NEW r \in Readers, WriteResult(r) PROVE LoopOwner'
  BY <1>10 DEF WriteResult, TypeOK, LoopOwner, InLoop, Started
<1>11. CASE UNCHANGED vars
  BY <1>11 DEF vars, TypeOK, LoopOwner, InLoop, Started
<1> QED
  BY <1>1, <1>2, <1>3, <1>4, <1>5, <1>6, <1>7, <1>8, <1>9, <1>10, <1>11 DEF Next, Step

\* Every step keeps entries away from an XREAD that blocks inside the loop.
LEMMA QueuedIsDeafStep ==
    TypeOK /\ Subscribed /\ Channels /\ LoopOwner /\ QueuedIsDeaf /\ [Next]_vars => QueuedIsDeaf'
<1> SUFFICES ASSUME TypeOK, Subscribed, Channels, LoopOwner, QueuedIsDeaf, [Next]_vars PROVE QueuedIsDeaf'
  OBVIOUS
<1>1. ASSUME NEW k \in Keys, XAdd(k) PROVE QueuedIsDeaf'
  <2>1. loopHeld = NoReader /\ UNCHANGED <<pc, queued>>
    BY <1>1 DEF XAdd
  <2>2. \A r \in queued : pc[r] \notin {"subscribe", "cases", "select"}
    BY <2>1, XReadAssumption DEF LoopOwner, InLoop, Started, TypeOK
  <2> QED
    BY <2>1, <2>2 DEF QueuedIsDeaf
<1>2. ASSUME NEW r \in Readers, ParseArgs(r) PROVE QueuedIsDeaf'
  BY <1>2 DEF ParseArgs, TypeOK, QueuedIsDeaf
<1>3. ASSUME NEW r \in Readers, NEW k \in Keys, Check(r, k) PROVE QueuedIsDeaf'
  BY <1>3 DEF Check, TypeOK, QueuedIsDeaf
<1>4. ASSUME NEW r \in Readers, Checked(r) PROVE QueuedIsDeaf'
  <2>1. \A k \in Keys : chan[r][k] = <<>>
    BY <1>4 DEF Checked, Subscribed, Subscription, Channels
  <2> QED
    BY <1>4, <2>1 DEF Checked, TypeOK, QueuedIsDeaf
<1>5. ASSUME NEW r \in Readers, NEW k \in Keys, Subscribe(r, k) PROVE QueuedIsDeaf'
  BY <1>5 DEF Subscribe, TypeOK, QueuedIsDeaf
<1>6. ASSUME NEW r \in Readers, BuildCases(r) PROVE QueuedIsDeaf'
  BY <1>6 DEF BuildCases, TypeOK, QueuedIsDeaf
<1>7. ASSUME NEW r \in Readers, NEW j \in 1 .. Len(cases[r]), Receive(r, j) PROVE QueuedIsDeaf'
  BY <1>7 DEF Receive, TypeOK, QueuedIsDeaf
<1>8. ASSUME NEW r \in Readers, Timeout(r) PROVE QueuedIsDeaf'
  BY <1>8 DEF Timeout, TypeOK, QueuedIsDeaf
<1>9. ASSUME NEW r \in Readers, NEW k \in Keys, Unsubscribe(r, k) PROVE QueuedIsDeaf'
  BY <1>9 DEF Unsubscribe, TypeOK, QueuedIsDeaf
<1>10. ASSUME NEW r \in Readers, WriteResult(r) PROVE QueuedIsDeaf'
  BY <1>10 DEF WriteResult, TypeOK, QueuedIsDeaf
<1>11. CASE UNCHANGED vars
  BY <1>11 DEF vars, TypeOK, QueuedIsDeaf
<1> QED
  BY <1>1, <1>2, <1>3, <1>4, <1>5, <1>6, <1>7, <1>8, <1>9, <1>10, <1>11 DEF Next, Step

(***************************************************************************)
(* The theorems.                                                           *)
(***************************************************************************)
\* The invariant holds at first and every step keeps it.
LEMMA Invariance == Spec => []IInv
<1>1. Init => IInv
  <2> SUFFICES ASSUME Init PROVE IInv
    OBVIOUS
  <2>1. TypeOK
    <3>1. /\ \A S : <<>> \in Seq(S)
          /\ 0 \in 0 .. MaxEntries
      BY XReadAssumption
    <3> QED
      BY <3>1 DEF Init, TypeOK, Pcs, NoEntries
  <2>2. Subscribed /\ Channels
    BY DEF Init, Subscribed, Subscription, Channels
  <2>3. OwnOrder /\ Found /\ PanicCause
    BY DEF Init, OwnOrder, Started, Found, PanicCause, NoEntries
  <2>4. LoopOwner /\ QueuedIsDeaf
    BY DEF Init, LoopOwner, Started, QueuedIsDeaf
  <2> QED
    BY <2>1, <2>2, <2>3, <2>4 DEF IInv
<1>2. IInv /\ [Next]_vars => IInv'
  BY TypeStep, SubscribedStep, ChannelsStep, OwnOrderStep, FoundStep, PanicStep,
     LoopOwnerStep, QueuedIsDeafStep DEF IInv
<1> QED
  BY <1>1, <1>2, PTL DEF Spec

\* XREAD keeps its types: no entry beyond the end of its stream, none that is
\* numbered 0, and no name that is not a key is ever filed or answered.
THEOREM TypeCorrect == Spec => []TypeOK
<1>1. IInv => TypeOK
  BY DEF IInv
<1> QED
  BY <1>1, Invariance, PTL

\* Whichever way blockingRead ends, the deferred Unsubscribe calls have taken
\* back every subscription when XREAD has been answered.
THEOREM SubscriptionsAreTakenBack == Spec => []NoLeakedSubscription
<1>1. IInv => NoLeakedSubscription
  BY DEF IInv, Subscribed, Subscription, NoLeakedSubscription, Running
<1> QED
  BY <1>1, Invariance, PTL

\* An XREAD during which no other one ran parseArgs answers rightly, and only a
\* disturbed one can end the process.
THEOREM UndisturbedAnswer == Spec => []ReplyIsRight
<1>1. IInv => ReplyIsRight
  BY DEF IInv, Found, PanicCause, ReplyIsRight
<1> QED
  BY <1>1, Invariance, PTL

\* An undisturbed XREAD that blocks is subscribed to each stream it asked for
\* and has a select case for it.
THEOREM UndisturbedListens == Spec => []UndisturbedReaderListens
<1>1. IInv => UndisturbedReaderListens
  <2> SUFFICES ASSUME IInv, NEW r \in Readers, pc[r] = "select", ~disturbed[r],
                      NEW k \in Asked(r)
               PROVE  r \in subs[k] /\ \E j \in 1 .. Len(cases[r]) : cases[r][j] = k
    BY DEF UndisturbedReaderListens
  <2>1. r \in subs[k]
    BY AskedKeys DEF IInv, Subscribed, Subscription
  <2>2. cases[r] = Order[r]
    BY DEF IInv, OwnOrder, Started
  <2> QED
    BY <2>1, <2>2 DEF Asked
<1> QED
  BY <1>1, Invariance, PTL

\* A queued XREAD with BLOCK 0 that has found nothing holds the loop that XADD
\* would need: no step of anyone wakes it.
THEOREM QueuedReadStuck == Spec => QueuedReadNeverWakes
<1>1. IInv /\ [Next]_vars => [\A r \in queued : Stuck(r) => Stuck(r)']_vars
  <2> SUFFICES ASSUME IInv, [Next]_vars, NEW r \in queued, Stuck(r) PROVE Stuck(r)'
    OBVIOUS
  <2>1. /\ r \in Readers /\ Block[r] = "forever"
        /\ pc[r] \in {"subscribe", "cases", "select"} /\ \A k \in Keys : chan[r][k] = <<>>
    BY DEF IInv, TypeOK, Stuck, QueuedIsDeaf
  <2>2. pc'[r] \in {"subscribe", "cases", "select"}
    <3>0. TypeOK /\ pc \in [Readers -> Pcs]
      BY DEF IInv, TypeOK
    <3>1. ASSUME NEW k \in Keys, XAdd(k) PROVE pc'[r] = pc[r]
      BY <3>1 DEF XAdd
    <3>2. ASSUME NEW q \in Readers, ParseArgs(q) PROVE pc'[r] = pc[r]
      BY <2>1, <3>0, <3>2 DEF ParseArgs
    <3>3. ASSUME NEW q \in Readers,
                 \/ Checked(q) \/ WriteResult(q) \/ Timeout(q)
                 \/ \E k \in Keys : Check(q, k) \/ Unsubscribe(q, k)
          PROVE  pc'[r] = pc[r]
      BY <2>1, <3>0, <3>3 DEF Checked, WriteResult, Timeout, Check, Unsubscribe
    <3>4. ASSUME NEW q \in Readers, NEW k \in Keys, Subscribe(q, k)
          PROVE  pc'[r] \in {pc[r], "cases"}
      BY <3>0, <3>4 DEF Subscribe
    <3>5. ASSUME NEW q \in Readers, BuildCases(q) PROVE pc'[r] \in {pc[r], "select"}
      BY <3>0, <3>5 DEF BuildCases
    <3>6. ASSUME NEW q \in Readers, NEW j \in 1 .. Len(cases[q]), Receive(q, j)
          PROVE  pc'[r] = pc[r]
      <4>1. q # r
        BY <2>1, <3>0, <3>6, ReceiveFiles
      <4> QED
        BY <3>0, <3>6, <4>1 DEF Receive
    <3>7. CASE UNCHANGED vars
      BY <2>1, <3>7 DEF vars
    <3> QED
      BY <2>1, <3>1, <3>2, <3>3, <3>4, <3>5, <3>6, <3>7 DEF Next, Step
  <2> QED
    BY <2>1, <2>2 DEF Stuck
<1> QED
  BY <1>1, Invariance, PTL DEF Spec, QueuedReadNeverWakes

=============================================================================
