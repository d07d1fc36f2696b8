--------------------------- MODULE ServingProofs ---------------------------
(***************************************************************************)
(* Proofs about Serving, for any configurations, requests and handlers.    *)
(*                                                                         *)
(* The heart is ScanStep of MatchingProofs: looking at one more entry      *)
(* keeps the best entry right among those looked at.                       *)
(***************************************************************************)
EXTENDS Serving, MatchingProofs

----------------------------------------------------------------------------
(* The invariant. *)

\* A call that has not read the routes yet may still get the installed ones;
\* one that has got them looks at nothing else.
Snapshot ==
  \A h \in Handlers :
    /\ pc[h] = "read" => installed \in since[h]
    /\ pc[h] \in {"scan", "replied"} => snap[h] \in since[h]

\* What the scan has found is right among the entries it has looked at.
Scanned ==
  \A h \in Handlers :
    pc[h] = "scan" => RightUpTo(snap[h], req[h], best[h], at[h] - 1)

\* A reply is made from a scan of the whole list.
Answered ==
  \A h \in Handlers :
    pc[h] = "replied" =>
      /\ RightUpTo(snap[h], req[h], best[h], Len(snap[h]))
      /\ reply[h] = Answer(snap[h], best[h])

IInv == TypeOK /\ Snapshot /\ Scanned /\ Answered

\* Configurations are finite sequences of entries.
LEMMA ConfigTypes ==
  ASSUME NEW c \in Configs
  PROVE  /\ Len(c) \in Nat
         /\ Scannable(c)
         /\ <<>> \in Configs
<1>1. c \in Seq(Entries) /\ <<>> \in Configs
  BY ConfigsAssumption
<1>2. Len(c) \in Nat /\ \A j \in 1..Len(c) : c[j] \in Entries
  BY <1>1
<1> QED
  BY <1>1, <1>2 DEF Scannable, Comparable, Entries

\* Before the first entry nothing has been found.
LEMMA NothingYet ==
  ASSUME NEW c \in Configs, NEW q PROVE RightUpTo(c, q, 0, 0)
  BY DEF RightUpTo, Hits

\* What ServeHTTP answers is an answer.
LEMMA AnswerType ==
  ASSUME NEW c \in Configs, NEW i \in 0..Len(c) PROVE Answer(c, i) \in Replies
  BY DEF Answer, Replies

LEMMA InitIInv == Init => IInv
<1> SUFFICES ASSUME Init PROVE IInv
  OBVIOUS
<1>1. <<>> \in Configs /\ Len(<<>>) = 0
  BY ConfigsAssumption
<1>2. TypeOK
  BY <1>1 DEF Init, TypeOK, Replies
<1>3. Snapshot /\ Scanned /\ Answered
  BY DEF Init, Snapshot, Scanned, Answered
<1> QED
  BY <1>2, <1>3 DEF IInv

LEMMA NextIInv == IInv /\ [Next]_vars => IInv'
<1> SUFFICES ASSUME IInv, [Next]_vars PROVE IInv'
  OBVIOUS
<1> USE DEF IInv
<1>1. ASSUME NEW c \in Configs, Install(c) PROVE IInv'
  <2>1. TypeOK'
    BY <1>1 DEF Install, TypeOK
  <2>2. Snapshot'
    BY <1>1 DEF Install, Snapshot, TypeOK
  <2>3. Scanned' /\ Answered'
    BY <1>1 DEF Install, Scanned, Answered
  <2> QED
    BY <2>1, <2>2, <2>3
<1>2. ASSUME NEW h \in Handlers, Accept(h) PROVE IInv'
  <2>1. TypeOK'
    BY <1>2 DEF Accept, TypeOK
  <2>2. Snapshot' /\ Scanned' /\ Answered'
    BY <1>2 DEF Accept, Snapshot, Scanned, Answered, TypeOK
  <2> QED
    BY <2>1, <2>2
<1>3. ASSUME NEW h \in Handlers, ReadRoutes(h) PROVE IInv'
  <2>0. Len(installed) \in Nat
    BY ConfigTypes DEF TypeOK
  <2>1. TypeOK'
    BY <1>3, <2>0 DEF ReadRoutes, TypeOK
  <2>2. Snapshot' /\ Answered'
    BY <1>3 DEF ReadRoutes, Snapshot, Answered, TypeOK
  <2>3. RightUpTo(snap'[h], req'[h], best'[h], at'[h] - 1)
    BY <1>3, NothingYet DEF ReadRoutes, TypeOK
  <2>4. Scanned'
    BY <1>3, <2>3 DEF ReadRoutes, Scanned, TypeOK
  <2> QED
    BY <2>1, <2>2, <2>4
<1>4. ASSUME NEW h \in Handlers, Look(h) PROVE IInv'
  <2> DEFINE c == snap[h]
             n == at[h]
  <2>0. /\ c \in Configs /\ Len(c) \in Nat /\ n \in 1..Len(c) /\ best[h] \in 0..(n - 1)
        /\ req[h] \in Requests /\ Scannable(c)
    BY <1>4, ConfigTypes DEF Look, TypeOK
  <2>1. /\ at' = [at EXCEPT ![h] = n + 1]
        /\ best' = [best EXCEPT ![h] = Next1(c, req[h], best[h], n)]
        /\ UNCHANGED <<installed, pc, req, snap, reply, since>>
        /\ pc[h] = "scan"
    BY <1>4 DEF Look, Next1, TypeOK
  <2>2. RightUpTo(c, req[h], best[h], n - 1)
    BY <2>1 DEF Scanned
  <2>3. /\ Next1(c, req[h], best[h], n) \in 0..n
        /\ RightUpTo(c, req[h], Next1(c, req[h], best[h], n), n)
    BY <2>0, <2>2, ScanStep
  <2>4. TypeOK'
    <3>1. at' = [k \in Handlers |-> at'[k]] /\ best' = [k \in Handlers |-> best'[k]]
      BY <2>1 DEF TypeOK
    <3>2. \A k \in Handlers :
            /\ pc'[k] \in {"read", "scan"} => req'[k] \in Requests
            /\ pc'[k] \in {"idle", "read"} => at'[k] = 1 /\ best'[k] = 0
            /\ at'[k] \in 1..(Len(snap'[k]) + 1)
            /\ best'[k] \in 0..(at'[k] - 1)
      <4>1. ASSUME NEW k \in Handlers, k # h
            PROVE  /\ pc'[k] = pc[k] /\ req'[k] = req[k] /\ snap'[k] = snap[k]
                   /\ at'[k] = at[k] /\ best'[k] = best[k]
        BY <2>1, <2>3, <4>1 DEF TypeOK
      <4>2. /\ pc'[h] = pc[h] /\ pc[h] = "scan" /\ req'[h] = req[h] /\ snap'[h] = c
            /\ at'[h] = n + 1 /\ best'[h] = Next1(c, req[h], best[h], n)
        BY <2>1, <2>3 DEF TypeOK
      <4> DEFINE b == Next1(c, req[h], best[h], n)
      <4>3. b \in 0..n
        BY <2>3
      <4> HIDE DEF b
      <4>4. \A k \in Handlers : k # h =>
              /\ pc'[k] \in {"read", "scan"} => req'[k] \in Requests
              /\ pc'[k] \in {"idle", "read"} => at'[k] = 1 /\ best'[k] = 0
              /\ at'[k] \in 1..(Len(snap'[k]) + 1)
              /\ best'[k] \in 0..(at'[k] - 1)
        BY <4>1 DEF TypeOK
      <4>5. /\ req'[h] \in Requests
            /\ at'[h] \in 1..(Len(snap'[h]) + 1)
        BY <2>0, <4>2
      <4>6. best'[h] = b /\ at'[h] - 1 = n
        BY <2>0, <4>2 DEF b
      <4>7. best'[h] \in 0..(at'[h] - 1) /\ pc'[h] = "scan"
        BY <4>2, <4>3, <4>6
      <4> QED
        BY <4>4, <4>5, <4>7
    <3> QED
      BY <2>1, <3>1, <3>2 DEF TypeOK
  <2>5. Snapshot' /\ Answered'
    BY <2>1 DEF Snapshot, Answered, TypeOK
  <2>6. at'[h] - 1 = n /\ best'[h] = Next1(c, req[h], best[h], n)
    BY <2>0, <2>1 DEF TypeOK
  <2>7. Scanned'
    BY <2>1, <2>3, <2>6 DEF Scanned, TypeOK
  <2> QED
    BY <2>4, <2>5, <2>7
<1>5. ASSUME NEW h \in Handlers, Reply(h) PROVE IInv'
  <2>0. /\ Len(snap[h]) \in Nat /\ at[h] - 1 = Len(snap[h])
        /\ best[h] \in 0..Len(snap[h]) /\ snap[h] \in Configs
    BY <1>5, ConfigTypes DEF Reply, TypeOK
  <2>1. TypeOK'
    BY <1>5, <2>0, AnswerType DEF Reply, TypeOK
  <2>2. Snapshot' /\ Scanned'
    BY <1>5 DEF Reply, Snapshot, Scanned, TypeOK
  <2>3. RightUpTo(snap[h], req[h], best[h], Len(snap[h]))
    BY <1>5, <2>0 DEF Reply, Scanned
  <2>4. Answered'
    BY <1>5, <2>3 DEF Reply, Answered, TypeOK
  <2> QED
    BY <2>1, <2>2, <2>4
<1>6. ASSUME NEW h \in Handlers, Done(h) PROVE IInv'
  <2>0. <<>> \in Configs /\ Len(<<>>) = 0
    BY ConfigsAssumption
  <2>1. TypeOK'
    <3>1. at' = [k \in Handlers |-> at'[k]] /\ best' = [k \in Handlers |-> best'[k]]
      BY <1>6 DEF Done, TypeOK
    <3>2. \A k \in Handlers :
            /\ pc'[k] \in {"read", "scan"} => req'[k] \in Requests
            /\ pc'[k] \in {"idle", "read"} => at'[k] = 1 /\ best'[k] = 0
            /\ at'[k] \in 1..(Len(snap'[k]) + 1)
            /\ best'[k] \in 0..(at'[k] - 1)
      <4>1. ASSUME NEW k \in Handlers, k # h
            PROVE  /\ pc'[k] = pc[k] /\ req'[k] = req[k] /\ snap'[k] = snap[k]
                   /\ at'[k] = at[k] /\ best'[k] = best[k]
        BY <1>6, <2>0, <4>1 DEF Done, TypeOK
      <4>2. /\ pc'[h] = "idle" /\ snap'[h] = <<>>
            /\ at'[h] = 1 /\ best'[h] = 0
        BY <1>6, <2>0 DEF Done, TypeOK
      <4> QED
        BY <2>0, <4>1, <4>2 DEF TypeOK
    <3>3. reply' \in [Handlers -> Replies] /\ since' \in [Handlers -> SUBSET Configs]
      BY <1>6 DEF Done, TypeOK, Replies
    <3>4. /\ installed' \in Configs
          /\ pc'    \in [Handlers -> {"idle", "read", "scan", "replied"}]
          /\ req'   \in [Handlers -> Requests \union {NoRequest}]
          /\ snap'  \in [Handlers -> Configs]
      BY <1>6, <2>0 DEF Done, TypeOK
    <3> QED
      BY <3>1, <3>2, <3>3, <3>4 DEF TypeOK
  <2>2. Snapshot' /\ Scanned' /\ Answered'
    BY <1>6 DEF Done, Snapshot, Scanned, Answered, TypeOK
  <2> QED
    BY <2>1, <2>2
<1>7. CASE UNCHANGED vars
  BY <1>7 DEF vars, TypeOK, Snapshot, Scanned, Answered
<1> QED
  BY <1>1, <1>2, <1>3, <1>4, <1>5, <1>6, <1>7 DEF Next

LEMMA IInvAnswers == IInv => AnsweredByOneConfiguration
<1> SUFFICES ASSUME IInv, NEW h \in Handlers, pc[h] = "replied"
             PROVE  \E c \in since[h] : \E i \in 0..Len(c) :
                      RightUpTo(c, req[h], i, Len(c)) /\ reply[h] = Answer(c, i)
  BY DEF AnsweredByOneConfiguration
<1>1. snap[h] \in since[h]
  BY DEF IInv, Snapshot
<1>2. best[h] \in 0..Len(snap[h])
  BY ConfigTypes DEF IInv, TypeOK
<1>3. RightUpTo(snap[h], req[h], best[h], Len(snap[h])) /\ reply[h] = Answer(snap[h], best[h])
  BY DEF IInv, Answered
<1> QED
  BY <1>1, <1>2, <1>3

----------------------------------------------------------------------------

\* The variables keep their types, whatever routes are installed when.
THEOREM TypeCorrect == Spec => []TypeOK
<1>1. IInv => TypeOK
  BY DEF IInv
<1> QED
  BY <1>1, InitIInv, NextIInv, PTL DEF Spec

\* A request is answered by the right rule of one configuration that was
\* installed during the call, for any number of handlers and any lists.
THEOREM OneConfiguration == Spec => []AnsweredByOneConfiguration
  BY InitIInv, NextIInv, IInvAnswers, PTL DEF Spec
=============================================================================
