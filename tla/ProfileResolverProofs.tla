------------------------ MODULE ProfileResolverProofs ------------------------
(* Proofs about module ProfileResolver, for any set of profiles and any    *)
(* parent files: what visit leaves in the chain, when it fails, and that   *)
(* the chain and the cascade agree about what inherits from what.          *)
EXTENDS ProfileResolver, BuildCascadeProofs, NaturalsInduction

USE ProfilesAssumption, InputsAssumption

(***************************************************************************)
(* What is above a profile.                                                *)
(***************************************************************************)

\* Both programs read the same parents, which are names.
LEMMA ReadParentsAreParents ==
    ASSUME TypeOK, NEW p \in Profiles
    PROVE  ReadParents(p) = Parents(p) /\ Parents(p) \in SUBSET Names
BY DEF ReadParents, Parents, TypeOK

\* The ancestry has the target and the parents of all it has.
LEMMA AncestryIsUpward ==
    ASSUME TypeOK, ResolverTypeOK
    PROVE  target \subseteq Ancestry /\ Upward(Ancestry)
<1>1. target \subseteq Ancestry
  BY DEF Ancestry, ResolverTypeOK
<1>2. ASSUME NEW p \in Ancestry \cap Profiles, NEW q \in Parents(p)
      PROVE  q \in Ancestry
  <2>1. q \in Names
    BY ReadParentsAreParents
  <2>2. ASSUME NEW S \in SUBSET Names, target \subseteq S, Upward(S)
        PROVE  q \in S
    BY <2>2 DEF Ancestry, Upward
  <2>3. QED
    BY <2>1, <2>2 DEF Ancestry
<1>3. QED
  BY <1>1, <1>2 DEF Upward

\* It is the least such set.
LEMMA AncestryIsLeast ==
    ASSUME NEW S \in SUBSET Names, target \subseteq S, Upward(S)
    PROVE  Ancestry \subseteq S
BY DEF Ancestry

\* It depends on the target and the parent files.
LEMMA SameAncestry ==
    ASSUME declared' = declared, target' = target
    PROVE  /\ Ancestry' = Ancestry
           /\ \A p : Parents(p)' = Parents(p)
           /\ Resolvable' <=> Resolvable
<1>1. \A p : Parents(p)' = Parents(p)
  BY DEF Parents
<1>2. \A S : Upward(S)' <=> Upward(S)
  BY <1>1 DEF Upward
<1>3. Ancestry' = Ancestry
  BY <1>2 DEF Ancestry
<1>4. QED
  BY <1>1, <1>3 DEF Resolvable, Acyclic

\* "Inherits from" read upwards and downwards: the root is above a profile
\* exactly if the profile is downstream of the root.
LEMMA UpIsDown ==
    ASSUME TypeOK, ResolverTypeOK, NEW p \in Profiles, target = {p}
    PROVE  root \in Ancestry <=> p \in Downstream
<1>1. root \in Profiles
  BY DEF TypeOK
<1>2. ASSUME p \notin Downstream PROVE root \notin Ancestry
  <2>1. PICK D \in SUBSET Profiles : root \in D /\ Downward(D) /\ p \notin D
    BY <1>2 DEF Downstream
  <2>2. Names \ D \in SUBSET Names /\ target \subseteq Names \ D
    BY <2>1
  <2>3. ASSUME NEW n \in (Names \ D) \cap Profiles, NEW q \in Parents(n)
        PROVE  q \in Names \ D
    <3>1. q \in Names
      BY ReadParentsAreParents
    <3>2. q \notin D
      BY <2>1, ChildOf DEF Downward
    <3>3. QED
      BY <3>1, <3>2
  <2>4. Upward(Names \ D)
    BY <2>3 DEF Upward
  <2>5. QED
    BY <2>1, <2>2, <2>4, AncestryIsLeast
<1>3. ASSUME root \notin Ancestry PROVE p \notin Downstream
  <2>1. p \in Ancestry /\ Upward(Ancestry)
    BY AncestryIsUpward
  <2> DEFINE S == Profiles \ Ancestry
  <2>2. S \in SUBSET Profiles /\ root \in S /\ p \notin S
    BY <1>1, <1>3, <2>1
  <2>3. ASSUME NEW n \in S, NEW c \in Children(n) PROVE c \in S
    <3>1. c \in Profiles /\ n \in Parents(c)
      BY ChildOf
    <3>2. c \notin Ancestry
      BY <2>1, <3>1 DEF Upward
    <3>3. QED
      BY <3>1, <3>2
  <2>4. Downward(S)
    BY <2>3 DEF Downward
  <2> HIDE DEF S
  <2>5. QED
    BY <2>2, <2>4 DEF Downstream
<1>4. QED
  BY <1>2, <1>3

(***************************************************************************)
(* The stack of calls, as the sequence it is.                              *)
(***************************************************************************)

\* The innermost call is replaced.
LEMMA HeadReplaced ==
    ASSUME NEW T, NEW s \in Seq(T), s # <<>>, NEW x \in T,
           NEW r, r = <<x>> \o Tail(s)
    PROVE  /\ r \in Seq(T) /\ Len(r) = Len(s) /\ r # <<>>
           /\ r[1] = x /\ \A i \in 2..Len(s) : r[i] = s[i]
OBVIOUS

\* Another call is made.
LEMMA HeadPushed ==
    ASSUME NEW T, NEW s \in Seq(T), NEW x \in T,
           NEW r, r = <<x>> \o s
    PROVE  /\ r \in Seq(T) /\ Len(r) = Len(s) + 1 /\ r # <<>>
           /\ r[1] = x /\ \A i \in 1..Len(s) : r[i + 1] = s[i]
OBVIOUS

\* The innermost call returns.
LEMMA HeadPopped ==
    ASSUME NEW T, NEW s \in Seq(T), s # <<>>
    PROVE  /\ Tail(s) \in Seq(T) /\ Len(Tail(s)) = Len(s) - 1
           /\ \A i \in 1..(Len(s) - 1) : Tail(s)[i] = s[i + 1]
OBVIOUS

-----------------------------------------------------------------------------
(* Every step keeps the invariant.                                         *)

CallRecord == [name : Profiles, left : SUBSET Names]

\* The invariant holds before the cascade is computed.
LEMMA InitResolverIInv == ResolverInit => ResolverIInv
<1> SUFFICES ASSUME ResolverInit PROVE ResolverIInv
  OBVIOUS
<1>1. /\ Init /\ target = {} /\ chain = <<>> /\ calls = <<>> /\ outcome = "none"
  BY DEF ResolverInit
<1>2. IInv
  BY <1>1, InitIInv
<1>3. ResolverTypeOK
  BY <1>1 DEF ResolverTypeOK
<1>4. ChainInv /\ CallsInv /\ OutcomeInv
  BY <1>1 DEF ChainInv, CallsInv, OutcomeInv, Chained
<1>5. QED
  BY <1>2, <1>3, <1>4 DEF ResolverIInv

\* While the cascade is computed the script has not been run.
LEMMA CascadeStepKeeps ==
    ASSUME ResolverIInv, Next, UNCHANGED resolverVars PROVE ResolverIInv'
<1>1. pc # "done"
  BY DEF Next, Collect, StartSort, EmitReady, EmitCircle, Finish
<1>2. outcome = "none" /\ target = {} /\ chain = <<>> /\ calls = <<>>
  BY <1>1 DEF ResolverIInv, OutcomeInv
<1>3. /\ outcome' = "none" /\ target' = {} /\ chain' = <<>> /\ calls' = <<>>
  BY <1>2 DEF resolverVars
<1>4. IInv'
  BY NextIInv DEF ResolverIInv
<1>5. ResolverTypeOK'
  BY <1>3 DEF ResolverTypeOK
<1>6. ChainInv' /\ CallsInv' /\ OutcomeInv'
  BY <1>3 DEF ChainInv, CallsInv, OutcomeInv, Chained
<1>7. QED
  BY <1>4, <1>5, <1>6 DEF ResolverIInv

\* What the script does leaves the cascade alone.
LEMMA SameCascade == ASSUME IInv, UNCHANGED vars PROVE IInv'
BY NextIInv

\* The script is run.
LEMMA ResolveKeeps ==
    ASSUME ResolverIInv, NEW p \in Profiles, Resolve(p) PROVE ResolverIInv'
<1>1. /\ pc = "done" /\ outcome = "none" /\ target' = {p}
      /\ calls' = <<Call(p)>> /\ outcome' = "running" /\ chain' = chain
      /\ UNCHANGED vars /\ declared' = declared /\ pc' = "done"
  BY DEF Resolve, vars
<1>2. IInv' /\ TypeOK /\ TypeOK'
  BY <1>1, SameCascade DEF ResolverIInv, IInv
<1>3. chain = <<>>
  BY <1>1 DEF ResolverIInv, OutcomeInv
<1>4. /\ Call(p).name = p /\ Call(p).left = Parents(p)
      /\ Call(p) \in CallRecord
  BY <1>2, ReadParentsAreParents DEF Call, CallRecord
<1> DEFINE c == Call(p)
<1>5. c.name = p /\ c.left = Parents(p) /\ c \in CallRecord /\ calls' = <<c>>
  BY <1>1, <1>4
<1> HIDE DEF c
<1>6. /\ calls' \in Seq(CallRecord) /\ Len(calls') = 1 /\ calls' # <<>>
      /\ DOMAIN calls' = {1} /\ calls'[1] = c
  BY <1>5
<1>7. ResolverTypeOK'
  BY <1>1, <1>3, <1>6 DEF ResolverTypeOK, CallRecord
<1>8. Chained' = {}
  BY <1>1, <1>3 DEF Chained
<1>9. ChainInv'
  BY <1>1, <1>3, <1>8 DEF ChainInv
<1>10. p \in Ancestry'
  <2>1. p \in Names
    OBVIOUS
  <2>2. QED
    BY <1>1, <2>1 DEF Ancestry
<1>11. \A q : Parents(q)' = Parents(q)
  BY <1>1 DEF Parents
<1>12. CallsInv'
  BY <1>5, <1>6, <1>8, <1>10, <1>11 DEF CallsInv, Awaited
<1>13. OutcomeInv'
  BY <1>1, <1>5, <1>6 DEF OutcomeInv
<1>14. QED
  BY <1>2, <1>7, <1>9, <1>12, <1>13 DEF ResolverIInv

\* What is known of the script when it runs.
LEMMA Running ==
    ASSUME ResolverIInv, outcome = "running"
    PROVE  /\ TypeOK /\ ResolverTypeOK /\ pc = "done"
           /\ calls \in Seq(CallRecord) /\ calls # <<>> /\ Len(calls) \in Nat
           /\ Len(calls) > 0 /\ DOMAIN calls = 1..Len(calls)
           /\ Head(calls) = calls[1] /\ calls[1] \in CallRecord
           /\ target = {calls[Len(calls)].name}
           /\ Chained \subseteq Ancestry /\ target \subseteq Ancestry
           /\ \A i \in DOMAIN calls : /\ calls[i] \in CallRecord
                                      /\ calls[i].name \in Profiles
<1>1. calls \in Seq(CallRecord) /\ calls # <<>>
  BY DEF ResolverIInv, ResolverTypeOK, OutcomeInv, CallRecord
<1>2. \A i \in DOMAIN calls : calls[i] \in CallRecord
  BY <1>1
<1>3. \A i \in DOMAIN calls : calls[i].name \in Profiles
  BY <1>2 DEF CallRecord
<1>4. TypeOK /\ ResolverTypeOK
  BY DEF ResolverIInv, IInv
<1>5. target \subseteq Ancestry
  BY <1>4, AncestryIsUpward
<1>6. QED
  BY <1>1, <1>2, <1>3, <1>4, <1>5 DEF ResolverIInv, OutcomeInv, ChainInv

\* A step of a call changes neither the target nor what is above it.
LEMMA SameReference ==
    ASSUME ResolverIInv, UNCHANGED <<vars, target>>
    PROVE  /\ IInv' /\ pc' = pc /\ Ancestry' = Ancestry
           /\ \A p : Parents(p)' = Parents(p)
           /\ Resolvable' <=> Resolvable
<1>1. declared' = declared /\ target' = target /\ pc' = pc
  BY DEF vars
<1>2. QED
  BY <1>1, SameCascade, SameAncestry DEF ResolverIInv

\* The calls when the innermost one has parent q no longer to visit.
Without(q) == <<[Head(calls) EXCEPT !.left = @ \ {q}]>> \o Tail(calls)

\* A parent that was chained or is going to be visited is left no more.
LEMMA OneLessLeft ==
    ASSUME ResolverIInv, outcome = "running", NEW q \in Head(calls).left,
           NEW r, r = Without(q)
    PROVE  /\ r \in Seq(CallRecord) /\ Len(r) = Len(calls) /\ r # <<>>
           /\ r[1] \in CallRecord /\ r[1].name = calls[1].name
           /\ r[1].left = calls[1].left \ {q}
           /\ \A i \in 2..Len(calls) : r[i] = calls[i]
           /\ \A i \in 1..Len(calls) : r[i].name = calls[i].name
           /\ q \in Parents(calls[1].name) /\ q \in Ancestry
<1>1. /\ calls \in Seq(CallRecord) /\ calls # <<>> /\ Len(calls) \in Nat
      /\ Len(calls) > 0 /\ DOMAIN calls = 1..Len(calls)
      /\ Head(calls) = calls[1] /\ calls[1] \in CallRecord
      /\ TypeOK /\ ResolverTypeOK
  BY Running
<1> DEFINE x == [Head(calls) EXCEPT !.left = @ \ {q}]
<1>2. /\ x \in CallRecord /\ x.name = calls[1].name
      /\ x.left = calls[1].left \ {q}
  BY <1>1 DEF CallRecord
<1> HIDE DEF x
<1>3. r = <<x>> \o Tail(calls)
  BY DEF x, Without
<1>4. /\ r \in Seq(CallRecord) /\ Len(r) = Len(calls) /\ r # <<>>
      /\ r[1] = x /\ \A i \in 2..Len(calls) : r[i] = calls[i]
  <2>1. calls \in Seq(CallRecord) /\ calls # <<>> /\ x \in CallRecord
    BY <1>1, <1>2
  <2>2. QED
    BY <2>1, <1>3, HeadReplaced
<1>5. \A i \in 1..Len(calls) : i = 1 \/ i \in 2..Len(calls)
  BY <1>1
<1>6. \A i \in 1..Len(calls) : r[i].name = calls[i].name
  BY <1>2, <1>4, <1>5
<1>7. q \in Parents(calls[1].name) /\ calls[1].name \in Ancestry
  BY <1>1 DEF ResolverIInv, CallsInv
<1>8. calls[1].name \in Profiles
  BY <1>1 DEF CallRecord
<1>9. q \in Ancestry
  BY <1>1, <1>7, <1>8, AncestryIsUpward DEF Upward
<1>10. QED
  BY <1>2, <1>4, <1>6, <1>7, <1>9

\* A call finds a parent that is in the chain already.
LEMMA PassOver ==
    ASSUME ResolverIInv, outcome = "running", outcome' = outcome,
           UNCHANGED <<vars, target, chain>>,
           NEW q \in Head(calls).left, q \in Chained,
           calls' = Without(q)
    PROVE  ResolverIInv'
<1> DEFINE r == calls'
           n == Len(calls)
<1>1. /\ r \in Seq(CallRecord) /\ Len(r) = n /\ r # <<>>
      /\ r[1].left = calls[1].left \ {q}
      /\ \A i \in 2..n : r[i] = calls[i]
      /\ \A i \in 1..n : r[i].name = calls[i].name
  BY OneLessLeft
<1>2. /\ n \in Nat /\ n > 0 /\ DOMAIN calls = 1..n
      /\ target = {calls[n].name} /\ pc = "done" /\ ResolverTypeOK
  BY Running
<1>3. DOMAIN r = 1..n
  BY <1>1
<1>4. /\ IInv' /\ pc' = pc /\ Ancestry' = Ancestry /\ Chained' = Chained
      /\ \A p : Parents(p)' = Parents(p)
      /\ chain' = chain /\ target' = target
  BY SameReference DEF Chained
<1> HIDE DEF r, n
<1>5. ResolverTypeOK'
  BY <1>1, <1>2, <1>4 DEF ResolverTypeOK, CallRecord, r
<1>6. ChainInv'
  BY <1>4 DEF ResolverIInv, ChainInv
<1>7. ASSUME NEW i \in 1..n
      PROVE  /\ r[i].name \in Ancestry \ Chained
             /\ r[i].left \cup Awaited(i)' \subseteq Parents(r[i].name)
             /\ Parents(r[i].name) \subseteq Chained \cup r[i].left \cup Awaited(i)'
  <2>1. /\ calls[i].name \in Ancestry \ Chained
        /\ calls[i].left \cup Awaited(i) \subseteq Parents(calls[i].name)
        /\ Parents(calls[i].name)
               \subseteq Chained \cup calls[i].left \cup Awaited(i)
    BY <1>2 DEF ResolverIInv, CallsInv
  <2>2. Awaited(i)' = Awaited(i)
    <3>1. i # 1 => i - 1 \in 1..n
      BY <1>2
    <3>2. QED
      BY <1>1, <3>1 DEF Awaited, r
  <2>3. CASE i = 1
    BY <1>1, <2>1, <2>2, <2>3
  <2>4. CASE i # 1
    <3>1. i \in 2..n
      BY <1>2, <2>4
    <3>2. QED
      BY <1>1, <2>1, <2>2, <3>1
  <2>5. QED
    BY <2>3, <2>4
<1>8. \A i, j \in 1..n : i # j => r[i].name # r[j].name
  BY <1>1, <1>2 DEF ResolverIInv, CallsInv
<1>9. CallsInv'
  BY <1>3, <1>4, <1>7, <1>8 DEF CallsInv, r
<1>10. n \in 1..n /\ target' = {r[Len(r)].name}
  BY <1>1, <1>2, <1>4
<1>11. OutcomeInv'
  BY <1>1, <1>2, <1>4, <1>10 DEF ResolverIInv, OutcomeInv, r
<1>12. QED
  BY <1>4, <1>5, <1>6, <1>9, <1>11 DEF ResolverIInv

\* A call goes on to a parent nobody has seen.
LEMMA CallAnother ==
    ASSUME ResolverIInv, outcome = "running", outcome' = outcome,
           UNCHANGED <<vars, target, chain>>,
           NEW q \in Head(calls).left, q \in Profiles,
           q \notin Chained, q \notin Visiting,
           NEW r, r = Without(q),
           calls' = <<Call(q)>> \o r
    PROVE  ResolverIInv'
<1> DEFINE n == Len(calls)
           c == Call(q)
           s == calls'
<1>1. /\ r \in Seq(CallRecord) /\ Len(r) = n
      /\ r[1].left = calls[1].left \ {q}
      /\ \A i \in 2..n : r[i] = calls[i]
      /\ \A i \in 1..n : r[i].name = calls[i].name
      /\ q \in Parents(calls[1].name) /\ q \in Ancestry
  BY ONLY ResolverIInv, outcome = "running", q \in Head(calls).left,
          r = Without(q), OneLessLeft
<1>2. /\ n \in Nat /\ n > 0 /\ DOMAIN calls = 1..n
      /\ target = {calls[n].name} /\ pc = "done" /\ TypeOK /\ ResolverTypeOK
  BY Running
<1>3. c.name = q /\ c.left = Parents(q) /\ c \in CallRecord
  BY <1>2, ReadParentsAreParents DEF Call, CallRecord
<1>4. /\ IInv' /\ pc' = pc /\ Ancestry' = Ancestry /\ Chained' = Chained
      /\ \A p : Parents(p)' = Parents(p)
      /\ chain' = chain /\ target' = target
  BY SameReference DEF Chained
<1>5. s = <<c>> \o r
  OBVIOUS
<1> HIDE DEF n, c, s
<1>6. /\ s \in Seq(CallRecord) /\ Len(s) = n + 1 /\ s # <<>>
      /\ s[1] = c /\ \A i \in 1..n : s[i + 1] = r[i]
  BY ONLY <1>1, <1>3, <1>5, HeadPushed
<1>7. DOMAIN s = 1..(n + 1)
  BY <1>6
<1>8. ResolverTypeOK'
  BY <1>2, <1>4, <1>6 DEF ResolverTypeOK, CallRecord, s
<1>9. ChainInv'
  BY <1>4 DEF ResolverIInv, ChainInv
<1>10. \A i \in 1..(n + 1) : i = 1 \/ (i - 1 \in 1..n /\ s[i] = r[i - 1])
  <2> SUFFICES ASSUME NEW i \in 1..(n + 1), i # 1
               PROVE  i - 1 \in 1..n /\ s[i] = r[i - 1]
    OBVIOUS
  <2>1. i - 1 \in 1..n /\ (i - 1) + 1 = i
    BY <1>2
  <2>2. QED
    BY <1>6, <2>1
<1>11. ASSUME NEW i \in 1..(n + 1)
       PROVE  /\ s[i].name \in Ancestry \ Chained
              /\ s[i].left \cup Awaited(i)' \subseteq Parents(s[i].name)
              /\ Parents(s[i].name) \subseteq Chained \cup s[i].left \cup Awaited(i)'
  <2>1. CASE i = 1
    BY <1>1, <1>3, <1>6, <2>1 DEF Awaited
  <2>2. CASE i # 1
    <3> DEFINE k == i - 1
    <3>1. k \in 1..n /\ s[i] = r[k]
      BY <1>10, <2>2
    <3>2. Awaited(i)' = {s[k].name}
      BY <2>2 DEF Awaited, s
    <3>3. i = k + 1
      BY <1>2
    <3> HIDE DEF k
    <3>4. /\ calls[k].name \in Ancestry \ Chained
          /\ calls[k].left \cup Awaited(k) \subseteq Parents(calls[k].name)
          /\ Parents(calls[k].name)
                 \subseteq Chained \cup calls[k].left \cup Awaited(k)
      BY <1>2, <3>1 DEF ResolverIInv, CallsInv
    <3>5. CASE k = 1
      <4>1. Awaited(k) = {} /\ s[k].name = q
        BY <1>3, <1>6, <3>5 DEF Awaited
      <4>2. s[i].name = calls[1].name /\ s[i].left = calls[1].left \ {q}
        BY <1>1, <3>1, <3>5
      <4>3. QED
        BY <1>1, <3>2, <3>4, <3>5, <4>1, <4>2
    <3>6. CASE k # 1
      <4>1. k \in 2..n /\ k \in 1..(n + 1) /\ k - 1 \in 1..n
        BY <1>2, <3>1, <3>6
      <4>2. s[k].name = calls[k - 1].name
        BY <1>1, <1>10, <3>6, <4>1
      <4>3. Awaited(k) = {s[k].name}
        BY <3>6, <4>2 DEF Awaited
      <4>4. s[i] = calls[k]
        BY <1>1, <3>1, <4>1
      <4>5. QED
        BY <3>2, <3>4, <4>3, <4>4
    <3>7. QED
      BY <3>5, <3>6
  <2>3. QED
    BY <2>1, <2>2
<1>12. ASSUME NEW i \in 1..(n + 1), NEW j \in 1..(n + 1), i # j
       PROVE  s[i].name # s[j].name
  <2>1. \A k \in 1..n : calls[k].name # q
    BY <1>2 DEF Visiting
  <2>2. \A k, l \in 1..n : k # l => calls[k].name # calls[l].name
    BY <1>2 DEF ResolverIInv, CallsInv
  <2>3. \A k \in 1..(n + 1) : k # 1 => /\ k - 1 \in 1..n
                                      /\ s[k].name = calls[k - 1].name
    BY <1>1, <1>10
  <2>4. s[1].name = q
    BY <1>3, <1>6
  <2>5. CASE i = 1 \/ j = 1
    BY <1>12, <2>1, <2>3, <2>4, <2>5
  <2>6. CASE i # 1 /\ j # 1
    <3>1. i - 1 # j - 1
      BY <1>2, <1>12
    <3>2. QED
      BY <2>2, <2>3, <2>6, <3>1
  <2>7. QED
    BY <2>5, <2>6
<1>13. CallsInv'
  <2>1. /\ \A i \in DOMAIN s :
               /\ s[i].name \in Ancestry \ Chained
               /\ s[i].left \cup Awaited(i)' \subseteq Parents(s[i].name)
               /\ Parents(s[i].name)
                      \subseteq Chained \cup s[i].left \cup Awaited(i)'
        /\ \A i, j \in DOMAIN s : i # j => s[i].name # s[j].name
    BY <1>7, <1>11, <1>12
  <2>2. QED
    BY <1>4, <2>1 DEF CallsInv, s
<1>14. s[Len(s)].name = calls[n].name
  <2>1. n \in 1..n
    BY <1>2
  <2>2. s[n + 1] = r[n] /\ r[n].name = calls[n].name
    BY <1>1, <1>6, <2>1
  <2>3. QED
    BY <1>6, <2>2
<1>15. OutcomeInv'
  BY <1>2, <1>4, <1>6, <1>14 DEF ResolverIInv, OutcomeInv, s
<1>16. QED
  BY <1>4, <1>8, <1>9, <1>13, <1>15 DEF ResolverIInv

\* A parent that waits for the call itself closes a circle, and one that is
\* no profile is missing, above the target.
LEMMA OnlyBrokenFails ==
    ASSUME ResolverIInv, outcome = "running", NEW q \in Head(calls).left,
           q \in Visiting \/ q \notin Profiles
    PROVE  ~Resolvable
<1> DEFINE r == Without(q)
<1>1. q \in Parents(calls[1].name) /\ q \in Ancestry
  BY OneLessLeft
<1>2. Len(calls) \in Nat /\ DOMAIN calls = 1..Len(calls)
  BY Running
<1>3. CASE q \notin Profiles
  BY <1>1, <1>3 DEF Resolvable
<1>4. CASE q \in Visiting
  <2>1. PICK k \in DOMAIN calls : calls[k].name = q
    BY <1>4 DEF Visiting
  <2> DEFINE T == {calls[i].name : i \in 1..k}
  <2>2. k \in Nat /\ k > 0 /\ 1..k \subseteq DOMAIN calls
    BY <1>2, <2>1
  <2>3. T \in SUBSET Ancestry /\ q \in T
    <3>1. \A i \in DOMAIN calls : calls[i].name \in Ancestry
      BY DEF ResolverIInv, CallsInv
    <3>2. k \in 1..k
      BY <2>2
    <3>3. QED
      BY <2>1, <2>2, <3>1, <3>2
  <2>4. ASSUME NEW i \in 1..k PROVE Parents(calls[i].name) \cap T # {}
    <3>1. CASE i = 1
      BY <1>1, <2>3, <3>1
    <3>2. CASE i # 1
      <4>1. i - 1 \in 1..k /\ i \in DOMAIN calls
        BY <2>2, <3>2
      <4>2. calls[i - 1].name \in T
        BY <4>1
      <4>3. Awaited(i) \subseteq Parents(calls[i].name)
        BY <4>1 DEF ResolverIInv, CallsInv
      <4>4. QED
        BY <3>2, <4>2, <4>3 DEF Awaited
    <3>3. QED
      BY <3>1, <3>2
  <2>5. \A n \in T : Parents(n) \cap T # {}
    BY <2>4
  <2> HIDE DEF T
  <2>6. ~Acyclic(Ancestry)
    BY <2>3, <2>5 DEF Acyclic
  <2>7. QED
    BY <2>6 DEF Resolvable
<1>5. QED
  BY <1>3, <1>4

\* An iteration of the loop over the parents.
LEMMA VisitKeeps ==
    ASSUME ResolverIInv, NEW q, Visit(q) PROVE ResolverIInv'
<1>1. /\ outcome = "running" /\ q \in Head(calls).left
      /\ UNCHANGED <<vars, target, chain>>
  BY DEF Visit
<1>2. CASE q \in Chained
  <2>1. calls' = Without(q) /\ outcome' = outcome
    BY <1>2 DEF Visit, Seen, Without
  <2>2. QED
    BY <1>1, <1>2, <2>1, PassOver
<1>3. CASE q \notin Chained /\ (q \in Visiting \/ q \notin Profiles)
  <2>1. calls' = <<>> /\ outcome' = "failed"
    BY <1>3 DEF Visit, Seen
  <2>2. ~Resolvable
    BY <1>1, <1>3, OnlyBrokenFails
  <2>3. /\ IInv' /\ pc' = pc /\ Ancestry' = Ancestry /\ Chained' = Chained
        /\ \A p : Parents(p)' = Parents(p)
        /\ chain' = chain /\ target' = target /\ ~Resolvable'
    BY <1>1, <2>2, SameReference DEF Chained
  <2>4. ResolverTypeOK'
    BY <2>1, <2>3 DEF ResolverIInv, ResolverTypeOK
  <2>5. ChainInv'
    BY <2>3 DEF ResolverIInv, ChainInv
  <2>6. CallsInv'
    BY <2>1 DEF CallsInv
  <2>7. OutcomeInv'
    BY <1>1, <2>1, <2>3 DEF ResolverIInv, OutcomeInv
  <2>8. QED
    BY <2>3, <2>4, <2>5, <2>6, <2>7 DEF ResolverIInv
<1>4. CASE q \notin Chained /\ q \notin Visiting /\ q \in Profiles
  <2>1. calls' = <<Call(q)>> \o Without(q) /\ outcome' = outcome
    BY <1>4 DEF Visit, Seen, Without
  <2>2. QED
    BY <1>1, <1>4, <2>1, CallAnother
<1>5. QED
  BY <1>2, <1>3, <1>4

\* A profile goes to the end of the chain.
LEMMA Appended ==
    ASSUME NEW T, NEW s \in Seq(T), NEW x \in T, NEW r, r = Append(s, x)
    PROVE  /\ r \in Seq(T) /\ Len(s) \in Nat /\ Len(r) = Len(s) + 1
           /\ DOMAIN s = 1..Len(s) /\ DOMAIN r = 1..(Len(s) + 1)
           /\ r[Len(s) + 1] = x /\ \A i \in 1..Len(s) : r[i] = s[i]
OBVIOUS

\* A profile all of whose parents are in the chain may follow.
LEMMA ChainGrows ==
    ASSUME ResolverIInv, NEW x \in Profiles, x \in Ancestry, x \notin Chained,
           Parents(x) \subseteq Chained, chain' = Append(chain, x),
           Ancestry' = Ancestry, \A p : Parents(p)' = Parents(p)
    PROVE  ChainInv' /\ chain' \in Seq(Profiles) /\ Chained' = Chained \cup {x}
<1> DEFINE n == Len(chain)
           s == chain'
<1>1. chain \in Seq(Profiles)
  BY DEF ResolverIInv, ResolverTypeOK
<1>2. /\ s \in Seq(Profiles) /\ n \in Nat
      /\ DOMAIN chain = 1..n /\ DOMAIN s = 1..(n + 1)
      /\ s[n + 1] = x /\ \A i \in 1..n : s[i] = chain[i]
  BY <1>1, Appended
<1>3. /\ \A i, j \in 1..n : i # j => chain[i] # chain[j]
      /\ \A j \in 1..n : Parents(chain[j]) \subseteq {chain[i] : i \in 1..(j - 1)}
      /\ Chained \subseteq Ancestry
  BY <1>2 DEF ResolverIInv, ChainInv
<1>4. Chained = {chain[i] : i \in 1..n}
  BY <1>2 DEF Chained
<1> HIDE DEF n, s
<1>5. \A i \in 1..(n + 1) : i \in 1..n \/ i = n + 1
  BY <1>2
<1>6. 1..n \subseteq 1..(n + 1) /\ n + 1 \in 1..(n + 1) /\ n + 1 \notin 1..n
  BY <1>2
<1>7. {s[i] : i \in 1..n} = Chained
  BY <1>2, <1>4
<1>8. {s[i] : i \in DOMAIN s} = Chained \cup {x}
  BY <1>2, <1>5, <1>6, <1>7
<1>9. \A i, j \in DOMAIN s : i # j => s[i] # s[j]
  <2>1. \A i \in 1..n : s[i] = chain[i] /\ s[i] # x
    BY <1>2, <1>4
  <2>2. QED
    BY <1>2, <1>3, <1>5, <2>1
<1>10. ASSUME NEW j \in DOMAIN s
       PROVE  Parents(s[j]) \subseteq {s[i] : i \in 1..(j - 1)}
  <2>1. CASE j = n + 1
    <3>1. j - 1 = n
      BY <1>2, <2>1
    <3>2. QED
      BY <1>2, <1>7, <2>1, <3>1
  <2>2. CASE j \in 1..n
    <3>1. 1..(j - 1) \subseteq 1..n
      BY <1>2, <2>2
    <3>2. \A i \in 1..(j - 1) : s[i] = chain[i]
      BY <1>2, <3>1
    <3>3. {s[i] : i \in 1..(j - 1)} = {chain[i] : i \in 1..(j - 1)}
      BY <3>2
    <3>4. QED
      BY <1>2, <1>3, <2>2, <3>3
  <2>3. QED
    BY <1>2, <1>5, <2>1, <2>2
<1>11. Chained' = Chained \cup {x}
  BY <1>8 DEF Chained, s
<1>12. Chained' \subseteq Ancestry'
  BY <1>3, <1>11
<1>13. ChainInv'
  BY <1>9, <1>10, <1>12 DEF ChainInv, s
<1>14. QED
  BY <1>2, <1>11, <1>13 DEF s

\* A call of visit returns.
LEMMA ReturnKeeps == ASSUME ResolverIInv, Return PROVE ResolverIInv'
<1> DEFINE n == Len(calls)
           x == calls[1].name
           s == calls'
<1>1. /\ outcome = "running" /\ UNCHANGED <<vars, target>>
      /\ Head(calls).left = {} /\ chain' = Append(chain, Head(calls).name)
      /\ calls' = Tail(calls)
      /\ outcome' = IF Tail(calls) = <<>> THEN "resolved" ELSE "running"
  BY DEF Return
<1>2. /\ n \in Nat /\ n > 0 /\ DOMAIN calls = 1..n /\ Head(calls) = calls[1]
      /\ calls \in Seq(CallRecord) /\ calls # <<>>
      /\ target = {calls[n].name} /\ pc = "done" /\ ResolverTypeOK
      /\ \A i \in 1..n : calls[i].name \in Profiles
  BY <1>1, Running
<1>3. /\ IInv' /\ pc' = pc /\ Ancestry' = Ancestry /\ target' = target
      /\ \A p : Parents(p)' = Parents(p)
  BY <1>1, SameReference
<1>4. /\ \A i, j \in 1..n : i # j => calls[i].name # calls[j].name
      /\ \A i \in 1..n :
             /\ calls[i].name \in Ancestry \ Chained
             /\ calls[i].left \cup Awaited(i) \subseteq Parents(calls[i].name)
             /\ Parents(calls[i].name)
                    \subseteq Chained \cup calls[i].left \cup Awaited(i)
  BY <1>2 DEF ResolverIInv, CallsInv
<1>5. 1 \in 1..n /\ n \in 1..n
  BY <1>2
<1>6. x \in Profiles /\ x \in Ancestry /\ x \notin Chained /\ Parents(x) \subseteq Chained
  <2>1. calls[1].left = {} /\ Awaited(1) = {}
    BY <1>1, <1>2 DEF Awaited
  <2>2. QED
    BY <1>2, <1>4, <1>5, <2>1
<1>7. chain' = Append(chain, x)
  BY <1>1, <1>2
<1>8. s \in Seq(CallRecord) /\ Len(s) = n - 1 /\ \A i \in 1..(n - 1) : s[i] = calls[i + 1]
  BY <1>1, <1>2, HeadPopped
<1> HIDE DEF n, x, s
<1>9. ChainInv' /\ chain' \in Seq(Profiles) /\ Chained' = Chained \cup {x}
  BY <1>3, <1>6, <1>7, ChainGrows
<1>10. DOMAIN s = 1..(n - 1)
  BY <1>2, <1>8
<1>11. ResolverTypeOK'
  BY <1>1, <1>2, <1>3, <1>8, <1>9 DEF ResolverTypeOK, CallRecord, s
<1>12. \A i \in 1..(n - 1) : i + 1 \in 1..n /\ i + 1 # 1 /\ i \in Nat
  BY <1>2
<1>13. ASSUME NEW i \in 1..(n - 1)
       PROVE  /\ s[i].name \in Ancestry \ Chained'
              /\ s[i].left \cup Awaited(i)' \subseteq Parents(s[i].name)
              /\ Parents(s[i].name)
                     \subseteq Chained' \cup s[i].left \cup Awaited(i)'
  <2> DEFINE k == i + 1
  <2>1. k \in 1..n /\ k # 1 /\ s[i] = calls[k] /\ i \in Nat
    BY <1>8, <1>12
  <2>2. Awaited(k) = {calls[i].name}
    <3>1. k - 1 = i
      BY <2>1
    <3>2. QED
      BY <2>1, <3>1 DEF Awaited
  <2> HIDE DEF k
  <2>3. /\ calls[k].name \in Ancestry \ Chained
        /\ calls[k].left \cup Awaited(k) \subseteq Parents(calls[k].name)
        /\ Parents(calls[k].name)
               \subseteq Chained \cup calls[k].left \cup Awaited(k)
    BY <1>4, <2>1
  <2>4. calls[k].name # x
    BY <1>4, <1>5, <2>1 DEF x
  <2>5. CASE i = 1
    <3>1. Awaited(k) = {x} /\ Awaited(i)' = {}
      BY <2>2, <2>5 DEF Awaited, x
    <3>2. QED
      BY <1>9, <2>1, <2>3, <2>4, <3>1
  <2>6. CASE i # 1
    <3>1. s[i - 1] = calls[i]
      <4>1. i - 1 \in 1..(n - 1) /\ (i - 1) + 1 = i
        BY <1>2, <2>6
      <4>2. QED
        BY <1>8, <4>1
    <3>2. Awaited(i)' = Awaited(k)
      BY <2>2, <2>6, <3>1 DEF Awaited, s
    <3>3. QED
      BY <1>9, <2>1, <2>3, <2>4, <3>2
  <2>7. QED
    BY <2>5, <2>6
<1>14. ASSUME NEW i \in 1..(n - 1), NEW j \in 1..(n - 1), i # j
       PROVE  s[i].name # s[j].name
  <2>1. i + 1 # j + 1
    BY <1>12, <1>14
  <2>2. s[i] = calls[i + 1] /\ s[j] = calls[j + 1]
    BY <1>8
  <2>3. QED
    BY <1>4, <1>12, <2>1, <2>2
<1>15. CallsInv'
  <2>1. /\ \A i \in DOMAIN s :
               /\ s[i].name \in Ancestry \ Chained'
               /\ s[i].left \cup Awaited(i)' \subseteq Parents(s[i].name)
               /\ Parents(s[i].name)
                      \subseteq Chained' \cup s[i].left \cup Awaited(i)'
        /\ \A i, j \in DOMAIN s : i # j => s[i].name # s[j].name
    BY <1>10, <1>13, <1>14
  <2>2. QED
    BY <1>3, <2>1 DEF CallsInv, s
<1>16. OutcomeInv'
  <2>1. s = Tail(calls)
    BY <1>1 DEF s
  <2>2. CASE s = <<>>
    <3>1. n = 1
      BY <1>2, <1>8, <2>2
    <3>2. target = {x}
      BY <1>2, <3>1 DEF x
    <3>3. outcome' = "resolved" /\ target' \subseteq Chained'
      BY <1>1, <1>3, <1>9, <2>1, <2>2, <3>2
    <3>4. QED
      BY <1>2, <1>3, <2>2, <3>2, <3>3, <1>6 DEF OutcomeInv, s
  <2>3. CASE s # <<>>
    <3>1. n - 1 \in 1..(n - 1) /\ (n - 1) + 1 = n
      BY <1>2, <1>8, <2>3
    <3>2. s[Len(s)] = calls[n]
      BY <1>8, <3>1
    <3>3. outcome' = "running" /\ target' = {s[Len(s)].name}
      BY <1>1, <1>2, <1>3, <2>1, <2>3, <3>2
    <3>4. \E p \in Profiles : target' = {p}
      BY <1>2, <1>3, <1>5
    <3>5. QED
      BY <1>2, <1>3, <2>3, <3>3, <3>4 DEF OutcomeInv, s
  <2>4. QED
    BY <2>2, <2>3
<1>17. QED
  BY <1>3, <1>9, <1>11, <1>15, <1>16 DEF ResolverIInv

\* Every step keeps the invariant.
LEMMA NextResolverIInv == ResolverIInv /\ [ResolverNext]_allVars => ResolverIInv'
<1> SUFFICES ASSUME ResolverIInv, [ResolverNext]_allVars PROVE ResolverIInv'
  OBVIOUS
<1>1. CASE UNCHANGED allVars
  <2>1. /\ UNCHANGED vars /\ target' = target /\ chain' = chain
        /\ calls' = calls /\ outcome' = outcome
    BY <1>1 DEF allVars, resolverVars
  <2>2. /\ IInv' /\ pc' = pc /\ Ancestry' = Ancestry /\ Chained' = Chained
        /\ \A p : Parents(p)' = Parents(p)
        /\ Resolvable' <=> Resolvable
        /\ \A i : Awaited(i)' = Awaited(i)
    BY <2>1, SameReference DEF Chained, Awaited
  <2>3. ResolverTypeOK'
    BY <2>1 DEF ResolverIInv, ResolverTypeOK
  <2>4. ChainInv'
    BY <2>1, <2>2 DEF ResolverIInv, ChainInv
  <2>5. CallsInv'
    BY <2>1, <2>2 DEF ResolverIInv, CallsInv
  <2>6. OutcomeInv'
    BY <2>1, <2>2 DEF ResolverIInv, OutcomeInv
  <2>7. QED
    BY <2>2, <2>3, <2>4, <2>5, <2>6 DEF ResolverIInv
<1>2. QED
  BY <1>1, CascadeStepKeeps, ResolveKeeps, VisitKeeps, ReturnKeeps
     DEF ResolverNext

-----------------------------------------------------------------------------
(* The theorems.                                                           *)

\* The invariant of both programs, for any profiles and any parent files.
THEOREM ResolverInvariance == ResolverSpec => []ResolverIInv
BY InitResolverIInv, NextResolverIInv, PTL DEF ResolverSpec

\* What is in the chain when the script is done.
LEMMA ResolvedChain ==
    ASSUME ResolverIInv, outcome = "resolved"
    PROVE  Chained = Ancestry
<1>1. TypeOK /\ ResolverTypeOK /\ ChainInv /\ target \subseteq Chained
  BY DEF ResolverIInv, IInv, OutcomeInv
<1>2. Chained \in SUBSET Profiles /\ Chained \subseteq Ancestry
  BY <1>1 DEF ResolverTypeOK, ChainInv, Chained
<1>3. ASSUME NEW j \in DOMAIN chain PROVE Parents(chain[j]) \subseteq Chained
  <2>1. Parents(chain[j]) \subseteq {chain[i] : i \in 1..(j - 1)}
    BY <1>1 DEF ChainInv
  <2>2. 1..(j - 1) \subseteq DOMAIN chain
    BY <1>1 DEF ResolverTypeOK
  <2>3. QED
    BY <2>1, <2>2 DEF Chained
<1>4. Upward(Chained)
  BY <1>3 DEF Upward, Chained
<1>5. Chained \in SUBSET Names
  BY <1>2
<1>6. QED
  BY <1>1, <1>2, <1>4, <1>5, AncestryIsLeast

\* The chain has everything the target inherits from exactly once, parents
\* before children.
THEOREM ChainComplete == ResolverSpec => []ChainIsAncestry
<1>1. ASSUME ResolverIInv, outcome = "resolved",
             NEW i \in DOMAIN chain, NEW j \in DOMAIN chain,
             chain[i] = chain[j] \/ chain[i] \in Parents(chain[j])
      PROVE  i <= j
  <2>1. chain \in Seq(Profiles) /\ ChainInv
    BY <1>1 DEF ResolverIInv, ResolverTypeOK
  <2>2. DOMAIN chain = 1..Len(chain) /\ Len(chain) \in Nat
    BY <2>1
  <2>3. CASE chain[i] = chain[j]
    <3>1. i = j
      BY <2>1, <2>3 DEF ChainInv
    <3>2. QED
      BY <2>2, <3>1
  <2>4. CASE chain[i] \in Parents(chain[j])
    <3>1. PICK k \in 1..(j - 1) : chain[k] = chain[i]
      BY <2>1, <2>4 DEF ChainInv
    <3>2. k \in DOMAIN chain
      BY <2>2
    <3>3. k = i
      BY <2>1, <3>1, <3>2 DEF ChainInv
    <3>4. QED
      BY <2>2, <3>3
  <2>5. QED
    BY <1>1, <2>3, <2>4
<1>2. ResolverIInv => ChainIsAncestry
  BY <1>1, ResolvedChain DEF ChainIsAncestry
<1>3. QED
  BY <1>2, ResolverInvariance, PTL

\* A part of the chain has a first member.
LEMMA FirstInChain ==
    ASSUME chain \in Seq(Profiles), NEW T \in SUBSET Chained, T # {}
    PROVE  \E i \in DOMAIN chain :
               chain[i] \in T /\ \A k \in 1..(i - 1) : chain[k] \notin T
<1> DEFINE places == {i \in DOMAIN chain : chain[i] \in T}
<1>1. DOMAIN chain = 1..Len(chain) /\ Len(chain) \in Nat
  OBVIOUS
<1>2. places \in SUBSET Nat /\ places # {}
  BY <1>1 DEF Chained
<1>3. PICK i \in places : \A k \in places : ~(<<k, i>> \in OpToRel(<, Nat))
  BY <1>2, NatLessThanWellFounded, WFMin
<1>4. \A k \in 1..(i - 1) : chain[k] \notin T
  <2> SUFFICES ASSUME NEW k \in 1..(i - 1), chain[k] \in T PROVE FALSE
    OBVIOUS
  <2>1. k \in places /\ k < i /\ k \in Nat /\ i \in Nat
    BY <1>1
  <2>2. QED
    BY <1>3, <2>1 DEF OpToRel
<1>5. QED
  BY <1>4

\* The script fails on circles and missing parents above the target, and on
\* nothing else.
THEOREM FailsOnlyIfBroken == ResolverSpec => []FailsExactlyIfBroken
<1>1. ASSUME ResolverIInv, outcome = "resolved" PROVE Resolvable
  <2>1. chain \in Seq(Profiles) /\ ChainInv /\ Chained = Ancestry
    BY <1>1, ResolvedChain DEF ResolverIInv, ResolverTypeOK
  <2>2. Ancestry \subseteq Profiles
    BY <2>1 DEF Chained
  <2>3. ASSUME NEW T \in SUBSET Ancestry, T # {}
        PROVE  \E n \in T : Parents(n) \cap T = {}
    <3>1. PICK i \in DOMAIN chain :
              chain[i] \in T /\ \A k \in 1..(i - 1) : chain[k] \notin T
      BY <2>1, <2>3, FirstInChain
    <3>2. Parents(chain[i]) \subseteq {chain[k] : k \in 1..(i - 1)}
      BY <2>1 DEF ChainInv
    <3>3. QED
      BY <3>1, <3>2
  <2>4. QED
    BY <2>2, <2>3 DEF Resolvable, Acyclic
<1>2. ResolverIInv => FailsExactlyIfBroken
  BY <1>1 DEF ResolverIInv, OutcomeInv, FailsExactlyIfBroken
<1>3. QED
  BY <1>2, ResolverInvariance, PTL

\* The two programs agree: the profiles that are rebuilt are those whose
\* images embed the root's contribution.
THEOREM CascadeAgreesWithChains == ResolverSpec => []CascadeCoversChains
<1>1. ASSUME ResolverIInv, outcome = "resolved"
      PROVE  root \in Chained <=> target \subseteq inSet
  <2>1. /\ Chained = Ancestry /\ TypeOK /\ ResolverTypeOK /\ WorklistInv
        /\ pc = "done" /\ stack = {}
    BY <1>1, ResolvedChain DEF ResolverIInv, IInv, OutcomeInv, WorklistInv
  <2>2. PICK p \in Profiles : target = {p}
    BY <1>1 DEF ResolverIInv, OutcomeInv
  <2>3. root \in Ancestry <=> p \in Downstream
    BY <2>1, <2>2, UpIsDown
  <2>4. inSet = Downstream
    BY <2>1, EmptyWorklist
  <2>5. QED
    BY <2>1, <2>2, <2>3, <2>4
<1>2. ResolverIInv => CascadeCoversChains
  BY <1>1 DEF CascadeCoversChains
<1>3. QED
  BY <1>2, ResolverInvariance, PTL

=============================================================================
