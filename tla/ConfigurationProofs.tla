------------------------- MODULE ConfigurationProofs -------------------------
(***************************************************************************)
(* Theorems about policies, builders and hook chains, for any number of    *)
(* builders, any values of the slots and any number of calls.              *)
(***************************************************************************)
EXTENDS Configuration, SequenceTheorems, TLAPS

-----------------------------------------------------------------------------
(* The walk of a chain. *)

Hooks(ids) == [i \in 1..Len(ids) |-> Hook(ids[i])]

\* c[k] is the chain the first k registrations made.
Links(c, ids) ==
  /\ c[0] = NoHook
  /\ \A k \in 1..Len(ids) : c[k] = HookChain(c[k - 1], Hook(ids[k]))

Linked(hook, ids) == \E c : Links(c, ids) /\ hook = c[Len(ids)]

\* The walk goes down to the first link, then calls the hooks one by one.
Descending(left, done, ids) ==
  /\ done = <<>>
  /\ \E c : /\ Links(c, ids)
            /\ \E m \in 0..Len(ids) :
                 left = <<c[m]>> \o SubSeq(Hooks(ids), m + 1, Len(ids))

Calling(left, done, ids) ==
  \E k \in 0..(Len(ids) - 1) : /\ left = SubSeq(Hooks(ids), k + 1, Len(ids))
                               /\ done = SubSeq(ids, 1, k)

\* One turn of the walk: what is left, and what has been called.
LeftAfter(left) == Unfolded(Head(left)) \o Tail(left)
DoneAfter(left, done) ==
  IF Head(left).kind = "hook" THEN Append(done, Head(left).id) ELSE done

\* The hooks of a sequence of ids are a sequence as long.
LEMMA HooksSequence ==
  ASSUME NEW V, NEW ids \in Seq(V)
  PROVE  /\ Hooks(ids) \in Seq({Hook(v) : v \in V})
         /\ Len(Hooks(ids)) = Len(ids) /\ Len(ids) \in Nat
         /\ \A i \in 1..Len(ids) : Hooks(ids)[i] = Hook(ids[i])
BY DEF Hooks

\* What comes before a sequence is its head, and the sequence its tail.
LEMMA HeadFirst ==
  ASSUME NEW S, NEW x \in S, NEW s \in Seq(S)
  PROVE  Head(<<x>> \o s) = x /\ Tail(<<x>> \o s) = s /\ <<x>> \o s # <<>>
<1>1. <<x>> \in Seq(S) /\ Len(<<x>>) = 1 /\ <<x>>[1] = x
  OBVIOUS
<1> DEFINE t == <<x>> \o s
<1>2. /\ t \in Seq(S) /\ Len(t) = 1 + Len(s)
      /\ \A i \in 1..(1 + Len(s)) : t[i] = IF i <= 1 THEN <<x>>[i] ELSE s[i - 1]
  BY <1>1, ConcatProperties
<1>3. Len(s) \in Nat
  BY LenProperties
<1> HIDE DEF t
<1>4. t # <<>> /\ Head(t) = t[1]
  BY <1>2, <1>3
<1>5. Head(t) = x
  BY <1>1, <1>2, <1>3, <1>4
<1>6. /\ Tail(t) \in Seq(S) /\ Len(Tail(t)) = Len(s)
      /\ \A i \in 1..Len(Tail(t)) : Tail(t)[i] = t[i + 1]
  BY <1>2, <1>3, <1>4, HeadTailProperties
<1>7. \A i \in 1..Len(s) : Tail(t)[i] = s[i]
  BY <1>2, <1>3, <1>6
<1>8. Tail(t) = s
  BY <1>6, <1>7, SeqEqual
<1> QED BY <1>4, <1>5, <1>8 DEF t

\* A turn of the walk goes one link down, or from the first link to the first hook,
\* or calls the next hook.
LEMMA DescendingStep ==
  ASSUME NEW V, NEW ids \in Seq(V), NEW left, NEW done, Descending(left, done, ids)
  PROVE  /\ left # <<>>
         /\ DoneAfter(left, done) = <<>>
         /\ \/ Descending(LeftAfter(left), <<>>, ids) /\ LeftAfter(left) # <<>>
            \/ Calling(LeftAfter(left), <<>>, ids) /\ LeftAfter(left) # <<>>
            \/ ids = <<>> /\ LeftAfter(left) = <<>>
<1> DEFINE n == Len(ids)
           H == Hooks(ids)
<1>1. /\ H \in Seq({Hook(v) : v \in V}) /\ Len(H) = n /\ n \in Nat
      /\ \A i \in 1..n : H[i] = Hook(ids[i])
  BY HooksSequence
<1>2. PICK c : Links(c, ids) /\ \E m \in 0..n : left = <<c[m]>> \o SubSeq(H, m + 1, n)
  BY DEF Descending
<1>3. PICK m \in 0..n : left = <<c[m]>> \o SubSeq(H, m + 1, n)
  BY <1>2
<1> DEFINE S == {Hook(v) : v \in V} \cup {c[j] : j \in 0..n}
           rest == SubSeq(H, m + 1, n)
<1>4. \A i \in 1..n : H[i] \in S
  BY <1>1, ElementOfSeq
<1>5. rest \in Seq(S) /\ c[m] \in S /\ \A j \in 0..n : c[j] \in S
  <2>1. \A i \in (m + 1)..n : H[i] \in S
    BY <1>4, <1>3, <1>1
  <2>2. m + 1 \in Int /\ n \in Int
    BY <1>1
  <2> HIDE DEF S
  <2>3. rest \in Seq(S)
    BY <2>1, <2>2, SubSeqProperties
  <2> QED BY <2>3 DEF S
<1>6. H \in Seq(S)
  BY <1>1, SeqMonotonic
<1> HIDE DEF S, H, n
<1>7. Head(left) = c[m] /\ Tail(left) = rest /\ left # <<>>
  BY <1>3, <1>5, HeadFirst
<1> HIDE DEF rest
<1>8. done = <<>>
  BY DEF Descending
<1>9. CASE m = 0
  <2>1. c[m] = NoHook
    BY <1>2, <1>9 DEF Links
  <2>2. Unfolded(c[m]) = <<>> /\ c[m].kind # "hook"
    BY <2>1 DEF Unfolded, NoHook
  <2>3. LeftAfter(left) = rest
    BY <1>5, <1>7, <2>2, ConcatEmptySeq DEF LeftAfter
  <2>4. DoneAfter(left, done) = <<>>
    BY <1>7, <1>8, <2>2 DEF DoneAfter
  <2>5. CASE n = 0
    <3>1. rest = <<>>
      BY <1>9, <2>5, SubSeqEmpty, 0 + 1 \in Int, 0 \in Int DEF rest
    <3>2. ids = <<>>
      BY <2>5, EmptySeq DEF n
    <3> QED BY <1>7, <2>3, <2>4, <3>1, <3>2
  <2>6. CASE n # 0
    <3>1. SubSeq(ids, 1, 0) = <<>>
      BY SubSeqEmpty, 1 \in Int, 0 \in Int
    <3>2. 0 \in 0..(n - 1) /\ rest = SubSeq(H, 0 + 1, n)
      BY <1>1, <1>9, <2>6 DEF rest
    <3>3. Calling(rest, <<>>, ids)
      BY <3>1, <3>2 DEF Calling, H, n
    <3>4. Len(rest) = n
      BY <3>2, <1>1, <1>6, SubSeqFull
    <3>5. rest # <<>>
      BY <3>4, <2>6, EmptySeq
    <3> QED BY <1>7, <2>3, <2>4, <3>3, <3>5
  <2> QED BY <2>5, <2>6
<1>10. CASE m # 0
  <2>1. m \in 1..n /\ m - 1 \in 0..n
    BY <1>1, <1>10
  <2>2. c[m] = HookChain(c[m - 1], H[m])
    BY <1>1, <1>2, <2>1 DEF Links, n
  <2>3. Unfolded(c[m]) = <<c[m - 1], H[m]>> /\ c[m].kind # "hook"
    BY <2>2 DEF Unfolded, HookChain
  <2>4. DoneAfter(left, done) = <<>>
    BY <1>7, <1>8, <2>3 DEF DoneAfter
  <2>5. <<c[m - 1], H[m]>> = <<c[m - 1]>> \o <<H[m]>>
    OBVIOUS
  <2>6. <<c[m - 1]>> \in Seq(S) /\ <<H[m]>> \in Seq(S)
    BY <1>4, <1>5, <2>1
  <2>7. LeftAfter(left) = <<c[m - 1]>> \o (<<H[m]>> \o rest)
    <3>1. LeftAfter(left) = (<<c[m - 1]>> \o <<H[m]>>) \o rest
      BY <1>7, <2>3, <2>5, Zenon DEF LeftAfter
    <3> QED BY <1>5, <2>6, <3>1, ConcatAssociative
  <2>8. <<H[m]>> \o rest = SubSeq(H, m, n)
    BY <1>1, <1>6, <2>1, n \in m..n, SubSeqRecursiveFirst DEF rest
  <2>9. LeftAfter(left) = <<c[m - 1]>> \o SubSeq(H, (m - 1) + 1, n)
    <3>1. (m - 1) + 1 = m
      BY <2>1
    <3>2. SubSeq(H, (m - 1) + 1, n) = SubSeq(H, m, n)
      BY <3>1
    <3> QED BY <2>7, <2>8, <3>2
  <2>10. Descending(LeftAfter(left), <<>>, ids)
    BY <1>2, <2>1, <2>9 DEF Descending, H, n
  <2>11. <<H[m]>> \o rest \in Seq(S)
    BY <1>5, <2>6, ConcatProperties
  <2>12. LeftAfter(left) # <<>>
    BY <1>5, <2>1, <2>7, <2>11, HeadFirst
  <2> QED BY <1>7, <2>4, <2>10, <2>12
<1> QED BY <1>9, <1>10

\* Once the hooks are being called, each turn calls the next one in registration order.
LEMMA CallingStep ==
  ASSUME NEW V, NEW ids \in Seq(V), NEW left, NEW done, Calling(left, done, ids)
  PROVE  /\ left # <<>>
         /\ \/ /\ Calling(LeftAfter(left), DoneAfter(left, done), ids)
               /\ LeftAfter(left) # <<>>
            \/ DoneAfter(left, done) = ids /\ LeftAfter(left) = <<>>
<1> DEFINE n == Len(ids)
           H == Hooks(ids)
           S == {Hook(v) : v \in V}
<1>1. /\ H \in Seq(S) /\ Len(H) = n /\ n \in Nat
      /\ \A i \in 1..n : H[i] = Hook(ids[i])
  BY HooksSequence
<1>2. PICK k \in 0..(n - 1) : left = SubSeq(H, k + 1, n) /\ done = SubSeq(ids, 1, k)
  BY DEF Calling
<1> HIDE DEF n, H, S
<1>3. k + 1 \in 1..n /\ n \in (k + 1)..n /\ (k + 1) + 1 = k + 2
  BY <1>1, <1>2
<1>4. Head(left) = H[k + 1] /\ Tail(left) = SubSeq(H, k + 2, n)
  BY <1>1, <1>2, <1>3, HeadTailOfSubSeq
<1>5. Head(left) = Hook(ids[k + 1])
  BY <1>1, <1>3, <1>4
<1>6. /\ Unfolded(Head(left)) = <<>> /\ Head(left).kind = "hook"
      /\ Head(left).id = ids[k + 1]
  BY <1>5 DEF Unfolded, Hook
<1>7. \A i \in 1..n : H[i] \in S
  BY <1>1, ElementOfSeq
<1>8. left \in Seq(S) /\ Len(left) = n - k
  <2>1. \A i \in (k + 1)..n : H[i] \in S
    BY <1>1, <1>3, <1>7
  <2>2. k + 1 \in Int /\ n \in Int
    BY <1>1, <1>2
  <2>3. left \in Seq(S) /\ Len(left) = IF k + 1 <= n THEN (n - (k + 1)) + 1 ELSE 0
    BY <1>2, <2>1, <2>2, SubSeqProperties
  <2> QED BY <1>1, <1>3, <2>3
<1>9. left # <<>>
  BY <1>1, <1>2, <1>8, EmptySeq
<1>10. Tail(left) \in Seq(S) /\ Len(Tail(left)) = (n - k) - 1
  BY <1>8, <1>9, HeadTailProperties
<1>11. LeftAfter(left) = Tail(left)
  BY <1>6, <1>10, ConcatEmptySeq DEF LeftAfter
<1>12. DoneAfter(left, done) = SubSeq(ids, 1, k + 1)
  <2>1. DoneAfter(left, done) = Append(SubSeq(ids, 1, k), ids[k + 1])
    BY <1>2, <1>6 DEF DoneAfter
  <2>2. \A i \in 1..n : ids[i] \in V
    BY ElementOfSeq DEF n
  <2>3. SubSeq(ids, 1, k) \in Seq(V) /\ ids[k + 1] \in V
    <3>1. \A i \in 1..k : ids[i] \in V
      BY <1>1, <1>3, <2>2
    <3> QED BY <1>2, <1>3, <2>2, <3>1, SubSeqProperties, 1 \in Int, k \in Int
  <2>4. Append(SubSeq(ids, 1, k), ids[k + 1]) = SubSeq(ids, 1, k) \o <<ids[k + 1]>>
    BY <2>3, AppendIsConcat
  <2>5. 1 \in 1..Len(ids) /\ k + 1 \in 1..Len(ids) /\ (k + 1) - 1 = k
    BY <1>1, <1>3 DEF n
  <2>6. SubSeq(ids, 1, k + 1) = SubSeq(ids, 1, k) \o <<ids[k + 1]>>
    BY <2>5, SubSeqRecursiveSecond
  <2> QED BY <2>1, <2>4, <2>6
<1>13. CASE k + 1 = n
  <2>1. Tail(left) = <<>>
    BY <1>1, <1>2, <1>10, <1>13, EmptySeq
  <2>2. DoneAfter(left, done) = ids
    BY <1>12, <1>13, SubSeqFull DEF n
  <2> QED BY <1>9, <1>11, <2>1, <2>2
<1>14. CASE k + 1 # n
  <2>1. k + 1 \in 0..(n - 1) /\ LeftAfter(left) = SubSeq(H, (k + 1) + 1, n)
    <3>1. k + 1 \in 0..(n - 1) /\ (k + 1) + 1 = k + 2
      BY <1>1, <1>2, <1>14
    <3>2. SubSeq(H, (k + 1) + 1, n) = SubSeq(H, k + 2, n)
      BY <3>1
    <3> QED BY <1>4, <1>11, <3>1, <3>2
  <2>2. Calling(LeftAfter(left), DoneAfter(left, done), ids)
    BY <1>12, <2>1 DEF Calling, H, n
  <2>3. LeftAfter(left) # <<>>
    BY <1>1, <1>2, <1>10, <1>11, <1>14, EmptySeq
  <2> QED BY <1>9, <2>2, <2>3
<1> QED BY <1>13, <1>14

\* Registering a hook links it behind the ones registered before.
LEMMA LinkAppended ==
  ASSUME NEW V, NEW ids \in Seq(V), NEW id \in V, NEW hook, Linked(hook, ids)
  PROVE  Linked(HookChain(hook, Hook(id)), Append(ids, id))
<1> DEFINE n == Len(ids)
           more == Append(ids, id)
<1>1. PICK c : Links(c, ids) /\ hook = c[n]
  BY DEF Linked
<1>2. /\ Len(more) = n + 1 /\ n \in Nat /\ more[n + 1] = id
      /\ \A i \in 1..n : more[i] = ids[i]
  BY AppendProperties, LenProperties
<1> HIDE DEF more, n
<1> DEFINE d == [k \in 0..(n + 1) |-> IF k <= n THEN c[k] ELSE HookChain(hook, Hook(id))]
<1>3. d[0] = NoHook
  BY <1>1, <1>2 DEF Links
<1>4. d[n + 1] = HookChain(hook, Hook(id))
  BY <1>2
<1>5. \A k \in 0..n : d[k] = c[k]
  BY <1>2
<1> HIDE DEF d
<1>6. ASSUME NEW k \in 1..Len(more) PROVE d[k] = HookChain(d[k - 1], Hook(more[k]))
  <2>1. CASE k = n + 1
    <3>1. k - 1 = n /\ n \in 0..n
      BY <1>2, <2>1
    <3> QED BY <1>1, <1>2, <1>4, <1>5, <2>1, <3>1
  <2>2. CASE k # n + 1
    <3>1. k \in 1..n /\ k \in 0..n /\ k - 1 \in 0..n
      BY <1>2, <2>2
    <3>2. c[k] = HookChain(c[k - 1], Hook(ids[k]))
      BY <1>1, <3>1 DEF Links, n
    <3> QED BY <1>2, <1>5, <3>1, <3>2
  <2> QED BY <2>1, <2>2
<1>7. Links(d, more)
  BY <1>3, <1>6 DEF Links
<1> QED BY <1>2, <1>4, <1>7 DEF Linked, more

\* A builder starts with no hook registered.
LEMMA LinkedNone == Linked(NoHook, <<>>)
<1> DEFINE c == [k \in {0} |-> NoHook]
<1>1. c[0] = NoHook /\ Len(<<>>) = 0
  OBVIOUS
<1> HIDE DEF c
<1>2. Links(c, <<>>)
  BY <1>1 DEF Links
<1> QED BY <1>1, <1>2 DEF Linked

\* A hook point is entered at the last link of its chain.
LEMMA DescendingStart ==
  ASSUME NEW V, NEW ids \in Seq(V), NEW hook, Linked(hook, ids)
  PROVE  Descending(<<hook>>, <<>>, ids)
<1> DEFINE n == Len(ids)
<1>1. PICK c : Links(c, ids) /\ hook = c[n]
  BY DEF Linked
<1>2. n \in Nat /\ n \in 0..n
  BY LenProperties
<1> HIDE DEF n
<1>3. SubSeq(Hooks(ids), n + 1, n) = <<>>
  BY <1>2, n + 1 \in Int, n \in Int, n < n + 1, SubSeqEmpty
<1>4. <<hook>> \o <<>> = <<hook>>
  BY ConcatEmptySeq, <<hook>> \in Seq({hook})
<1>5. <<hook>> = <<c[n]>> \o SubSeq(Hooks(ids), n + 1, n)
  BY <1>1, <1>3, <1>4
<1> QED BY <1>1, <1>2, <1>5 DEF Descending, n

-----------------------------------------------------------------------------
(* The inductive invariant: what holds of one builder and of the policy. *)

Policies == [stop : Stops, wait : Waits, classifier : Classifiers,
             timeout : Timeouts \cup {None}]

Values == Stops \cup Waits \cup Classifiers \cup Timeouts \cup Clocks \cup (Points \X Nat)

Fields == {"form", "stop", "wait", "classifier", "timeout", "clock", "hooks"}

Capable(b) == b.clock \in IF b.form = "sync" THEN SyncClocks ELSE AsyncClocks

BuilderTyped(b) ==
  /\ DOMAIN b = Fields /\ b.form \in {"sync", "async"}
  /\ b.stop \in Stops \cup {Borrowed} /\ b.wait \in Waits \cup {Borrowed}
  /\ b.classifier \in Classifiers \cup {Borrowed}
  /\ b.timeout \in Timeouts \cup {None} /\ b.clock \in Clocks
  /\ DOMAIN b.hooks = Points

\* What slot stands for, and what it should.
StandsFor(pol, b, slot) == IF b[slot] = Borrowed THEN pol[slot] ELSE b[slot]
Meant(made, calls, slot) ==
  IF calls[slot] # <<>> THEN Last(calls[slot])
  ELSE IF slot = "clock" THEN SystemClock ELSE made[slot]

BuilderInv(pol, b, made, calls) ==
  /\ BuilderTyped(b) /\ made \in Policies
  /\ \A slot \in Slots : StandsFor(pol, b, slot) = Meant(made, calls, slot)
  /\ \A p \in Points : Linked(b.hooks[p], calls[p])

\* Between two hook points everything was called; within one, the walk is on its way.
WalkInv(at, p, left, done, ids) ==
  IF at = "firing" THEN Descending(left, done, ids) \/ Calling(left, done, ids)
                   ELSE p # None => done = ids

HandleInv(pol, b, at, p, left, done, made, calls) ==
  /\ at \in {"free", "open", "stats", "idle", "firing"}
  /\ p \in Points \cup {None}
  /\ calls \in [Slots \cup Points -> Seq(Values)]
  /\ at = "free" => calls = NothingGiven
  /\ at # "free" => BuilderInv(pol, b, made, calls)
  /\ at \in {"free", "open", "stats"} => p = None
  /\ at \in {"idle", "firing"} => Capable(b) /\ WalkInv(at, p, left, done, calls[p])
  /\ at = "firing" => p \in Points

Inv ==
  /\ policy \in Policies /\ asked = policy
  /\ DOMAIN builder = Handles /\ DOMAIN stage = Handles /\ DOMAIN point = Handles
  /\ DOMAIN todo = Handles /\ DOMAIN fired = Handles /\ DOMAIN seed = Handles
  /\ DOMAIN given = Handles
  /\ \A h \in Handles : HandleInv(policy, builder[h], stage[h], point[h], todo[h],
                                  fired[h], seed[h], given[h])

-----------------------------------------------------------------------------
(* What each call does to one builder. *)

\* The defaults are a policy, and they lend nothing.
LEMMA NewPolicyTyped == NewPolicy \in Policies
BY DefaultsAssumption DEF NewPolicy, RetryPolicy, Policies

\* Every slot of a policy holds its own kind of value.
LEMMA PolicyFields ==
  ASSUME NEW pol \in Policies
  PROVE  /\ pol.stop \in Stops /\ pol.wait \in Waits /\ pol.classifier \in Classifiers
         /\ pol.timeout \in Timeouts \cup {None}
         /\ pol["stop"] = pol.stop /\ pol["wait"] = pol.wait
         /\ pol["classifier"] = pol.classifier /\ pol["timeout"] = pol.timeout
BY DEF Policies

\* Nothing given: no call on any slot or hook point.
LEMMA NothingGivenTyped ==
  /\ NothingGiven \in [Slots \cup Points -> Seq(Values)]
  /\ \A s \in Slots \cup Points : NothingGiven[s] = <<>>
BY DEF NothingGiven

\* A builder made from parts stands for them, whether they are its own or lent.
LEMMA FromPartsInv ==
  ASSUME NEW pol \in Policies, NEW made \in Policies, NEW form \in Forms,
         NEW classifier, NEW stop, NEW wait, NEW timeout,
         \/ /\ classifier = made.classifier /\ stop = made.stop /\ wait = made.wait
         \/ /\ classifier = Borrowed /\ stop = Borrowed /\ wait = Borrowed
            /\ made = pol,
         timeout = made.timeout
  PROVE  BuilderInv(pol, FromParts(form, classifier, stop, wait, timeout), made, NothingGiven)
<1> DEFINE b == FromParts(form, classifier, stop, wait, timeout)
<1>1. /\ DOMAIN b = Fields /\ b.form = form /\ b.clock = SystemClock
      /\ b.stop = stop /\ b.wait = wait /\ b.classifier = classifier
      /\ b.timeout = timeout /\ b.hooks = ExecutionHooks(NoHook, NoHook, NoHook)
      /\ b["stop"] = b.stop /\ b["wait"] = b.wait /\ b["classifier"] = b.classifier
      /\ b["timeout"] = b.timeout /\ b["clock"] = b.clock
  BY DEF FromParts, Retry, AsyncRetry, Fields, Forms
<1>6. DOMAIN b.hooks = Points /\ \A p \in Points : b.hooks[p] = NoHook
  BY <1>1 DEF ExecutionHooks, Points
<1> HIDE DEF b
<1>2. /\ stop \in {made.stop, Borrowed} /\ wait \in {made.wait, Borrowed}
      /\ classifier \in {made.classifier, Borrowed}
      /\ stop = Borrowed => made = pol
      /\ wait = Borrowed => made = pol
      /\ classifier = Borrowed => made = pol
  BY PolicyFields, BorrowedAssumption
<1>3. BuilderTyped(b)
  BY <1>1, <1>2, <1>6, PolicyFields DEF BuilderTyped, Clocks, Forms
<1>4. ASSUME NEW slot \in Slots PROVE StandsFor(pol, b, slot) = Meant(made, NothingGiven, slot)
  <2>1. NothingGiven[slot] = <<>>
    BY NothingGivenTyped
  <2>2. CASE slot = "clock"
    <3>1. b["clock"] = SystemClock /\ SystemClock # Borrowed
      BY <1>1, BorrowedAssumption DEF Clocks
    <3> QED BY <2>1, <2>2, <3>1 DEF StandsFor, Meant
  <2>3. CASE slot = "timeout"
    <3>1. b["timeout"] = made["timeout"] /\ made["timeout"] # Borrowed
      BY <1>1, <1>2, PolicyFields, BorrowedAssumption
    <3> QED BY <2>1, <2>3, <3>1 DEF StandsFor, Meant
  <2>4. CASE slot \in {"stop", "wait", "classifier"}
    <3>1. b[slot] = made[slot] \/ (b[slot] = Borrowed /\ made = pol)
      BY <1>1, <1>2, <2>4, PolicyFields
    <3>2. slot # "clock"
      BY <2>4
    <3>3. Meant(made, NothingGiven, slot) = made[slot]
      BY <2>1, <3>2 DEF Meant
    <3>4. made[slot] # Borrowed
      BY <2>4, PolicyFields, BorrowedAssumption
    <3> QED BY <3>1, <3>3, <3>4 DEF StandsFor
  <2> QED BY <2>2, <2>3, <2>4 DEF Slots
<1>5. ASSUME NEW p \in Points PROVE Linked(b.hooks[p], NothingGiven[p])
  BY <1>6, LinkedNone, NothingGivenTyped
<1> QED BY <1>3, <1>4, <1>5 DEF BuilderInv, b

\* The builder c is b but for one field.
Replaced(c, b, field, v) ==
  /\ DOMAIN c = Fields /\ c[field] = v
  /\ \A f \in Fields \ {field} : c[f] = b[f]

\* A setter that replaces its own slot and no other.
LEMMA SlotGiven ==
  ASSUME NEW pol, NEW b, NEW made, NEW calls \in [Slots \cup Points -> Seq(Values)],
         NEW slot \in Slots, NEW v \in Values, v # Borrowed,
         BuilderInv(pol, b, made, calls),
         NEW c, Replaced(c, b, slot, v), BuilderTyped(c)
  PROVE  BuilderInv(pol, c, made, [calls EXCEPT ![slot] = Append(@, v)])
<1> DEFINE more == [calls EXCEPT ![slot] = Append(@, v)]
<1>1. Slots \subseteq Fields /\ "hooks" \in Fields /\ "hooks" \notin Slots
  BY DEF Slots, Fields
<1>2. c[slot] = v /\ c.hooks = b.hooks /\ \A s \in Slots \ {slot} : c[s] = b[s]
  BY <1>1 DEF Replaced
<1>3. /\ more[slot] = Append(calls[slot], v)
      /\ \A s \in (Slots \cup Points) \ {slot} : more[s] = calls[s]
  OBVIOUS
<1>4. calls[slot] \in Seq(Values)
  OBVIOUS
<1>5. Append(calls[slot], v) # <<>> /\ Last(Append(calls[slot], v)) = v
  BY <1>4 DEF Last
<1> HIDE DEF more
<1>6. ASSUME NEW s \in Slots PROVE StandsFor(pol, c, s) = Meant(made, more, s)
  <2>1. CASE s = slot
    BY <1>2, <1>3, <1>5, <2>1 DEF StandsFor, Meant
  <2>2. CASE s # slot
    <3>1. c[s] = b[s] /\ more[s] = calls[s]
      BY <1>2, <1>3, <2>2
    <3>2. StandsFor(pol, b, s) = Meant(made, calls, s)
      BY DEF BuilderInv
    <3> QED BY <3>1, <3>2 DEF StandsFor, Meant
  <2> QED BY <2>1, <2>2
<1>7. ASSUME NEW p \in Points PROVE Linked(c.hooks[p], more[p])
  <2>1. p # slot
    BY DEF Points, Slots
  <2> QED BY <1>2, <1>3, <2>1 DEF BuilderInv
<1>8. BuilderTyped(c) /\ made \in Policies
  BY DEF BuilderInv
<1> QED BY <1>6, <1>7, <1>8 DEF BuilderInv, more

\* Each setter of either builder, rebuilding it field by field, replaces its own slot.
LEMMA SettersReplace ==
  ASSUME NEW b, BuilderTyped(b)
  PROVE  /\ \A v \in Stops : Replaced(SetStop(b, v), b, "stop", v)
         /\ \A v \in Waits : Replaced(SetWait(b, v), b, "wait", v)
         /\ \A v \in Classifiers : Replaced(SetClassifier(b, v), b, "classifier", v)
         /\ \A v \in Timeouts : Replaced(SetTimeout(b, v), b, "timeout", v)
         /\ \A v \in Clocks : Replaced(SetClock(b, v), b, "clock", v)
<1> USE DEF IsSync, Retry, AsyncRetry, Fields, Replaced
<1>1. DOMAIN b = Fields /\ b.form \in {"sync", "async"}
  BY DEF BuilderTyped
<1>2. ASSUME NEW v \in Stops PROVE Replaced(SetStop(b, v), b, "stop", v)
  BY <1>1 DEF SetStop, RetryStop, AsyncStop
<1>3. ASSUME NEW v \in Waits PROVE Replaced(SetWait(b, v), b, "wait", v)
  BY <1>1 DEF SetWait, RetryWait, AsyncWait
<1>4. ASSUME NEW v \in Classifiers PROVE Replaced(SetClassifier(b, v), b, "classifier", v)
  BY <1>1 DEF SetClassifier, RetryWithClassifier, AsyncWithClassifier
<1>5. ASSUME NEW v \in Timeouts PROVE Replaced(SetTimeout(b, v), b, "timeout", v)
  BY <1>1 DEF SetTimeout
<1>6. ASSUME NEW v \in Clocks PROVE Replaced(SetClock(b, v), b, "clock", v)
  BY <1>1 DEF SetClock, RetryClock, AsyncClock
<1> QED BY <1>2, <1>3, <1>4, <1>5, <1>6

\* A slot replaced by a value of its kind keeps the builder typed.
LEMMA ReplacedTyped ==
  ASSUME NEW b, BuilderTyped(b), NEW c, NEW v,
         \/ v \in Stops /\ Replaced(c, b, "stop", v)
         \/ v \in Waits /\ Replaced(c, b, "wait", v)
         \/ v \in Classifiers /\ Replaced(c, b, "classifier", v)
         \/ v \in Timeouts /\ Replaced(c, b, "timeout", v)
         \/ v \in Clocks /\ Replaced(c, b, "clock", v)
  PROVE  BuilderTyped(c)
BY DEF Replaced, BuilderTyped, Fields

\* The policy's setters, which rebuild it field by field, replace their own slot only.
LEMMA PolicySetters ==
  ASSUME NEW p \in Policies
  PROVE  /\ \A v \in Stops : /\ PolicySetStop(p, v) \in Policies
                             /\ [p EXCEPT !.stop = v] = PolicySetStop(p, v)
         /\ \A v \in Waits : /\ PolicySetWait(p, v) \in Policies
                             /\ [p EXCEPT !.wait = v] = PolicySetWait(p, v)
         /\ \A v \in Classifiers : /\ PolicySetClassifier(p, v) \in Policies
                                   /\ [p EXCEPT !.classifier = v] = PolicySetClassifier(p, v)
         /\ \A v \in Timeouts : /\ SetTimeout(p, v) \in Policies
                                /\ [p EXCEPT !.timeout = v] = SetTimeout(p, v)
         /\ Boxed(p) \in Policies /\ Boxed(p) = p
<1> USE DEF RetryPolicy, Policies
<1>1. ASSUME NEW v \in Stops
      PROVE  PolicySetStop(p, v) \in Policies /\ [p EXCEPT !.stop = v] = PolicySetStop(p, v)
  BY DEF PolicySetStop
<1>2. ASSUME NEW v \in Waits
      PROVE  PolicySetWait(p, v) \in Policies /\ [p EXCEPT !.wait = v] = PolicySetWait(p, v)
  BY DEF PolicySetWait
<1>3. ASSUME NEW v \in Classifiers
      PROVE  /\ PolicySetClassifier(p, v) \in Policies
             /\ [p EXCEPT !.classifier = v] = PolicySetClassifier(p, v)
  BY DEF PolicySetClassifier
<1>4. ASSUME NEW v \in Timeouts
      PROVE  SetTimeout(p, v) \in Policies /\ [p EXCEPT !.timeout = v] = SetTimeout(p, v)
  BY DEF SetTimeout
<1>5. Boxed(p) \in Policies /\ Boxed(p) = p
  BY DEF Boxed
<1> QED BY <1>1, <1>2, <1>3, <1>4, <1>5

\* Registering a hook adds it behind the point's others and touches nothing else.
LEMMA HookGiven ==
  ASSUME NEW pol, NEW b, NEW made, NEW calls \in [Slots \cup Points -> Seq(Values)],
         NEW p \in Points, NEW id \in Values, BuilderInv(pol, b, made, calls)
  PROVE  BuilderInv(pol, AddHook(b, p, Hook(id)), made, [calls EXCEPT ![p] = Append(@, id)])
<1> DEFINE c == AddHook(b, p, Hook(id))
           more == [calls EXCEPT ![p] = Append(@, id)]
<1>1. DOMAIN b = Fields /\ Slots \subseteq Fields /\ "hooks" \notin Slots /\ DOMAIN b.hooks = Points
  BY DEF BuilderInv, BuilderTyped, Slots, Fields
<1>2. /\ DOMAIN c = Fields /\ DOMAIN c.hooks = Points /\ c.form = b.form
      /\ c.hooks[p] = HookChain(b.hooks[p], Hook(id))
      /\ \A q \in Points \ {p} : c.hooks[q] = b.hooks[q]
      /\ \A s \in Slots : c[s] = b[s]
  <2> DEFINE chained == Chained(b.hooks, p, Hook(id))
  <2>1. /\ DOMAIN chained = Points
        /\ chained[p] = HookChain(b.hooks[p], Hook(id))
        /\ \A q \in Points \ {p} : chained[q] = b.hooks[q]
    BY <1>1 DEF Chained, ExecutionHooks, Points
  <2> HIDE DEF chained
  <2>2. Replaced(c, b, "hooks", chained)
    <3>1. b.form \in {"sync", "async"}
      BY DEF BuilderInv, BuilderTyped
    <3> QED BY <1>1, <3>1
         DEF c, AddHook, chained, RetryHooks, AsyncHooks, Retry, AsyncRetry, IsSync,
             Fields, Replaced
  <2>3. /\ DOMAIN c = Fields /\ c.hooks = chained /\ c.form = b.form
        /\ \A s \in Slots : c[s] = b[s]
    BY <1>1, <2>2 DEF Fields, Replaced
  <2> QED BY <2>1, <2>3
<1>3. /\ more[p] = Append(calls[p], id)
      /\ \A s \in (Slots \cup Points) \ {p} : more[s] = calls[s]
  OBVIOUS
<1>4. calls[p] \in Seq(Values)
  OBVIOUS
<1> HIDE DEF c, more
<1>5. BuilderTyped(c) /\ made \in Policies
  <2>1. /\ c["stop"] = b["stop"] /\ c["wait"] = b["wait"] /\ c["clock"] = b["clock"]
        /\ c["classifier"] = b["classifier"] /\ c["timeout"] = b["timeout"]
    BY <1>2 DEF Slots
  <2> QED BY <1>2, <2>1 DEF BuilderInv, BuilderTyped
<1>6. ASSUME NEW s \in Slots PROVE StandsFor(pol, c, s) = Meant(made, more, s)
  <2>1. s # p
    BY DEF Slots, Points
  <2>2. c[s] = b[s] /\ more[s] = calls[s]
    BY <1>2, <1>3, <2>1
  <2>3. StandsFor(pol, b, s) = Meant(made, calls, s)
    BY DEF BuilderInv
  <2> QED BY <2>2, <2>3 DEF StandsFor, Meant
<1>7. ASSUME NEW q \in Points PROVE Linked(c.hooks[q], more[q])
  <2>1. Linked(b.hooks[q], calls[q])
    BY DEF BuilderInv
  <2>2. CASE q = p
    <3>1. Linked(HookChain(b.hooks[p], Hook(id)), Append(calls[p], id))
      BY <1>4, <2>1, <2>2, LinkAppended
    <3> QED BY <1>2, <1>3, <2>2, <3>1
  <2>3. CASE q # p
    BY <1>2, <1>3, <2>1, <2>3
  <2> QED BY <2>2, <2>3
<1> QED BY <1>5, <1>6, <1>7 DEF BuilderInv, c, more

\* A policy that is not lent can be changed under a builder.
LEMMA PolicyChanged ==
  ASSUME NEW pol, NEW other, NEW b, NEW made, NEW calls, BuilderInv(pol, b, made, calls),
         \A slot \in {"stop", "wait", "classifier"} : b[slot] # Borrowed
  PROVE  BuilderInv(other, b, made, calls)
<1>1. \A slot \in Slots : b[slot] # Borrowed
  BY BorrowedAssumption DEF Slots, BuilderInv, BuilderTyped
<1> QED BY <1>1 DEF BuilderInv, StandsFor

-----------------------------------------------------------------------------
(* Every step keeps the invariant. *)

\* Of a function of handles, only h's value changed, to v.
Only(h, new, old, v) ==
  /\ DOMAIN new = Handles /\ new[h] = v
  /\ \A k \in Handles \ {h} : new[k] = old[k]

\* An assignment at h, and leaving the function alone, both change h's value at most.
LEMMA OnlyOne ==
  ASSUME NEW old, DOMAIN old = Handles, NEW h \in Handles
  PROVE  /\ \A v : Only(h, [old EXCEPT ![h] = v], old, v)
         /\ Only(h, old, old, old[h])
BY DEF Only

\* A step of one builder that leaves it well keeps the invariant.
LEMMA OneHandle ==
  ASSUME NEW h \in Handles, NEW b, NEW at, NEW p, NEW left, NEW done, NEW made, NEW calls,
         Inv, UNCHANGED policyVars,
         Only(h, builder', builder, b), Only(h, stage', stage, at),
         Only(h, point', point, p), Only(h, todo', todo, left),
         Only(h, fired', fired, done), Only(h, seed', seed, made),
         Only(h, given', given, calls),
         HandleInv(policy, b, at, p, left, done, made, calls)
  PROVE  Inv'
<1>1. ASSUME NEW k \in Handles
      PROVE  HandleInv(policy', builder'[k], stage'[k], point'[k], todo'[k],
                       fired'[k], seed'[k], given'[k])
  <2>1. CASE k = h
    BY <2>1 DEF Only, policyVars
  <2>2. CASE k # h
    <3>1. HandleInv(policy, builder[k], stage[k], point[k], todo[k], fired[k], seed[k], given[k])
      BY DEF Inv
    <3>2. /\ builder'[k] = builder[k] /\ stage'[k] = stage[k] /\ point'[k] = point[k]
          /\ todo'[k] = todo[k] /\ fired'[k] = fired[k] /\ seed'[k] = seed[k]
          /\ given'[k] = given[k]
      BY <2>2 DEF Only
    <3> QED BY <3>1, <3>2 DEF policyVars
  <2> QED BY <2>1, <2>2
<1>2. /\ DOMAIN builder' = Handles /\ DOMAIN stage' = Handles /\ DOMAIN point' = Handles
      /\ DOMAIN todo' = Handles /\ DOMAIN fired' = Handles /\ DOMAIN seed' = Handles
      /\ DOMAIN given' = Handles
  BY DEF Only
<1>3. policy' \in Policies /\ asked' = policy'
  BY DEF Inv, policyVars
<1> QED BY <1>1, <1>2, <1>3 DEF Inv

\* The program's first state satisfies the invariant.
LEMMA InitInv == Init => Inv
<1> SUFFICES ASSUME Init PROVE Inv
  OBVIOUS
<1>1. policy \in Policies /\ asked = policy
  BY NewPolicyTyped DEF Init
<1>2. /\ DOMAIN builder = Handles /\ DOMAIN stage = Handles /\ DOMAIN point = Handles
      /\ DOMAIN todo = Handles /\ DOMAIN fired = Handles /\ DOMAIN seed = Handles
      /\ DOMAIN given = Handles
  BY DEF Init
<1>3. ASSUME NEW h \in Handles
      PROVE  HandleInv(policy, builder[h], stage[h], point[h], todo[h], fired[h], seed[h], given[h])
  <2>1. stage[h] = "free" /\ point[h] = None /\ given[h] = NothingGiven
    BY DEF Init
  <2> QED BY <2>1, NothingGivenTyped DEF HandleInv
<1> QED BY <1>1, <1>2, <1>3 DEF Inv

\* The policy's setters.
LEMMA PolicyStep ==
  ASSUME Inv, NEW p \in Policies, ConfigurePolicy(p, p)
  PROVE  Inv'
<1>1. ASSUME NEW h \in Handles
      PROVE  HandleInv(p, builder[h], stage[h], point[h], todo[h], fired[h], seed[h], given[h])
  <2>1. HandleInv(policy, builder[h], stage[h], point[h], todo[h], fired[h], seed[h], given[h])
    BY DEF Inv
  <2>2. ASSUME stage[h] # "free" PROVE BuilderInv(p, builder[h], seed[h], given[h])
    <3>1. \A slot \in {"stop", "wait", "classifier"} : builder[h][slot] # Borrowed
      BY <2>2 DEF ConfigurePolicy, PolicyBorrowed
    <3>2. BuilderInv(policy, builder[h], seed[h], given[h])
      BY <2>1, <2>2 DEF HandleInv
    <3> QED BY <3>1, <3>2, PolicyChanged
  <2> QED BY <2>1, <2>2 DEF HandleInv
<1> QED BY <1>1 DEF Inv, ConfigurePolicy

\* The handle's part of the invariant, unpacked.
LEMMA HandleFacts ==
  ASSUME Inv, NEW h \in Handles
  PROVE  HandleInv(policy, builder[h], stage[h], point[h], todo[h], fired[h], seed[h], given[h])
BY DEF Inv

\* A builder is made.
LEMMA BeginStep ==
  ASSUME Inv, NEW h \in Handles, BeginFree(h) \/ BeginLent(h)
  PROVE  Inv'
<1>1. Begin(h)
  BY DEF BeginFree, BeginLent
<1>2. PICK b, made : /\ builder' = [builder EXCEPT ![h] = b] /\ seed' = [seed EXCEPT ![h] = made]
                     /\ BuilderInv(policy, b, made, NothingGiven)
  <2>1. policy \in Policies /\ asked = policy
    BY DEF Inv
  <2>2. CASE BeginFree(h)
    <3>1. PICK form \in Forms : builder' = [builder EXCEPT ![h] = FromOp(form)]
      BY <2>2 DEF BeginFree
    <3>2. /\ NewPolicy.classifier = "default" /\ NewPolicy.stop = "default"
          /\ NewPolicy.wait = "default" /\ NewPolicy.timeout = None
      BY DEF NewPolicy, RetryPolicy
    <3>3. BuilderInv(policy, FromOp(form), NewPolicy, NothingGiven)
      BY <2>1, <3>2, NewPolicyTyped, FromPartsInv DEF FromOp
    <3> QED BY <2>2, <3>1, <3>3 DEF BeginFree
  <2>3. CASE BeginLent(h)
    <3>1. PICK form \in Forms : builder' = [builder EXCEPT ![h] = FromPolicy(form)]
      BY <2>3 DEF BeginLent
    <3>2. BuilderInv(policy, FromPolicy(form), policy, NothingGiven)
      BY <2>1, FromPartsInv DEF FromPolicy
    <3> QED BY <2>1, <2>3, <3>1, <3>2 DEF BeginLent
  <2> QED BY <2>2, <2>3
<1>3. stage[h] = "free" /\ point[h] = None /\ given[h] = NothingGiven
  BY <1>1, HandleFacts DEF Begin, HandleInv
<1>4. HandleInv(policy, b, "open", point[h], todo[h], fired[h], made, given[h])
  BY <1>2, <1>3, NothingGivenTyped DEF HandleInv
<1>5. /\ Only(h, builder', builder, b) /\ Only(h, stage', stage, "open")
      /\ Only(h, point', point, point[h]) /\ Only(h, todo', todo, todo[h])
      /\ Only(h, fired', fired, fired[h]) /\ Only(h, seed', seed, made)
      /\ Only(h, given', given, given[h])
  BY <1>1, <1>2 DEF Begin, Inv, Only
<1> QED BY <1>1, <1>4, <1>5, OneHandle DEF Begin

\* A configuration call that keeps the builder well keeps the invariant.
LEMMA ConfigureStep ==
  ASSUME Inv, NEW h \in Handles, NEW slot \in Slots \cup Points, NEW v \in Values, NEW b,
         Configure(h, slot, v, b),
         BuilderInv(policy, b, seed[h], [given[h] EXCEPT ![slot] = Append(@, v)])
  PROVE  Inv'
<1> DEFINE calls == [given[h] EXCEPT ![slot] = Append(@, v)]
<1>1. HandleInv(policy, builder[h], stage[h], point[h], todo[h], fired[h], seed[h], given[h])
  BY HandleFacts
<1>2. stage[h] = "open" /\ point[h] = None
  BY <1>1 DEF Configure, HandleInv
<1>3. calls \in [Slots \cup Points -> Seq(Values)]
  <2>1. given[h] \in [Slots \cup Points -> Seq(Values)]
    BY <1>1 DEF HandleInv
  <2>2. Append(given[h][slot], v) \in Seq(Values)
    BY <2>1, AppendProperties
  <2> QED BY <2>1, <2>2
<1>4. /\ Only(h, builder', builder, b) /\ Only(h, stage', stage, stage[h])
      /\ Only(h, point', point, point[h]) /\ Only(h, todo', todo, todo[h])
      /\ Only(h, fired', fired, fired[h]) /\ Only(h, seed', seed, seed[h])
      /\ Only(h, given', given, calls)
  BY DEF Configure, Inv, Only
<1>5. UNCHANGED policyVars /\ BuilderInv(policy, b, seed[h], calls)
  BY DEF Configure
<1> HIDE DEF calls
<1>6. HandleInv(policy, b, stage[h], point[h], todo[h], fired[h], seed[h], calls)
  BY <1>2, <1>3, <1>5 DEF HandleInv
<1> QED BY <1>4, <1>5, <1>6, OneHandle

\* Every setter of a builder.
LEMMA SetterStep ==
  ASSUME Inv, NEW h \in Handles, Stop(h) \/ Wait(h) \/ Clock(h) \/ Classify(h) \/ Timeout(h)
  PROVE  Inv'
<1>1. PICK slot \in Slots, v \in Values :
        /\ v # Borrowed
        /\ \E b : /\ Replaced(b, builder[h], slot, v) /\ BuilderTyped(b)
                  /\ Configure(h, slot, v, b)
        /\ BuilderInv(policy, builder[h], seed[h], given[h])
        /\ given[h] \in [Slots \cup Points -> Seq(Values)]
  <2>1. stage[h] = "open"
    BY DEF Stop, Wait, Clock, Classify, Timeout, Configure
  <2>2. /\ BuilderInv(policy, builder[h], seed[h], given[h])
        /\ given[h] \in [Slots \cup Points -> Seq(Values)]
    BY <2>1, HandleFacts DEF HandleInv
  <2>3. BuilderTyped(builder[h])
    BY <2>2 DEF BuilderInv
  <2>4. CASE Stop(h)
    <3>1. PICK v \in Stops : Configure(h, "stop", v, SetStop(builder[h], v))
      BY <2>4 DEF Stop
    <3>2. v \in Values /\ v # Borrowed /\ "stop" \in Slots
      BY BorrowedAssumption DEF Values, Slots
    <3>3. Replaced(SetStop(builder[h], v), builder[h], "stop", v)
      BY <2>3, SettersReplace
    <3>4. BuilderTyped(SetStop(builder[h], v))
      BY <2>3, <3>3, ReplacedTyped
    <3> QED BY <2>2, <3>1, <3>2, <3>3, <3>4
  <2>5. CASE Wait(h)
    <3>1. PICK v \in Waits : Configure(h, "wait", v, SetWait(builder[h], v))
      BY <2>5 DEF Wait
    <3>2. v \in Values /\ v # Borrowed /\ "wait" \in Slots
      BY BorrowedAssumption DEF Values, Slots
    <3>3. Replaced(SetWait(builder[h], v), builder[h], "wait", v)
      BY <2>3, SettersReplace
    <3>4. BuilderTyped(SetWait(builder[h], v))
      BY <2>3, <3>3, ReplacedTyped
    <3> QED BY <2>2, <3>1, <3>2, <3>3, <3>4
  <2>6. CASE Clock(h)
    <3>1. PICK v \in Clocks : Configure(h, "clock", v, SetClock(builder[h], v))
      BY <2>6 DEF Clock
    <3>2. v \in Values /\ v # Borrowed /\ "clock" \in Slots
      BY BorrowedAssumption DEF Values, Slots
    <3>3. Replaced(SetClock(builder[h], v), builder[h], "clock", v)
      BY <2>3, SettersReplace
    <3>4. BuilderTyped(SetClock(builder[h], v))
      BY <2>3, <3>3, ReplacedTyped
    <3> QED BY <2>2, <3>1, <3>2, <3>3, <3>4
  <2>7. CASE Classify(h)
    <3>1. PICK v \in Classifiers : Configure(h, "classifier", v, SetClassifier(builder[h], v))
      BY <2>7 DEF Classify
    <3>2. v \in Values /\ v # Borrowed /\ "classifier" \in Slots
      BY BorrowedAssumption DEF Values, Slots
    <3>3. Replaced(SetClassifier(builder[h], v), builder[h], "classifier", v)
      BY <2>3, SettersReplace
    <3>4. BuilderTyped(SetClassifier(builder[h], v))
      BY <2>3, <3>3, ReplacedTyped
    <3> QED BY <2>2, <3>1, <3>2, <3>3, <3>4
  <2>8. CASE Timeout(h)
    <3>1. PICK v \in Timeouts : Configure(h, "timeout", v, SetTimeout(builder[h], v))
      BY <2>8 DEF Timeout
    <3>2. v \in Values /\ v # Borrowed /\ "timeout" \in Slots
      BY BorrowedAssumption DEF Values, Slots
    <3>3. Replaced(SetTimeout(builder[h], v), builder[h], "timeout", v)
      BY <2>3, SettersReplace
    <3>4. BuilderTyped(SetTimeout(builder[h], v))
      BY <2>3, <3>3, ReplacedTyped
    <3> QED BY <2>2, <3>1, <3>2, <3>3, <3>4
  <2> QED BY <2>4, <2>5, <2>6, <2>7, <2>8
<1>2. PICK b : /\ Replaced(b, builder[h], slot, v) /\ BuilderTyped(b)
               /\ Configure(h, slot, v, b)
  BY <1>1
<1>3. BuilderInv(policy, b, seed[h], [given[h] EXCEPT ![slot] = Append(@, v)])
  BY <1>1, <1>2, SlotGiven
<1> QED BY <1>3, <1>2, ConfigureStep

\* before_attempt, after_attempt and on_exit.
LEMMA RegisterHookStep ==
  ASSUME Inv, NEW h \in Handles, RegisterHook(h)
  PROVE  Inv'
<1>1. PICK p \in Points :
        Configure(h, p, <<p, Len(given[h][p]) + 1>>,
                  AddHook(builder[h], p, Hook(<<p, Len(given[h][p]) + 1>>)))
  BY DEF RegisterHook
<1> DEFINE id == <<p, Len(given[h][p]) + 1>>
<1>2. stage[h] = "open"
  BY <1>1 DEF Configure
<1>3. /\ BuilderInv(policy, builder[h], seed[h], given[h])
      /\ given[h] \in [Slots \cup Points -> Seq(Values)]
  BY <1>2, HandleFacts DEF HandleInv
<1>4. id \in Values
  <2>1. given[h][p] \in Seq(Values)
    BY <1>3
  <2>2. Len(given[h][p]) + 1 \in Nat
    BY <2>1, LenProperties
  <2> QED BY <2>2 DEF Values
<1> HIDE DEF id
<1>5. BuilderInv(policy, AddHook(builder[h], p, Hook(id)), seed[h],
                 [given[h] EXCEPT ![p] = Append(@, id)])
  BY <1>3, <1>4, HookGiven
<1>6. Configure(h, p, id, AddHook(builder[h], p, Hook(id)))
  BY <1>1 DEF id
<1> QED BY <1>4, <1>5, <1>6, ConfigureStep

\* with_stats and call only move the builder on.
LEMMA StageStep ==
  ASSUME Inv, NEW h \in Handles, WithStats(h) \/ Call(h)
  PROVE  Inv'
<1>1. HandleInv(policy, builder[h], stage[h], point[h], todo[h], fired[h], seed[h], given[h])
  BY HandleFacts
<1>2. PICK at : /\ at = "stats" \/ (at = "idle" /\ Capable(builder[h]))
                /\ stage[h] \in {"open", "stats"} /\ stage' = [stage EXCEPT ![h] = at]
                /\ UNCHANGED <<policyVars, builder, point, todo, fired, seed, given>>
  BY DEF WithStats, Call, Capable
<1>3. point[h] = None /\ stage[h] # "free" /\ BuilderInv(policy, builder[h], seed[h], given[h])
  BY <1>1, <1>2 DEF HandleInv
<1>4. HandleInv(policy, builder[h], at, point[h], todo[h], fired[h], seed[h], given[h])
  BY <1>1, <1>2, <1>3 DEF HandleInv, WalkInv
<1>5. /\ Only(h, builder', builder, builder[h]) /\ Only(h, stage', stage, at)
      /\ Only(h, point', point, point[h]) /\ Only(h, todo', todo, todo[h])
      /\ Only(h, fired', fired, fired[h]) /\ Only(h, seed', seed, seed[h])
      /\ Only(h, given', given, given[h])
  BY <1>2 DEF Inv, Only
<1> QED BY <1>2, <1>4, <1>5, OneHandle

\* The engine reaches a hook point.
LEMMA ReachPointStep ==
  ASSUME Inv, NEW h \in Handles, ReachPoint(h)
  PROVE  Inv'
<1>1. HandleInv(policy, builder[h], stage[h], point[h], todo[h], fired[h], seed[h], given[h])
  BY HandleFacts
<1>2. PICK p : /\ p \in CASE point[h] = None -> {"before_attempt"}
                          [] point[h] = "before_attempt" -> {"after_attempt"}
                          [] point[h] = "after_attempt" -> {"before_attempt", "on_exit"}
                          [] point[h] = "on_exit" -> {}
               /\ point' = [point EXCEPT ![h] = p]
               /\ todo' = [todo EXCEPT ![h] = <<builder[h].hooks[p]>>]
  BY DEF ReachPoint
<1>3. p \in Points
  BY <1>1, <1>2 DEF HandleInv, Points
<1>4. stage[h] = "idle"
  BY DEF ReachPoint
<1>5. /\ BuilderInv(policy, builder[h], seed[h], given[h]) /\ Capable(builder[h])
      /\ given[h] \in [Slots \cup Points -> Seq(Values)]
  BY <1>1, <1>4 DEF HandleInv
<1>6. Descending(<<builder[h].hooks[p]>>, <<>>, given[h][p])
  <2>1. Linked(builder[h].hooks[p], given[h][p]) /\ given[h][p] \in Seq(Values)
    BY <1>3, <1>5 DEF BuilderInv
  <2> QED BY <2>1, DescendingStart
<1> DEFINE left == <<builder[h].hooks[p]>>
<1>7. /\ Only(h, builder', builder, builder[h]) /\ Only(h, stage', stage, "firing")
      /\ Only(h, point', point, p) /\ Only(h, todo', todo, left)
      /\ Only(h, fired', fired, <<>>) /\ Only(h, seed', seed, seed[h])
      /\ Only(h, given', given, given[h])
  BY <1>2 DEF ReachPoint, Inv, Only
<1> HIDE DEF left
<1>8. WalkInv("firing", p, left, <<>>, given[h][p])
  BY <1>6 DEF WalkInv, left
<1>9. HandleInv(policy, builder[h], "firing", p, left, <<>>, seed[h], given[h])
  BY <1>3, <1>5, <1>8 DEF HandleInv
<1> QED BY <1>7, <1>9, OneHandle DEF ReachPoint

\* A turn of the walk over the hooks.
LEMMA DispatchStep ==
  ASSUME Inv, NEW h \in Handles, Dispatch(h)
  PROVE  Inv'
<1>1. HandleInv(policy, builder[h], stage[h], point[h], todo[h], fired[h], seed[h], given[h])
  BY HandleFacts
<1>2. stage[h] = "firing"
  BY DEF Dispatch
<1> DEFINE left == LeftAfter(todo[h])
           done == DoneAfter(todo[h], fired[h])
           at == IF left = <<>> THEN "idle" ELSE "firing"
           ids == given[h][point[h]]
<1>3. /\ point[h] \in Points /\ ids \in Seq(Values)
      /\ Descending(todo[h], fired[h], ids) \/ Calling(todo[h], fired[h], ids)
      /\ given[h] \in [Slots \cup Points -> Seq(Values)]
      /\ BuilderInv(policy, builder[h], seed[h], given[h]) /\ Capable(builder[h])
  BY <1>1, <1>2 DEF HandleInv, WalkInv
<1>4. /\ Only(h, todo', todo, left) /\ Only(h, fired', fired, done)
      /\ Only(h, builder', builder, builder[h]) /\ Only(h, point', point, point[h])
      /\ Only(h, seed', seed, seed[h]) /\ Only(h, given', given, given[h])
  <2>1. Only(h, todo', todo, left)
    BY DEF Dispatch, Inv, Only, LeftAfter
  <2>2. Only(h, fired', fired, done)
    BY DEF Dispatch, Inv, Only, DoneAfter
  <2> QED BY <2>1, <2>2 DEF Dispatch, Inv, Only
<1>5. Only(h, stage', stage, at)
  <2>1. todo'[h] = left
    BY <1>4 DEF Only
  <2> HIDE DEF left
  <2> QED BY <1>2, <2>1 DEF Dispatch, Inv, Only
<1>6. WalkInv(at, point[h], left, done, ids)
  <2>1. CASE Descending(todo[h], fired[h], ids)
    <3>1. /\ done = <<>>
          /\ \/ Descending(left, <<>>, ids) /\ left # <<>>
             \/ Calling(left, <<>>, ids) /\ left # <<>>
             \/ ids = <<>> /\ left = <<>>
      BY <1>3, <2>1, DescendingStep
    <3> HIDE DEF left, done, ids
    <3> QED BY <3>1 DEF WalkInv
  <2>2. CASE Calling(todo[h], fired[h], ids)
    <3>1. \/ Calling(left, done, ids) /\ left # <<>>
          \/ done = ids /\ left = <<>>
      BY <1>3, <2>2, CallingStep
    <3> HIDE DEF left, done, ids
    <3> QED BY <3>1 DEF WalkInv
  <2> QED BY <1>3, <2>1, <2>2
<1>7. at \in {"idle", "firing"}
  OBVIOUS
<1> HIDE DEF left, done, at
<1>8. HandleInv(policy, builder[h], at, point[h], left, done, seed[h], given[h])
  BY <1>3, <1>6, <1>7 DEF HandleInv
<1> QED BY <1>4, <1>5, <1>8, OneHandle DEF Dispatch

\* A builder or execution that ends, panics or is dropped leaves nothing behind.
LEMMA GoneStep ==
  ASSUME Inv, NEW h \in Handles, HookPanics(h) \/ Finish(h) \/ Drop(h)
  PROVE  Inv'
<1>1. Gone(h)
  BY DEF HookPanics, Finish, Drop
<1>2. HandleInv(policy, None, "free", None, <<>>, <<>>, None, NothingGiven)
  BY NothingGivenTyped DEF HandleInv
<1>3. /\ Only(h, builder', builder, None) /\ Only(h, stage', stage, "free")
      /\ Only(h, point', point, None) /\ Only(h, todo', todo, <<>>)
      /\ Only(h, fired', fired, <<>>) /\ Only(h, seed', seed, None)
      /\ Only(h, given', given, NothingGiven)
  BY <1>1 DEF Gone, Inv, Only
<1> QED BY <1>1, <1>2, <1>3, OneHandle DEF Gone

\* Every step keeps the invariant.
LEMMA NextInv ==
  ASSUME Inv, [Next]_vars
  PROVE  Inv'
<1>1. CASE PolicyStop \/ PolicyWait \/ PolicyClassifier \/ PolicyTimeout \/ PolicyBoxed
  <2>1. policy \in Policies /\ asked = policy
    BY DEF Inv
  <2>2. PICK p \in Policies : ConfigurePolicy(p, p)
    <3>1. CASE PolicyStop
      BY <2>1, <3>1, PolicySetters DEF PolicyStop
    <3>2. CASE PolicyWait
      BY <2>1, <3>2, PolicySetters DEF PolicyWait
    <3>3. CASE PolicyClassifier
      BY <2>1, <3>3, PolicySetters DEF PolicyClassifier
    <3>4. CASE PolicyTimeout
      BY <2>1, <3>4, PolicySetters DEF PolicyTimeout
    <3>5. CASE PolicyBoxed
      BY <2>1, <3>5, PolicySetters DEF PolicyBoxed
    <3> QED BY <1>1, <3>1, <3>2, <3>3, <3>4, <3>5
  <2> QED BY <2>2, PolicyStep
<1>2. ASSUME NEW h \in Handles, BeginFree(h) \/ BeginLent(h) PROVE Inv'
  BY <1>2, BeginStep
<1>3. ASSUME NEW h \in Handles, Stop(h) \/ Wait(h) \/ Clock(h) \/ Classify(h) \/ Timeout(h)
      PROVE  Inv'
  BY <1>3, SetterStep
<1>4. ASSUME NEW h \in Handles, RegisterHook(h) PROVE Inv'
  BY <1>4, RegisterHookStep
<1>5. ASSUME NEW h \in Handles, WithStats(h) \/ Call(h) PROVE Inv'
  BY <1>5, StageStep
<1>6. ASSUME NEW h \in Handles, ReachPoint(h) PROVE Inv'
  BY <1>6, ReachPointStep
<1>7. ASSUME NEW h \in Handles, Dispatch(h) PROVE Inv'
  BY <1>7, DispatchStep
<1>8. ASSUME NEW h \in Handles, HookPanics(h) \/ Finish(h) \/ Drop(h) PROVE Inv'
  BY <1>8, GoneStep
<1>9. CASE UNCHANGED vars
  BY <1>9 DEF vars, policyVars, Inv
<1> QED BY <1>1, <1>2, <1>3, <1>4, <1>5, <1>6, <1>7, <1>8, <1>9 DEF Next

-----------------------------------------------------------------------------
(* Theorems. *)

\* The inductive invariant of policies, builders and their hook chains.
THEOREM ConfigurationInvariant == Spec => []Inv
<1>1. Inv /\ [Next]_vars => Inv'
  BY NextInv
<1> QED BY InitInv, <1>1, PTL DEF Spec

\* Policies and builders keep their types, a hook point being fired has a hook left to
\* call, and an execution never runs with a clock of the other capability.
THEOREM ConfigurationTypeCorrect == Spec => []TypeOK
<1>1. ASSUME Inv PROVE TypeOK
  <2>1. ASSUME NEW h \in Handles
        PROVE  /\ stage[h] \in {"free", "open", "stats", "idle", "firing"}
               /\ point[h] \in Points \cup {None}
               /\ stage[h] = "firing" => todo[h] # <<>>
               /\ stage[h] \in {"idle", "firing"} => Capable(builder[h])
    <3>1. HandleInv(policy, builder[h], stage[h], point[h], todo[h], fired[h], seed[h], given[h])
      BY <1>1, HandleFacts
    <3>2. ASSUME stage[h] = "firing" PROVE todo[h] # <<>>
      <4>1. /\ given[h][point[h]] \in Seq(Values)
            /\ \/ Descending(todo[h], fired[h], given[h][point[h]])
               \/ Calling(todo[h], fired[h], given[h][point[h]])
        BY <3>1, <3>2 DEF HandleInv, WalkInv
      <4>2. CASE Descending(todo[h], fired[h], given[h][point[h]])
        BY <4>1, <4>2, DescendingStep
      <4>3. CASE Calling(todo[h], fired[h], given[h][point[h]])
        BY <4>1, <4>3, CallingStep
      <4> QED BY <4>1, <4>2, <4>3
    <3> QED BY <3>1, <3>2 DEF HandleInv
  <2>2. policy \in Policies
    BY <1>1 DEF Inv
  <2> QED BY <2>1, <2>2, PolicyFields DEF TypeOK, Capable
<1> QED BY <1>1, ConfigurationInvariant, PTL

\* Each slot stands for the last value given, or for what the builder was made with,
\* whatever the setters called since, on it, on other builders and on the policy.
THEOREM ConfigurationLastCallWins == Spec => []LastCallWins
<1>1. ASSUME Inv PROVE LastCallWins
  <2>1. ASSUME NEW h \in Handles, stage[h] # "free", NEW slot \in Slots
        PROVE  StandsFor(policy, builder[h], slot) = Meant(seed[h], given[h], slot)
    BY <1>1, <2>1, HandleFacts DEF HandleInv, BuilderInv
  <2> QED BY <2>1 DEF LastCallWins, StandsFor, Meant, Resolve
<1> QED BY <1>1, ConfigurationInvariant, PTL

\* Hooks are called in registration order, each once, and all of them by the time the
\* engine goes on.
THEOREM ConfigurationHooksInOrder == Spec => []HooksInOrder
<1>1. ASSUME Inv PROVE HooksInOrder
  <2>1. ASSUME NEW h \in Handles, point[h] # None
        PROVE  /\ IsPrefix(fired[h], given[h][point[h]])
               /\ stage[h] = "idle" => fired[h] = given[h][point[h]]
    <3> DEFINE ids == given[h][point[h]]
    <3>1. HandleInv(policy, builder[h], stage[h], point[h], todo[h], fired[h], seed[h], given[h])
      BY <1>1, HandleFacts
    <3>2. stage[h] \in {"idle", "firing"} /\ ids \in Seq(Values)
      BY <2>1, <3>1 DEF HandleInv
    <3>3. WalkInv(stage[h], point[h], todo[h], fired[h], ids)
      BY <3>1, <3>2 DEF HandleInv
    <3>4. Len(ids) \in Nat
      BY <3>2, LenProperties
    <3> HIDE DEF ids
    <3>5. stage[h] = "idle" => fired[h] = ids
      BY <2>1, <3>3 DEF WalkInv
    <3>6. fired[h] = ids \/ fired[h] = <<>>
          \/ \E k \in 0..(Len(ids) - 1) : fired[h] = SubSeq(ids, 1, k)
      BY <3>2, <3>3, <3>5 DEF WalkInv, Descending, Calling
    <3>7. PICK k \in 0..Len(ids) : fired[h] = SubSeq(ids, 1, k)
      <4>1. SubSeq(ids, 1, 0) = <<>>
        BY SubSeqEmpty, 1 \in Int, 0 \in Int
      <4>2. SubSeq(ids, 1, Len(ids)) = ids
        BY <3>2, SubSeqFull
      <4>3. 0 \in 0..Len(ids) /\ Len(ids) \in 0..Len(ids) /\ 0..(Len(ids) - 1) \subseteq 0..Len(ids)
        BY <3>4
      <4>4. CASE fired[h] = ids
        BY <4>2, <4>3, <4>4
      <4>5. CASE fired[h] = <<>>
        BY <4>1, <4>3, <4>5
      <4>6. CASE \E k \in 0..(Len(ids) - 1) : fired[h] = SubSeq(ids, 1, k)
        BY <4>3, <4>6
      <4> QED BY <3>6, <4>4, <4>5, <4>6
    <3>8. \A i \in 1..k : ids[i] \in Values
      BY <3>2, <3>4, <3>7, ElementOfSeq
    <3>9. fired[h] \in Seq(Values) /\ Len(fired[h]) = k
      <4>1. /\ SubSeq(ids, 1, k) \in Seq(Values)
            /\ Len(SubSeq(ids, 1, k)) = IF 1 <= k THEN (k - 1) + 1 ELSE 0
        BY <3>8, SubSeqProperties, 1 \in Int, k \in Int
      <4> QED BY <3>7, <4>1
    <3>10. SubSeq(fired[h], 1, Len(fired[h])) = fired[h]
      BY <3>9, SubSeqFull
    <3>11. IsPrefix(fired[h], ids)
      BY <3>4, <3>7, <3>9, <3>10 DEF IsPrefix
    <3> QED BY <3>5, <3>11 DEF ids
  <2> QED BY <2>1 DEF HooksInOrder
<1> QED BY <1>1, ConfigurationInvariant, PTL
=============================================================================
