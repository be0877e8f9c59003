--------------------------- MODULE RegistryProofs ---------------------------
(***************************************************************************)
(* Proofs about the registry, for every set of validators, length of       *)
(* blocks and number of crashes, tries and lost answers: the database goes *)
(* through the states of ContractRegistry, its shares can sign, and the    *)
(* validators it has as active run.                                        *)
(***************************************************************************)
EXTENDS Registry, NaturalsInduction, WellFoundedInduction, SequenceTheorems, TLAPS

-----------------------------------------------------------------------------
(* Counting up.                                                            *)

\* Induction up to a bound, for a set.
LEMMA CountUp ==
  ASSUME NEW N \in Nat, NEW S, 0 \in S, \A n \in 1 .. N : n - 1 \in S => n \in S
  PROVE  \A n \in 0 .. N : n \in S
<1> DEFINE R == OpToRel(<, Nat)
           T == {n \in 0 .. N : n \notin S}
<1>1. IsWellFoundedOn(R, Nat)
  BY NatLessThanWellFounded
<1>2. \A i, j \in Nat : i < j => <<i, j>> \in R
  BY DEF OpToRel
<1>3. \A n : n \in T <=> n \in 0 .. N /\ n \notin S
  OBVIOUS
<1>4. T \subseteq Nat
  OBVIOUS
<1> HIDE DEF R, T
<1>5. SUFFICES ASSUME T # {} PROVE FALSE
  BY <1>3
<1>6. PICK m \in T : \A y \in T : <<y, m>> \notin R
  BY <1>1, <1>4, <1>5, WFMin
<1>7. m \in 1 .. N /\ m - 1 \in 0 .. N /\ m - 1 < m
  BY <1>3
<1>8. <<m - 1, m>> \in R
  BY <1>2, <1>7
<1>9. m - 1 \notin T
  BY <1>6, <1>8
<1>10. QED BY <1>3, <1>7, <1>9

-----------------------------------------------------------------------------
(* What a block does.                                                      *)

LEMMA BlockIsSeq ==
  ASSUME NEW b \in C!Block
  PROVE  /\ Len(b) \in Nat \ {0} /\ b \in [1 .. Len(b) -> C!Event] /\ DOMAIN b = 1 .. Len(b)
         /\ b # <<>> /\ Len(b) \in 0 .. MaxEvents
<1>1. PICK n \in 1 .. MaxEvents : b \in [1 .. n -> C!Event]
  BY DEF C!Block
<1>2. b \in Seq(C!Event) /\ Len(b) = n
  BY <1>1
<1>3. QED BY <1>1, <1>2, RegistryAssumption

\* The recursive definition of the prefixes has a solution.
LEMMA PrefixesUnfold ==
  ASSUME NEW r, NEW b \in C!Block, NEW f, f = C!AppliedPrefixes(r, b)
  PROVE  f = [n \in 0 .. Len(b) |-> IF n = 0 THEN r ELSE C!Applied(f[n - 1], b[n])]
<1> DEFINE Sol(k, g) == g = [n \in 0 .. k |-> IF n = 0 THEN r ELSE C!Applied(g[n - 1], b[n])]
           S == {k \in Nat : \E g : Sol(k, g)}
<1>1. f = CHOOSE g : Sol(Len(b), g)
  BY DEF C!AppliedPrefixes
<1>2. 0 \in S
  <2>1. Sol(0, [n \in 0 .. 0 |-> r])
    OBVIOUS
  <2>2. QED BY <2>1
<1>3. ASSUME NEW m \in 1 .. Len(b), m - 1 \in S
      PROVE  m \in S
  <2>1. m \in Nat \ {0}
    BY BlockIsSeq
  <2>2. PICK g : Sol(m - 1, g)
    BY <1>3
  <2> DEFINE h == [n \in 0 .. m |-> IF n = m THEN C!Applied(g[m - 1], b[m]) ELSE g[n]]
  <2>3. ASSUME NEW n \in 0 .. m
        PROVE  h[n] = IF n = 0 THEN r ELSE C!Applied(h[n - 1], b[n])
    <3>1. n # m => n \in 0 .. m - 1
      BY <2>1
    <3>2. n # 0 => n - 1 \in 0 .. m /\ n - 1 # m
      BY <2>1
    <3>3. n # m => g[n] = IF n = 0 THEN r ELSE C!Applied(g[n - 1], b[n])
      BY <2>2, <3>1
    <3>4. n # 0 => h[n - 1] = g[n - 1]
      BY <3>2
    <3>5. QED BY <2>1, <3>3, <3>4
  <2>4. Sol(m, h)
    BY <2>3
  <2>5. QED BY <2>1, <2>4
<1>4. Len(b) \in S
  <2> HIDE DEF S
  <2>1. \A n \in 0 .. Len(b) : n \in S
    BY <1>2, <1>3, CountUp, BlockIsSeq
  <2>2. QED BY <2>1, BlockIsSeq
<1>5. QED BY <1>1, <1>4

\* The status of a validator after the first n events of b if it is x before.
RunOf(b, v, x, n) ==
  C!AppliedPrefixes([members |-> [w \in Validators |-> x], nonce |-> 0], b)[n].members[v]

\* One event more.
LEMMA PrefixStep ==
  ASSUME NEW r, NEW b \in C!Block
  PROVE  /\ C!AppliedPrefixes(r, b)[0] = r
         /\ \A n \in 1 .. Len(b) :
              C!AppliedPrefixes(r, b)[n] = C!Applied(C!AppliedPrefixes(r, b)[n - 1], b[n])
<1> DEFINE f == C!AppliedPrefixes(r, b)
<1>1. f = [n \in 0 .. Len(b) |-> IF n = 0 THEN r ELSE C!Applied(f[n - 1], b[n])]
  BY PrefixesUnfold
<1>2. Len(b) \in Nat
  BY BlockIsSeq
<1> HIDE DEF f
<1>3. f[0] = r /\ \A n \in 1 .. Len(b) : f[n] = C!Applied(f[n - 1], b[n])
  BY <1>1, <1>2
<1>4. QED BY <1>3 DEF f

LEMMA AppliedIs ==
  ASSUME NEW r, NEW e
  PROVE  /\ C!Applied(r, e).nonce = IF e.type \in {"add", "addMalformed"} THEN r.nonce + 1 ELSE r.nonce
         /\ DOMAIN C!Applied(r, e).members = Validators
         /\ \A v \in Validators : C!Applied(r, e).members[v] = C!StatusAfter(r.members[v], v, e)
BY DEF C!Applied

LEMMA RunStart ==
  \A b \in C!Block : \A v \in Validators : \A x : RunOf(b, v, x, 0) = x
<1> SUFFICES ASSUME NEW b \in C!Block, NEW v \in Validators, NEW x
             PROVE  RunOf(b, v, x, 0) = x
  OBVIOUS
<1> DEFINE r == [members |-> [w \in Validators |-> x], nonce |-> 0]
<1>1. C!AppliedPrefixes(r, b)[0] = r
  BY PrefixStep
<1>2. QED BY <1>1 DEF RunOf

LEMMA RunSteps ==
  \A b \in C!Block : \A v \in Validators : \A n \in 1 .. Len(b) : \A x :
    RunOf(b, v, x, n) = C!StatusAfter(RunOf(b, v, x, n - 1), v, b[n])
<1> SUFFICES ASSUME NEW b \in C!Block, NEW v \in Validators, NEW n \in 1 .. Len(b), NEW x
             PROVE  RunOf(b, v, x, n) = C!StatusAfter(RunOf(b, v, x, n - 1), v, b[n])
  OBVIOUS
<1> DEFINE r == [members |-> [w \in Validators |-> x], nonce |-> 0]
           f == C!AppliedPrefixes(r, b)
<1>1. f[n] = C!Applied(f[n - 1], b[n])
  BY PrefixStep
<1> HIDE DEF f
<1>2. f[n].members[v] = C!StatusAfter(f[n - 1].members[v], v, b[n])
  BY <1>1, AppliedIs
<1>3. QED BY <1>2 DEF RunOf, f

LEMMA StatusAfterType ==
  ASSUME NEW s \in C!Status, NEW v, NEW e
  PROVE  C!StatusAfter(s, v, e) \in C!Status
BY DEF C!StatusAfter, C!Status

LEMMA RunStatus ==
  ASSUME NEW b \in C!Block, NEW v \in Validators, NEW x \in C!Status
  PROVE  \A n \in 0 .. Len(b) : RunOf(b, v, x, n) \in C!Status
<1> DEFINE S == {n \in 0 .. Len(b) : RunOf(b, v, x, n) \in C!Status}
<1>1. Len(b) \in Nat
  BY BlockIsSeq
<1>2. 0 \in S /\ \A n \in 1 .. Len(b) : n - 1 \in S => n \in S
  BY <1>1, RunSteps, RunStart, StatusAfterType
<1> HIDE DEF S
<1>3. \A n \in 0 .. Len(b) : n \in S
  BY <1>1, <1>2, CountUp
<1>4. QED BY <1>3 DEF S

\* A validator's status depends on its own before.
LEMMA PrefixMembers ==
  ASSUME NEW b \in C!Block, NEW r, NEW v \in Validators
  PROVE  \A n \in 0 .. Len(b) :
           C!AppliedPrefixes(r, b)[n].members[v] = RunOf(b, v, r.members[v], n)
<1> DEFINE S == {n \in 0 .. Len(b) :
                   C!AppliedPrefixes(r, b)[n].members[v] = RunOf(b, v, r.members[v], n)}
<1>1. Len(b) \in Nat
  BY BlockIsSeq
<1>2. 0 \in S
  BY <1>1, PrefixStep, RunStart
<1>3. ASSUME NEW n \in 1 .. Len(b), n - 1 \in S PROVE n \in S
  <2>1. C!AppliedPrefixes(r, b)[n - 1].members[v] = RunOf(b, v, r.members[v], n - 1)
    BY <1>3
  <2>2. C!AppliedPrefixes(r, b)[n].members[v]
          = C!StatusAfter(C!AppliedPrefixes(r, b)[n - 1].members[v], v, b[n])
    BY PrefixStep, AppliedIs
  <2>3. \A x : RunOf(b, v, x, n) = C!StatusAfter(RunOf(b, v, x, n - 1), v, b[n])
    BY RunSteps
  <2>4. QED BY <1>1, <2>1, <2>2, <2>3
<1> HIDE DEF S
<1>4. \A n \in 0 .. Len(b) : n \in S
  BY <1>1, <1>2, <1>3, CountUp
<1>5. QED BY <1>4 DEF S

\* Two runs that meet stay together.
LEMMA RunsMerge ==
  ASSUME NEW b \in C!Block, NEW v \in Validators, NEW x, NEW y,
         NEW p \in 0 .. Len(b), RunOf(b, v, x, p) = RunOf(b, v, y, p)
  PROVE  RunOf(b, v, x, Len(b)) = RunOf(b, v, y, Len(b))
<1>1. Len(b) \in Nat
  BY BlockIsSeq
<1>2. \A n \in 1 .. Len(b) : \A z :
        RunOf(b, v, z, n) = C!StatusAfter(RunOf(b, v, z, n - 1), v, b[n])
  BY RunSteps
<1> DEFINE S == {n \in 0 .. Len(b) : n >= p => RunOf(b, v, x, n) = RunOf(b, v, y, n)}
<1>3. 0 \in S
  BY <1>1
<1>4. ASSUME NEW n \in 1 .. Len(b), n - 1 \in S PROVE n \in S
  <2>1. CASE n = p
    BY <1>1, <2>1
  <2>2. CASE n # p
    <3>1. n >= p => RunOf(b, v, x, n - 1) = RunOf(b, v, y, n - 1)
      BY <1>1, <1>4, <2>2
    <3>2. \A z : RunOf(b, v, z, n) = C!StatusAfter(RunOf(b, v, z, n - 1), v, b[n])
      BY <1>2
    <3>3. n >= p => RunOf(b, v, x, n) = RunOf(b, v, y, n)
      BY <3>1, <3>2
    <3>4. QED BY <1>1, <3>3
  <2>3. QED BY <2>1, <2>2
<1> HIDE DEF S
<1>5. \A n \in 0 .. Len(b) : n \in S
  BY <1>1, <1>3, <1>4, CountUp
<1>6. QED BY <1>1, <1>5 DEF S

\* Whether a registered validator is registered after some events does not
\* depend on whether it was liquidated.
LEMMA RunAbsent ==
  ASSUME NEW b \in C!Block, NEW v \in Validators
  PROVE  \A n \in 0 .. Len(b) :
           RunOf(b, v, "active", n) = "absent" <=> RunOf(b, v, "liquidated", n) = "absent"
<1> DEFINE S == {n \in 0 .. Len(b) :
                   RunOf(b, v, "active", n) = "absent" <=> RunOf(b, v, "liquidated", n) = "absent"}
<1>1. Len(b) \in Nat
  BY BlockIsSeq
<1>2. 0 \in S
  BY <1>1, RunStart
<1>3. ASSUME NEW n \in 1 .. Len(b), n - 1 \in S PROVE n \in S
  <2>1. RunOf(b, v, "active", n - 1) = "absent" <=> RunOf(b, v, "liquidated", n - 1) = "absent"
    BY <1>3
  <2>2. \A x : RunOf(b, v, x, n) = C!StatusAfter(RunOf(b, v, x, n - 1), v, b[n])
    BY RunSteps
  <2>3. QED BY <1>1, <2>1, <2>2 DEF C!StatusAfter
<1> HIDE DEF S
<1>4. \A n \in 0 .. Len(b) : n \in S
  BY <1>1, <1>2, <1>3, CountUp
<1>5. QED BY <1>4 DEF S

\* An active validator is liquidated only by an event that none reactivates.
LEMMA RunLiquidated ==
  ASSUME NEW b \in C!Block, NEW v \in Validators
  PROVE  \A n \in 0 .. Len(b) :
           RunOf(b, v, "active", n) = "liquidated" =>
             \E i \in 1 .. n : /\ b[i].type = "liquidate"
                               /\ \A j \in i + 1 .. n : b[j].type # "reactivate"
<1> DEFINE Off(n) == \E i \in 1 .. n : /\ b[i].type = "liquidate"
                                       /\ \A j \in i + 1 .. n : b[j].type # "reactivate"
           S == {n \in 0 .. Len(b) : RunOf(b, v, "active", n) = "liquidated" => Off(n)}
<1>1. Len(b) \in Nat
  BY BlockIsSeq
<1>2. 0 \in S
  BY <1>1, RunStart
<1>3. ASSUME NEW n \in 1 .. Len(b), n - 1 \in S PROVE n \in S
  <2>1. RunOf(b, v, "active", n) = C!StatusAfter(RunOf(b, v, "active", n - 1), v, b[n])
    <3>1. \A x : RunOf(b, v, x, n) = C!StatusAfter(RunOf(b, v, x, n - 1), v, b[n])
      BY RunSteps
    <3>2. QED BY <3>1
  <2>2. CASE b[n].type = "liquidate"
    <3>1. Off(n)
      BY <1>1, <2>2
    <3>2. QED BY <1>1, <3>1
  <2>3. CASE b[n].type # "liquidate" /\ RunOf(b, v, "active", n) = "liquidated"
    <3>1. RunOf(b, v, "active", n - 1) = "liquidated" /\ b[n].type # "reactivate"
      BY <2>1, <2>3 DEF C!StatusAfter
    <3>2. PICK i \in 1 .. n - 1 : /\ b[i].type = "liquidate"
                                  /\ \A j \in i + 1 .. n - 1 : b[j].type # "reactivate"
      BY <1>3, <3>1
    <3>3. \A j \in i + 1 .. n : j = n \/ j \in i + 1 .. n - 1
      BY <1>1
    <3>4. QED BY <1>1, <3>1, <3>2, <3>3
  <2>4. QED BY <1>1, <2>2, <2>3
<1> HIDE DEF S
<1>4. \A n \in 0 .. Len(b) : n \in S
  BY <1>1, <1>2, <1>3, CountUp
<1>5. QED BY <1>4 DEF S

-----------------------------------------------------------------------------
(* The inductive invariant.                                                *)

Absentable == Share \cup {None}
SyncRound == [step : {"asked", "batch"}, validators : SUBSET Validators,
              unknown : SUBSET Validators]

RegistryTypes ==
  /\ db \in [Validators -> Absentable] /\ mem \in [Validators -> Absentable]
  /\ block \in C!Block \cup {<<>>}
  /\ pos = None \/ (block \in C!Block /\ pos \in 0 .. Len(block))
  /\ wrShares \in [DOMAIN wrShares -> Absentable] /\ DOMAIN wrShares \subseteq Validators
  /\ wrRecords \in [DOMAIN wrRecords -> BOOLEAN] /\ DOMAIN wrRecords \subseteq Validators
  /\ early \in [DOMAIN early -> C!Status] /\ DOMAIN early \subseteq Validators
  /\ torn \in [DOMAIN torn -> C!Status] /\ DOMAIN torn \subseteq Validators
  /\ left \subseteq Validators
  /\ sync = None \/ sync \in SyncRound

\* A validator's status in memory, in the database and in the contract.
St(v) == StatusOf(mem[v])
Ds(v) == StatusOf(db[v])
Ms(v) == IF v \in DOMAIN torn THEN torn[v] ELSE IF v \in DOMAIN early THEN early[v] ELSE Ds(v)
Before == [members |-> [v \in Validators |-> Ms(v)], nonce |-> nonce]

\* An early write is one of the block under way, and so are an open transaction
\* and what a discarded one left.  The metadata syncer does not meet the latter.
NothingPends ==
  /\ block = <<>> => DOMAIN early \subseteq DOMAIN torn /\ left = {}
  /\ pos = None => DOMAIN wrShares = {} /\ DOMAIN wrRecords = {}
  /\ left # {} => phase = "history"
  /\ phase = "history" => sync = None

\* Memory has what the transaction has, but for metadata and for what a
\* discarded transaction left.
MemoryIsWritten ==
  /\ \A v \in DOMAIN wrShares : St(v) = StatusOf(wrShares[v])
  /\ \A v \in Validators \ (DOMAIN wrShares \cup left \cup DOMAIN torn) : St(v) = Ds(v)

\* A share is added to a cluster that the block before has not left liquidated.
LegalAdds(b) ==
  \A n \in DOMAIN b : b[n].type = "add" =>
    \/ \A i \in 1 .. n - 1 : b[i].type # "liquidate"
    \/ \E i \in 1 .. n - 1 : /\ b[i].type = "reactivate"
                            /\ \A j \in i + 1 .. n - 1 : b[j].type # "liquidate"

\* What memory has leads to what the block promises, from where it stands and,
\* were it written early or left by a discarded try, from the block's beginning.
MemoryFollowsBlock ==
  /\ LegalAdds(block)
  /\ pos # None => wrNonce = C!AppliedPrefixes(Before, block)[pos].nonce
  /\ \A v \in Validators \ DOMAIN torn :
       /\ pos # None =>
            /\ \E s \in C!Status :
                 /\ St(v) = RunOf(block, v, s, pos)
                 /\ RunOf(block, v, s, Len(block)) = RunOf(block, v, Ms(v), Len(block))
            /\ RunOf(block, v, St(v), pos) = St(v)
       /\ pos = None /\ block # <<>> =>
            RunOf(block, v, St(v), Len(block)) = RunOf(block, v, Ms(v), Len(block))

\* An early write changes nothing of what the block leads to.
EarlyWritesAreHarmless ==
  block # <<>> => \A v \in Validators \ DOMAIN torn :
    RunOf(block, v, Ds(v), Len(block)) = RunOf(block, v, Ms(v), Len(block))

RegistryInv ==
  RegistryTypes /\ NothingPends /\ MemoryIsWritten /\ MemoryFollowsBlock /\ EarlyWritesAreHarmless

-----------------------------------------------------------------------------
(* Writes and statuses.                                                    *)

LEMMA StatusOfIs ==
  /\ \A x \in Absentable : StatusOf(x) \in C!Status /\ (StatusOf(x) = "absent" <=> x = None)
  /\ \A l, m \in BOOLEAN : StatusOf([liquidated |-> l, metadata |-> m])
                            = IF l THEN "liquidated" ELSE "active"
  /\ \A x \in Share : StatusOf(x) = IF x.liquidated THEN "liquidated" ELSE "active"
<1>1. None \notin Share
  BY RegistryAssumption DEF Share
<1>2. \A x \in Absentable : StatusOf(x) \in C!Status /\ (StatusOf(x) = "absent" <=> x = None)
  BY <1>1 DEF StatusOf, C!Status, Absentable
<1>3. \A l, m \in BOOLEAN : [liquidated |-> l, metadata |-> m] \in Share
  BY DEF Share
<1>4. \A l, m \in BOOLEAN : StatusOf([liquidated |-> l, metadata |-> m])
                            = IF l THEN "liquidated" ELSE "active"
  BY <1>1, <1>3 DEF StatusOf
<1>5. \A x \in Share : StatusOf(x) = IF x.liquidated THEN "liquidated" ELSE "active"
  BY <1>1 DEF StatusOf
<1>6. QED BY <1>2, <1>4, <1>5

\* A share with another flag, and one with other metadata.
LEMMA FlaggedIs ==
  ASSUME NEW x \in Share, NEW l \in BOOLEAN
  PROVE  /\ [x EXCEPT !.liquidated = l] \in Share
         /\ StatusOf([x EXCEPT !.liquidated = l]) = IF l THEN "liquidated" ELSE "active"
<1> DEFINE y == [x EXCEPT !.liquidated = l]
<1>1. y \in Share /\ y.liquidated = l
  BY DEF Share
<1> HIDE DEF y
<1>2. StatusOf(y) = IF l THEN "liquidated" ELSE "active"
  BY <1>1, StatusOfIs
<1>3. QED BY <1>1, <1>2 DEF y

LEMMA MetadataIs ==
  ASSUME NEW x \in Share, NEW m \in BOOLEAN
  PROVE  /\ [x EXCEPT !.metadata = m] \in Share
         /\ [x EXCEPT !.metadata = m].liquidated = x.liquidated
         /\ [x EXCEPT !.metadata = m].metadata = m
         /\ StatusOf([x EXCEPT !.metadata = m]) = StatusOf(x)
<1> DEFINE y == [x EXCEPT !.metadata = m]
<1>1. y \in Share /\ y.liquidated = x.liquidated /\ y.metadata = m
  BY DEF Share
<1> HIDE DEF y
<1>2. StatusOf(y) = StatusOf(x)
  BY <1>1, StatusOfIs
<1>3. QED BY <1>1, <1>2 DEF y

\* SaveShares writes memory and the transaction alike.
LEMMA SaveSharesIs ==
  ASSUME RegistryTypes, MemoryIsWritten, UNCHANGED <<db, left, torn>>,
         NEW w, w \in [DOMAIN w -> Absentable], DOMAIN w \subseteq Validators, SaveShares(w)
  PROVE  /\ mem' \in [Validators -> Absentable]
         /\ wrShares' \in [DOMAIN wrShares' -> Absentable] /\ DOMAIN wrShares' \subseteq Validators
         /\ MemoryIsWritten'
         /\ \A v \in Validators : mem'[v] = IF v \in DOMAIN w THEN w[v] ELSE mem[v]
<1>1. /\ mem \in [DOMAIN mem -> Absentable] /\ DOMAIN mem = Validators
      /\ wrShares \in [DOMAIN wrShares -> Absentable] /\ DOMAIN wrShares \subseteq Validators
  BY DEF RegistryTypes
<1>2. /\ DOMAIN mem' = DOMAIN w \cup Validators
      /\ mem' \in [DOMAIN w \cup Validators -> Absentable]
      /\ \A v \in DOMAIN w : mem'[v] = w[v]
      /\ \A v \in Validators \ DOMAIN w : mem'[v] = mem[v]
  <2>1. mem' = Over(w, mem)
    BY DEF SaveShares
  <2>2. /\ DOMAIN Over(w, mem) = DOMAIN w \cup DOMAIN mem
        /\ Over(w, mem) \in [DOMAIN w \cup DOMAIN mem -> Absentable]
        /\ \A v \in DOMAIN w : Over(w, mem)[v] = w[v]
        /\ \A v \in DOMAIN mem \ DOMAIN w : Over(w, mem)[v] = mem[v]
    BY <1>1 DEF Over
  <2>3. QED BY <1>1, <2>1, <2>2
<1>3. /\ DOMAIN wrShares' = DOMAIN w \cup DOMAIN wrShares
      /\ wrShares' \in [DOMAIN w \cup DOMAIN wrShares -> Absentable]
      /\ \A v \in DOMAIN w : wrShares'[v] = w[v]
      /\ \A v \in DOMAIN wrShares \ DOMAIN w : wrShares'[v] = wrShares[v]
  <2>1. wrShares' = Over(w, wrShares)
    BY DEF SaveShares
  <2>2. /\ DOMAIN Over(w, wrShares) = DOMAIN w \cup DOMAIN wrShares
        /\ Over(w, wrShares) \in [DOMAIN w \cup DOMAIN wrShares -> Absentable]
        /\ \A v \in DOMAIN w : Over(w, wrShares)[v] = w[v]
        /\ \A v \in DOMAIN wrShares \ DOMAIN w : Over(w, wrShares)[v] = wrShares[v]
    BY <1>1 DEF Over
  <2>3. QED BY <2>1, <2>2
<1>4. DOMAIN w \cup Validators = Validators
  OBVIOUS
<1>5. /\ \A v \in DOMAIN wrShares' : StatusOf(mem'[v]) = StatusOf(wrShares'[v])
      /\ \A v \in Validators \ (DOMAIN wrShares' \cup left \cup DOMAIN torn) :
           StatusOf(mem'[v]) = Ds(v)
  BY <1>1, <1>2, <1>3 DEF MemoryIsWritten, St
<1>6. MemoryIsWritten'
  BY <1>5 DEF MemoryIsWritten, St, Ds
<1>7. QED BY <1>1, <1>2, <1>3, <1>4, <1>6

-----------------------------------------------------------------------------
(* What a handler does.                                                    *)

EventHandler ==
  \/ HandleValidatorAdded \/ HandleMalformedValidatorAdded \/ HandleValidatorRemoved
  \/ HandleClusterLiquidated \/ HandleClusterReactivated

\* The next event of the block is applied, in memory and in the transaction.
EventHandled ==
  /\ block \in C!Block /\ pos \in 0 .. Len(block) /\ pos + 1 \in 1 .. Len(block)
  /\ pos # None /\ pos' = pos + 1
  /\ UNCHANGED <<enabled, dbVars, block, early, left, torn, phase, sync>>
  /\ mem' \in [Validators -> Absentable]
  /\ wrShares' \in [DOMAIN wrShares' -> Absentable] /\ DOMAIN wrShares' \subseteq Validators
  /\ wrRecords' \in [DOMAIN wrRecords' -> BOOLEAN] /\ DOMAIN wrRecords' \subseteq Validators
  /\ MemoryIsWritten'
  /\ \A v \in Validators :
       StatusOf(mem'[v]) = C!StatusAfter(StatusOf(mem[v]), v, block[pos + 1])
  /\ wrNonce' = IF block[pos + 1].type \in {"add", "addMalformed"} THEN wrNonce + 1 ELSE wrNonce

LEMMA HandlingIs ==
  ASSUME RegistryTypes, NEW t, Handling(t)
  PROVE  /\ block \in C!Block /\ pos \in 0 .. Len(block) /\ pos + 1 \in 1 .. Len(block)
         /\ block[pos + 1].type = t /\ block[pos + 1] \in C!Event
         /\ pos # None
<1>1. block \in C!Block /\ pos \in 0 .. Len(block) /\ pos < Len(block) /\ block[pos + 1].type = t
  BY DEF RegistryTypes, Handling
<1>2. Len(block) \in Nat /\ block \in [1 .. Len(block) -> C!Event]
  BY <1>1, BlockIsSeq
<1>3. pos + 1 \in 1 .. Len(block)
  BY <1>1, <1>2
<1>4. QED BY <1>1, <1>2, <1>3 DEF Handling

\* Events about one validator name one of the owner's.
LEMMA EventValidator ==
  ASSUME NEW e \in C!Event, e.type \in {"add", "addMalformed", "remove"}
  PROVE  e.validator \in Validators
BY DEF C!Event

LEMMA RecordsWritten ==
  ASSUME RegistryTypes, NEW w, w \in [DOMAIN w -> BOOLEAN], DOMAIN w \subseteq Validators,
         wrRecords' = Over(w, wrRecords)
  PROVE  /\ wrRecords' \in [DOMAIN wrRecords' -> BOOLEAN] /\ DOMAIN wrRecords' \subseteq Validators
         /\ DOMAIN wrRecords' = DOMAIN w \cup DOMAIN wrRecords
         /\ \A v \in DOMAIN w : wrRecords'[v] = w[v]
         /\ \A v \in DOMAIN wrRecords \ DOMAIN w : wrRecords'[v] = wrRecords[v]
<1>1. wrRecords \in [DOMAIN wrRecords -> BOOLEAN] /\ DOMAIN wrRecords \subseteq Validators
  BY DEF RegistryTypes
<1>2. QED BY <1>1 DEF Over

LEMMA AddedIsHandled ==
  ASSUME RegistryInv, HandleValidatorAdded
  PROVE  EventHandled
<1> DEFINE c == Current
           e == block[pos + 1]
           new == [liquidated |-> FALSE, metadata |-> FALSE]
<1>1. RegistryTypes /\ MemoryIsWritten
  BY DEF RegistryInv
<1>2. /\ block \in C!Block /\ pos \in 0 .. Len(block) /\ pos + 1 \in 1 .. Len(block)
      /\ e.type = "add" /\ e \in C!Event /\ pos # None
  BY <1>1, HandlingIs DEF HandleValidatorAdded
<1>3. c \in Validators /\ c = e.validator
  BY <1>2, EventValidator DEF Current
<1>4. /\ pos' = pos + 1 /\ UNCHANGED <<enabled, dbVars, block, early, left, torn, phase, sync>> /\ wrNonce' = wrNonce + 1
      /\ UNCHANGED db
  BY DEF HandleValidatorAdded, dbVars, ctrlVars, historyVars
<1>5. mem[c] \in Absentable /\ \A v \in Validators : StatusOf(mem[v]) \in C!Status
  BY <1>1, <1>3, StatusOfIs DEF RegistryTypes
<1>6. ASSUME NEW v \in Validators, NEW s
      PROVE  C!StatusAfter(s, v, e) = IF v = c /\ s = "absent" THEN "active" ELSE s
  BY <1>2, <1>3 DEF C!StatusAfter
<1>7. CASE mem[c] = None /\ HandleShareCreation(c)
  <2> DEFINE w == At(c, new)
  <2>1. new \in Share /\ StatusOf(new) = "active"
    BY StatusOfIs DEF Share
  <2>2. w \in [DOMAIN w -> Absentable] /\ DOMAIN w = {c} /\ w[c] = new
    BY <2>1 DEF At, Absentable
  <2>3. SaveShares(w) /\ wrRecords' = Over(At(c, TRUE), wrRecords)
    BY <1>7 DEF HandleShareCreation
  <2> HIDE DEF w
  <2>4. /\ mem' \in [Validators -> Absentable]
        /\ wrShares' \in [DOMAIN wrShares' -> Absentable] /\ DOMAIN wrShares' \subseteq Validators
        /\ MemoryIsWritten'
        /\ \A v \in Validators : mem'[v] = IF v \in DOMAIN w THEN w[v] ELSE mem[v]
    BY <1>1, <1>3, <1>4, <2>2, <2>3, SaveSharesIs
  <2>5. wrRecords' \in [DOMAIN wrRecords' -> BOOLEAN] /\ DOMAIN wrRecords' \subseteq Validators
    <3>1. At(c, TRUE) \in [DOMAIN At(c, TRUE) -> BOOLEAN] /\ DOMAIN At(c, TRUE) \subseteq Validators
      BY <1>3 DEF At
    <3>2. QED BY <1>1, <2>3, <3>1, RecordsWritten
  <2>6. StatusOf(mem[c]) = "absent"
    BY <1>5, <1>7, StatusOfIs
  <2>7. ASSUME NEW v \in Validators
        PROVE  StatusOf(mem'[v]) = C!StatusAfter(StatusOf(mem[v]), v, e)
    <3>1. CASE v = c
      BY <1>6, <2>1, <2>2, <2>4, <2>6, <3>1
    <3>2. CASE v # c
      BY <1>6, <2>2, <2>4, <3>2
    <3>3. QED BY <3>1, <3>2
  <2>8. QED BY <1>2, <1>4, <2>4, <2>5, <2>7 DEF EventHandled
<1>8. CASE mem[c] # None /\ UNCHANGED <<held, wrRecords, wrShares, mem>>
  <2>1. StatusOf(mem[c]) # "absent"
    BY <1>5, <1>8, StatusOfIs
  <2>2. ASSUME NEW v \in Validators
        PROVE  StatusOf(mem'[v]) = C!StatusAfter(StatusOf(mem[v]), v, e)
    BY <1>6, <1>8, <2>1
  <2>3. MemoryIsWritten'
    BY <1>1, <1>4, <1>8 DEF MemoryIsWritten, St, Ds
  <2>4. QED BY <1>1, <1>2, <1>4, <1>8, <2>2, <2>3 DEF EventHandled, RegistryTypes
<1>9. QED BY <1>7, <1>8 DEF HandleValidatorAdded

LEMMA MalformedIsHandled ==
  ASSUME RegistryInv, HandleMalformedValidatorAdded
  PROVE  EventHandled
<1> DEFINE e == block[pos + 1]
<1>1. RegistryTypes /\ MemoryIsWritten
  BY DEF RegistryInv
<1>2. /\ block \in C!Block /\ pos \in 0 .. Len(block) /\ pos + 1 \in 1 .. Len(block)
      /\ e.type = "addMalformed" /\ pos # None
  BY <1>1, HandlingIs DEF HandleMalformedValidatorAdded
<1>3. /\ pos' = pos + 1 /\ UNCHANGED <<enabled, dbVars, block, early, left, torn, phase, sync>> /\ wrNonce' = wrNonce + 1
      /\ UNCHANGED <<db, wrShares, wrRecords, mem>>
  BY DEF HandleMalformedValidatorAdded, dbVars, ctrlVars, historyVars
<1>4. ASSUME NEW v \in Validators
      PROVE  StatusOf(mem'[v]) = C!StatusAfter(StatusOf(mem[v]), v, e)
  BY <1>2, <1>3 DEF C!StatusAfter
<1>5. MemoryIsWritten'
  BY <1>1, <1>3 DEF MemoryIsWritten, St, Ds
<1>6. QED BY <1>1, <1>2, <1>3, <1>4, <1>5 DEF EventHandled, RegistryTypes

LEMMA RemovedIsHandled ==
  ASSUME RegistryInv, HandleValidatorRemoved
  PROVE  EventHandled
<1> DEFINE c == Current
           e == block[pos + 1]
<1>1. RegistryTypes /\ MemoryIsWritten
  BY DEF RegistryInv
<1>2. /\ block \in C!Block /\ pos \in 0 .. Len(block) /\ pos + 1 \in 1 .. Len(block)
      /\ e.type = "remove" /\ e \in C!Event /\ pos # None
  BY <1>1, HandlingIs DEF HandleValidatorRemoved
<1>3. c \in Validators /\ c = e.validator
  BY <1>2, EventValidator DEF Current
<1>4. /\ pos' = pos + 1 /\ UNCHANGED <<enabled, dbVars, block, early, left, torn, phase, sync>> /\ wrNonce' = wrNonce
      /\ UNCHANGED db
  BY DEF HandleValidatorRemoved, dbVars, historyVars
<1>5. mem[c] \in Absentable /\ None \in Absentable /\ StatusOf(None) = "absent"
  BY <1>1, <1>3, StatusOfIs DEF RegistryTypes, Absentable
<1>6. ASSUME NEW v \in Validators, NEW s
      PROVE  C!StatusAfter(s, v, e) = IF v = c THEN "absent" ELSE s
  BY <1>2, <1>3 DEF C!StatusAfter
<1>7. CASE /\ mem[c] # None
           /\ SaveShares(At(c, None))
           /\ wrRecords' = Over(At(c, FALSE), wrRecords)
  <2> DEFINE w == At(c, None)
  <2>1. w \in [DOMAIN w -> Absentable] /\ DOMAIN w = {c} /\ w[c] = None
    BY <1>5 DEF At
  <2> HIDE DEF w
  <2>2. /\ mem' \in [Validators -> Absentable]
        /\ wrShares' \in [DOMAIN wrShares' -> Absentable] /\ DOMAIN wrShares' \subseteq Validators
        /\ MemoryIsWritten'
        /\ \A v \in Validators : mem'[v] = IF v \in DOMAIN w THEN w[v] ELSE mem[v]
    <3>1. SaveShares(w)
      BY <1>7 DEF w
    <3>2. QED BY <1>1, <1>3, <1>4, <2>1, <3>1, SaveSharesIs
  <2>3. wrRecords' \in [DOMAIN wrRecords' -> BOOLEAN] /\ DOMAIN wrRecords' \subseteq Validators
    <3>1. At(c, FALSE) \in [DOMAIN At(c, FALSE) -> BOOLEAN] /\ DOMAIN At(c, FALSE) \subseteq Validators
      BY <1>3 DEF At
    <3>2. QED BY <1>1, <1>7, <3>1, RecordsWritten
  <2>4. ASSUME NEW v \in Validators
        PROVE  StatusOf(mem'[v]) = C!StatusAfter(StatusOf(mem[v]), v, e)
    BY <1>5, <1>6, <2>1, <2>2
  <2>5. QED BY <1>2, <1>4, <2>2, <2>3, <2>4 DEF EventHandled
<1>8. CASE mem[c] = None /\ UNCHANGED <<mem, wrShares, wrRecords>>
  <2>1. ASSUME NEW v \in Validators
        PROVE  StatusOf(mem'[v]) = C!StatusAfter(StatusOf(mem[v]), v, e)
    BY <1>5, <1>6, <1>8
  <2>2. MemoryIsWritten'
    BY <1>1, <1>4, <1>8 DEF MemoryIsWritten, St, Ds
  <2>3. QED BY <1>1, <1>2, <1>4, <1>8, <2>1, <2>2 DEF EventHandled, RegistryTypes
<1>9. QED BY <1>7, <1>8 DEF HandleValidatorRemoved

\* The shares of the cluster, and what becomes of them.
LEMMA ClusterSharesIs ==
  ASSUME RegistryTypes, NEW l \in BOOLEAN
  PROVE  /\ DOMAIN ClusterShares(l) = {v \in Validators : mem[v] # None}
         /\ ClusterShares(l) \in [DOMAIN ClusterShares(l) -> Absentable]
         /\ \A v \in DOMAIN ClusterShares(l) :
              StatusOf(ClusterShares(l)[v]) = IF l THEN "liquidated" ELSE "active"
<1>1. ASSUME NEW v \in Validators, mem[v] # None
      PROVE  /\ [mem[v] EXCEPT !.liquidated = l] \in Absentable
             /\ StatusOf([mem[v] EXCEPT !.liquidated = l]) = IF l THEN "liquidated" ELSE "active"
  <2>1. mem[v] \in Share
    BY <1>1 DEF RegistryTypes, Absentable
  <2>2. QED BY <2>1, FlaggedIs DEF Absentable
<1>2. QED BY <1>1 DEF ClusterShares

LEMMA ClusterIsHandled ==
  ASSUME RegistryInv, HandleClusterLiquidated \/ HandleClusterReactivated
  PROVE  EventHandled
<1> DEFINE l == block[pos + 1].type = "liquidate"
           e == block[pos + 1]
           w == ClusterShares(l)
<1>1. RegistryTypes /\ MemoryIsWritten
  BY DEF RegistryInv
<1>2. /\ block \in C!Block /\ pos \in 0 .. Len(block) /\ pos + 1 \in 1 .. Len(block)
      /\ e.type = IF l THEN "liquidate" ELSE "reactivate"
      /\ pos # None
  BY <1>1, HandlingIs DEF HandleClusterLiquidated, HandleClusterReactivated
<1>3. /\ pos' = pos + 1 /\ UNCHANGED <<enabled, dbVars, block, early, left, torn, phase, sync>> /\ wrNonce' = wrNonce
      /\ UNCHANGED db
  BY DEF HandleClusterLiquidated, HandleClusterReactivated, dbVars, historyVars
<1>4. SaveShares(w)
  <2>1. CASE HandleClusterLiquidated
    <3>1. l = TRUE
      BY <2>1 DEF HandleClusterLiquidated, Handling
    <3>2. QED BY <2>1, <3>1 DEF HandleClusterLiquidated
  <2>2. CASE HandleClusterReactivated
    <3>1. l = FALSE
      BY <2>2 DEF HandleClusterReactivated, Handling
    <3>2. QED BY <2>2, <3>1 DEF HandleClusterReactivated
  <2>3. QED BY <2>1, <2>2
<1>5. /\ DOMAIN w = {v \in Validators : mem[v] # None} /\ w \in [DOMAIN w -> Absentable]
      /\ \A v \in DOMAIN w : StatusOf(w[v]) = IF l THEN "liquidated" ELSE "active"
  BY <1>1, ClusterSharesIs
<1>6. wrRecords' \in [DOMAIN wrRecords' -> BOOLEAN] /\ DOMAIN wrRecords' \subseteq Validators
  <2>1. CASE HandleClusterLiquidated
    BY <1>1, <2>1 DEF HandleClusterLiquidated, RegistryTypes
  <2>2. CASE HandleClusterReactivated
    <3> DEFINE u == [v \in DOMAIN ClusterShares(FALSE) |-> TRUE]
    <3>1. u \in [DOMAIN u -> BOOLEAN] /\ DOMAIN u \subseteq Validators
      BY DEF ClusterShares
    <3>2. wrRecords' = Over(u, wrRecords)
      BY <2>2 DEF HandleClusterReactivated
    <3> HIDE DEF u
    <3>3. QED BY <1>1, <3>1, <3>2, RecordsWritten
  <2>3. QED BY <2>1, <2>2
<1> HIDE DEF w
<1>7. /\ mem' \in [Validators -> Absentable]
      /\ wrShares' \in [DOMAIN wrShares' -> Absentable] /\ DOMAIN wrShares' \subseteq Validators
      /\ MemoryIsWritten'
      /\ \A v \in Validators : mem'[v] = IF v \in DOMAIN w THEN w[v] ELSE mem[v]
  BY <1>1, <1>3, <1>4, <1>5, SaveSharesIs
<1>8. ASSUME NEW v \in Validators
      PROVE  StatusOf(mem'[v]) = C!StatusAfter(StatusOf(mem[v]), v, e)
  <2>1. StatusOf(mem[v]) = "absent" <=> mem[v] = None
    BY <1>1, StatusOfIs DEF RegistryTypes
  <2>2. CASE mem[v] = None
    BY <1>2, <1>5, <1>7, <2>1, <2>2 DEF C!StatusAfter
  <2>3. CASE mem[v] # None
    BY <1>2, <1>5, <1>7, <2>1, <2>3 DEF C!StatusAfter
  <2>4. QED BY <2>2, <2>3
<1>9. QED BY <1>2, <1>3, <1>6, <1>7, <1>8 DEF EventHandled

LEMMA HandlersHandle ==
  ASSUME RegistryInv, EventHandler
  PROVE  EventHandled
BY AddedIsHandled, MalformedIsHandled, RemovedIsHandled, ClusterIsHandled DEF EventHandler

-----------------------------------------------------------------------------
(* The invariant is inductive.                                             *)

\* A share added now was, had it been there from the beginning, not liquidated
\* by the block so far.
LEMMA LegalAddIsActive ==
  ASSUME NEW b \in C!Block, LegalAdds(b), NEW v \in Validators, NEW n \in 0 .. Len(b),
         n + 1 \in 1 .. Len(b), b[n + 1].type = "add"
  PROVE  RunOf(b, v, "active", n) # "liquidated"
<1>1. Len(b) \in Nat /\ DOMAIN b = 1 .. Len(b)
  BY BlockIsSeq
<1>2. SUFFICES ASSUME RunOf(b, v, "active", n) = "liquidated" PROVE FALSE
  OBVIOUS
<1>3. PICK i \in 1 .. n : /\ b[i].type = "liquidate"
                          /\ \A j \in i + 1 .. n : b[j].type # "reactivate"
  BY <1>2, RunLiquidated
<1>4. (n + 1) - 1 = n
  BY <1>1
<1>5. \/ \A k \in 1 .. n : b[k].type # "liquidate"
      \/ \E k \in 1 .. n : /\ b[k].type = "reactivate"
                           /\ \A j \in k + 1 .. n : b[j].type # "liquidate"
  BY <1>1, <1>4 DEF LegalAdds
<1>6. PICK k \in 1 .. n : /\ b[k].type = "reactivate"
                          /\ \A j \in k + 1 .. n : b[j].type # "liquidate"
  BY <1>3, <1>5
<1>7. i = k \/ i \in k + 1 .. n \/ k \in i + 1 .. n
  BY <1>1
<1>8. QED BY <1>3, <1>6, <1>7

LEMMA EventKeepsInv ==
  ASSUME RegistryInv, EventHandled
  PROVE  RegistryInv'
<1> DEFINE e == block[pos + 1]
<1>1. /\ RegistryTypes /\ NothingPends /\ MemoryIsWritten /\ MemoryFollowsBlock
      /\ EarlyWritesAreHarmless
  BY DEF RegistryInv
<1>2. /\ block \in C!Block /\ pos \in 0 .. Len(block) /\ pos + 1 \in 1 .. Len(block)
      /\ pos # None /\ pos' = pos + 1 /\ (pos + 1) - 1 = pos
      /\ block' = block /\ early' = early /\ db' = db /\ nonce' = nonce
      /\ torn' = torn /\ left' = left /\ phase' = phase /\ sync' = sync
  <2>1. block \in C!Block
    BY DEF EventHandled
  <2>2. Len(block) \in Nat
    BY <2>1, BlockIsSeq
  <2>3. QED BY <2>1, <2>2 DEF EventHandled, dbVars
<1>3. RegistryTypes'
  BY <1>1, <1>2 DEF EventHandled, RegistryTypes
<1>4. pos' # None /\ block # <<>>
  <2>1. Len(block) \in 0 .. MaxEvents /\ block # <<>>
    BY <1>2, BlockIsSeq
  <2>2. pos' \in 0 .. MaxEvents
    BY <1>2, <2>1, RegistryAssumption
  <2>3. QED BY <2>1, <2>2, RegistryAssumption
<1>5. NothingPends'
  BY <1>1, <1>2, <1>4 DEF NothingPends
<1>6. \A v \in Validators : Ds(v)' = Ds(v) /\ Ms(v)' = Ms(v)
  BY <1>2 DEF Ds, Ms
<1>7. EarlyWritesAreHarmless'
  <2>1. \A v \in Validators \ DOMAIN torn :
          RunOf(block, v, Ds(v), Len(block)) = RunOf(block, v, Ms(v), Len(block))
    BY <1>1, <1>4 DEF EarlyWritesAreHarmless
  <2>2. QED BY <1>2, <1>6, <2>1 DEF EarlyWritesAreHarmless
<1>8. wrNonce' = C!AppliedPrefixes(Before, block)[pos + 1].nonce
  <2>1. wrNonce = C!AppliedPrefixes(Before, block)[pos].nonce
    BY <1>1, <1>2 DEF MemoryFollowsBlock
  <2> DEFINE f == C!AppliedPrefixes(Before, block)
  <2>2. f[pos + 1] = C!Applied(f[pos], e)
    <3>1. f[pos + 1] = C!Applied(f[(pos + 1) - 1], e)
      BY <1>2, PrefixStep
    <3>2. QED BY <1>2, <3>1
  <2> HIDE DEF f
  <2>3. f[pos + 1].nonce = IF e.type \in {"add", "addMalformed"} THEN f[pos].nonce + 1 ELSE f[pos].nonce
    BY <2>2, AppliedIs
  <2>4. wrNonce' = IF e.type \in {"add", "addMalformed"} THEN wrNonce + 1 ELSE wrNonce
    BY DEF EventHandled
  <2>5. QED BY <2>1, <2>3, <2>4 DEF f
<1>9. ASSUME NEW v \in Validators \ DOMAIN torn
      PROVE  \E s \in C!Status :
                 /\ StatusOf(mem'[v]) = RunOf(block, v, s, pos + 1)
                 /\ RunOf(block, v, s, Len(block)) = RunOf(block, v, Ms(v), Len(block))
  <2>1. PICK s \in C!Status : /\ St(v) = RunOf(block, v, s, pos)
                              /\ RunOf(block, v, s, Len(block)) = RunOf(block, v, Ms(v), Len(block))
    BY <1>1, <1>2 DEF MemoryFollowsBlock
  <2>2. StatusOf(mem'[v]) = C!StatusAfter(StatusOf(mem[v]), v, e)
    BY DEF EventHandled
  <2>3. RunOf(block, v, s, pos + 1) = C!StatusAfter(RunOf(block, v, s, pos), v, e)
    <3>1. RunOf(block, v, s, pos + 1) = C!StatusAfter(RunOf(block, v, s, (pos + 1) - 1), v, e)
      BY <1>2, RunSteps
    <3>2. QED BY <1>2, <3>1
  <2>4. QED BY <2>1, <2>2, <2>3 DEF St
<1>10. ASSUME NEW v \in Validators \ DOMAIN torn
       PROVE  RunOf(block, v, StatusOf(mem'[v]), pos + 1) = StatusOf(mem'[v])
  <2> DEFINE s == StatusOf(mem[v])
             t == StatusOf(mem'[v])
  <2>1. t = C!StatusAfter(s, v, e)
    BY DEF EventHandled
  <2>2. RunOf(block, v, s, pos) = s
    BY <1>1, <1>2 DEF MemoryFollowsBlock, St
  <2>3. s \in C!Status
    BY <1>1, StatusOfIs DEF RegistryTypes
  <2>4. \A x : RunOf(block, v, x, pos + 1) = C!StatusAfter(RunOf(block, v, x, pos), v, e)
    <3>1. \A x : RunOf(block, v, x, pos + 1) = C!StatusAfter(RunOf(block, v, x, (pos + 1) - 1), v, e)
      BY <1>2, RunSteps
    <3>2. QED BY <1>2, <3>1
  <2>5. RunOf(block, v, "active", pos) = "absent" <=> RunOf(block, v, "liquidated", pos) = "absent"
    BY <1>2, RunAbsent
  <2>6. \A x \in C!Status : RunOf(block, v, x, pos) \in C!Status
    BY <1>2, RunStatus
  <2>7. e.type = "add" => RunOf(block, v, "active", pos) # "liquidated"
    BY <1>1, <1>2, LegalAddIsActive DEF MemoryFollowsBlock
  <2> HIDE DEF s, t, e
  <2>8. CASE s = "absent" /\ t # s
    <3>1. e.type = "add" /\ e.validator = v /\ t = "active"
      BY <2>1, <2>8 DEF C!StatusAfter
    <3>2. RunOf(block, v, "active", pos) \in {"active", "absent"}
      BY <2>6, <2>7, <3>1 DEF C!Status
    <3>3. C!StatusAfter(RunOf(block, v, "active", pos), v, e) = "active"
      BY <3>1, <3>2 DEF C!StatusAfter
    <3>4. QED BY <2>4, <3>1, <3>3 DEF t
  <2>9. CASE t = s
    BY <2>1, <2>2, <2>4, <2>9 DEF t
  <2>10. CASE s # "absent" /\ t = "absent"
    <3>1. e.type = "remove" /\ e.validator = v
      BY <2>1, <2>3, <2>10 DEF C!StatusAfter
    <3>2. C!StatusAfter(RunOf(block, v, t, pos), v, e) = "absent"
      BY <3>1 DEF C!StatusAfter
    <3>3. QED BY <2>4, <2>10, <3>2 DEF t
  <2>11. CASE s # "absent" /\ t # s /\ t # "absent"
    <3>1. \/ e.type = "liquidate" /\ t = "liquidated"
          \/ e.type = "reactivate" /\ t = "active"
      BY <2>1, <2>11 DEF C!StatusAfter
    <3>2. t \in {"active", "liquidated"} /\ s \in {"active", "liquidated"}
      BY <2>3, <2>11, <3>1 DEF C!Status
    <3>3. RunOf(block, v, t, pos) # "absent"
      BY <2>2, <2>5, <2>11, <3>2
    <3>4. C!StatusAfter(RunOf(block, v, t, pos), v, e) = t
      BY <3>1, <3>3 DEF C!StatusAfter
    <3>5. QED BY <2>4, <3>4 DEF t
  <2>12. QED BY <2>8, <2>9, <2>10, <2>11
<1>11. MemoryFollowsBlock'
  <2>1. LegalAdds(block)'
    BY <1>1, <1>2 DEF MemoryFollowsBlock, LegalAdds
  <2>2. Before' = Before
    BY <1>2, <1>6 DEF Before
  <2>3. wrNonce' = C!AppliedPrefixes(Before', block')[pos'].nonce
    BY <1>2, <1>8, <2>2
  <2>4. ASSUME NEW v \in Validators \ DOMAIN torn
        PROVE  /\ \E s \in C!Status :
                   /\ St(v)' = RunOf(block', v, s, pos')
                   /\ RunOf(block', v, s, Len(block')) = RunOf(block', v, Ms(v)', Len(block'))
               /\ RunOf(block', v, St(v)', pos') = St(v)'
    BY <1>2, <1>6, <1>9, <1>10 DEF St
  <2>5. QED BY <1>2, <1>4, <2>1, <2>3, <2>4 DEF MemoryFollowsBlock
<1>12. QED BY <1>3, <1>5, <1>7, <1>11 DEF RegistryInv, EventHandled

\* Steps of the controller and of the syncer that leave the registry alone.
Inert ==
  /\ UNCHANGED <<dbVars, held, enabled, block, txnVars, mem, early, left, torn>>
  /\ sync' = None \/ sync' \in SyncRound \/ UNCHANGED sync
  /\ phase' = "history" => phase = "history" /\ UNCHANGED sync
  /\ phase = "history" => phase' = "history" \/ AtRest

LEMMA StepCases ==
  ASSUME [Next]_vars
  PROVE  \/ \E b \in C!Block : NewBlock(b)
         \/ BeginBlock \/ CommitBlock \/ HandlerFails \/ EventHandler \/ Crash \/ Inert
         \/ \E vs \in SUBSET Validators : UpdateValidatorsMetadata(vs) \/ SaveToDBFails(vs)
<1>1. CASE UNCHANGED vars
  BY <1>1 DEF vars, Inert, ctrlVars, historyVars
<1>2. ASSUME NEW vs \in SUBSET Validators, AskMetadata(vs) PROVE Inert
  <2>1. {v \in vs : ~mem[v].metadata} \in SUBSET Validators
    OBVIOUS
  <2>2. sync' \in SyncRound
    BY <1>2, <2>1 DEF AskMetadata, SyncRound
  <2>3. QED BY <1>2, <2>2 DEF AskMetadata, Inert, ctrlVars, historyVars
<1>3. CASE \/ ExecuteTask \/ HistoryDone \/ InitValidators \/ StartListed \/ Started
  BY <1>3 DEF ExecuteTask, HistoryDone, InitValidators, StartListed, Started, Inert, historyVars
<1>4. CASE SyncFails \/ InitialSyncDone \/ HandleMetadataUpdate \/ UpdateSendTimeout
  BY <1>4 DEF SyncFails, InitialSyncDone, HandleMetadataUpdate, UpdateSendTimeout, Inert,
              ctrlVars, historyVars
<1>5. QED BY <1>1, <1>2, <1>3, <1>4 DEF Next, EventHandler

LEMMA InitHoldsInv ==
  ASSUME Init
  PROVE  RegistryInv
<1>1. RegistryTypes
  BY RegistryAssumption DEF Init, RegistryTypes, Empty, Absentable
<1>2. NothingPends
  BY DEF Init, NothingPends, Empty
<1>3. MemoryIsWritten
  BY DEF Init, MemoryIsWritten, St, Ds, Empty
<1>4. MemoryFollowsBlock
  BY DEF Init, MemoryFollowsBlock, LegalAdds
<1>5. EarlyWritesAreHarmless
  BY DEF Init, EarlyWritesAreHarmless
<1>6. QED BY <1>1, <1>2, <1>3, <1>4, <1>5 DEF RegistryInv

\* The contract's rule for the events of a block.
LEMMA LegalIsLegalAdds ==
  ASSUME NEW b \in C!Block, C!Legal(b)
  PROVE  LegalAdds(b)
<1>1. ASSUME NEW n \in DOMAIN b, b[n].type = "add"
      PROVE  C!EnabledAfter(b, n - 1)
  BY <1>1 DEF C!Legal
<1>2. QED BY <1>1 DEF C!EnabledAfter, LegalAdds

LEMMA NewBlockKeepsInv ==
  ASSUME RegistryInv, NEW b \in C!Block, NewBlock(b)
  PROVE  RegistryInv'
<1>1. /\ RegistryTypes /\ NothingPends /\ MemoryIsWritten /\ MemoryFollowsBlock
      /\ EarlyWritesAreHarmless
  BY DEF RegistryInv
<1>2. /\ block = <<>> /\ pos = None /\ block' = b /\ C!Legal(b)
      /\ UNCHANGED <<pos, wrShares, wrRecords, wrNonce, mem, db, nonce, early, left, torn,
                     phase, sync>>
  BY DEF NewBlock, AtRest, txnVars, dbVars, ctrlVars, historyVars
<1>3. RegistryTypes'
  BY <1>1, <1>2 DEF RegistryTypes
<1>4. b # <<>>
  BY BlockIsSeq
<1>5. NothingPends'
  BY <1>1, <1>2, <1>4 DEF NothingPends
<1>6. /\ MemoryIsWritten' /\ DOMAIN wrShares = {} /\ left = {}
      /\ \A v \in Validators : Ds(v)' = Ds(v) /\ Ms(v)' = Ms(v) /\ St(v)' = St(v)
  BY <1>1, <1>2 DEF MemoryIsWritten, NothingPends, St, Ds, Ms
<1>7. \A v \in Validators \ DOMAIN torn : St(v) = Ds(v) /\ Ms(v) = Ds(v)
  BY <1>1, <1>2, <1>6 DEF MemoryIsWritten, NothingPends, Ms
<1>8. MemoryFollowsBlock'
  <2>1. LegalAdds(b)
    BY <1>2, LegalIsLegalAdds
  <2>2. LegalAdds(block)'
    BY <1>2, <2>1 DEF LegalAdds
  <2>3. QED BY <1>2, <1>6, <1>7, <2>2 DEF MemoryFollowsBlock
<1>9. EarlyWritesAreHarmless'
  BY <1>2, <1>6, <1>7 DEF EarlyWritesAreHarmless
<1>10. QED BY <1>3, <1>5, <1>6, <1>8, <1>9 DEF RegistryInv

LEMMA BeginBlockKeepsInv ==
  ASSUME RegistryInv, BeginBlock
  PROVE  RegistryInv'
<1>1. /\ RegistryTypes /\ NothingPends /\ MemoryIsWritten /\ MemoryFollowsBlock
      /\ EarlyWritesAreHarmless
  BY DEF RegistryInv
<1>2. /\ block # <<>> /\ pos = None /\ pos' = 0
      /\ wrShares' = Empty /\ wrRecords' = Empty /\ wrNonce' = nonce
      /\ UNCHANGED <<block, mem, db, nonce, early, left, torn, phase, sync>>
  BY DEF BeginBlock, dbVars, ctrlVars, historyVars
<1>3. block \in C!Block /\ Len(block) \in Nat
  BY <1>1, <1>2, BlockIsSeq DEF RegistryTypes
<1>4. DOMAIN Empty = {} /\ Empty \in [{} -> Absentable] /\ Empty \in [{} -> BOOLEAN]
  BY DEF Empty
<1>5. RegistryTypes'
  BY <1>1, <1>2, <1>3, <1>4 DEF RegistryTypes
<1>6. pos' # None
  BY <1>2, RegistryAssumption
<1>7. NothingPends'
  BY <1>1, <1>2, <1>6 DEF NothingPends
<1>8. DOMAIN wrShares = {}
  BY <1>1, <1>2 DEF NothingPends
<1>9. MemoryIsWritten'
  BY <1>1, <1>2, <1>4, <1>8 DEF MemoryIsWritten, St, Ds
<1>10. \A v \in Validators : Ds(v)' = Ds(v) /\ Ms(v)' = Ms(v) /\ St(v)' = St(v)
  BY <1>2 DEF Ds, Ms, St
<1>11. \A v \in Validators \ DOMAIN torn :
         /\ RunOf(block, v, Ds(v), Len(block)) = RunOf(block, v, Ms(v), Len(block))
         /\ RunOf(block, v, St(v), Len(block)) = RunOf(block, v, Ms(v), Len(block))
  BY <1>1, <1>2 DEF EarlyWritesAreHarmless, MemoryFollowsBlock
<1>12. EarlyWritesAreHarmless'
  BY <1>2, <1>10, <1>11 DEF EarlyWritesAreHarmless
<1>13. MemoryFollowsBlock'
  <2>1. LegalAdds(block)'
    BY <1>1, <1>2 DEF MemoryFollowsBlock, LegalAdds
  <2>2. Before' = Before
    BY <1>2, <1>10 DEF Before
  <2>3. wrNonce' = C!AppliedPrefixes(Before', block')[pos'].nonce
    <3>1. C!AppliedPrefixes(Before, block)[0] = Before
      BY <1>3, PrefixStep
    <3>2. Before.nonce = nonce
      BY DEF Before
    <3>3. QED BY <1>2, <2>2, <3>1, <3>2
  <2>4. ASSUME NEW v \in Validators \ DOMAIN torn
        PROVE  /\ \E s \in C!Status :
                   /\ St(v)' = RunOf(block', v, s, pos')
                   /\ RunOf(block', v, s, Len(block')) = RunOf(block', v, Ms(v)', Len(block'))
               /\ RunOf(block', v, St(v)', pos') = St(v)'
    <3>1. St(v) \in C!Status
      BY <1>1, StatusOfIs DEF RegistryTypes, St
    <3>2. \A x : RunOf(block, v, x, 0) = x
      BY <1>3, RunStart
    <3>3. QED BY <1>2, <1>10, <1>11, <3>1, <3>2
  <2>5. QED BY <1>2, <1>6, <2>1, <2>3, <2>4 DEF MemoryFollowsBlock
<1>14. QED BY <1>5, <1>7, <1>9, <1>12, <1>13 DEF RegistryInv

\* What the contract has after the block.
LEMMA PromisedIs ==
  ASSUME RegistryTypes, block \in C!Block
  PROVE  /\ Before = [members |-> Members, nonce |-> nonce]
         /\ Promised = [v \in Validators |-> Promised[v]]
         /\ \A v \in Validators : /\ Ms(v) \in C!Status /\ Promised[v] \in C!Status
                                  /\ Promised[v] = RunOf(block, v, Ms(v), Len(block))
<1>1. Before = [members |-> Members, nonce |-> nonce]
  BY DEF Before, Members, Ms, Ds
<1>2. Len(block) \in 1 .. Len(block) /\ Len(block) \in 0 .. Len(block)
  BY BlockIsSeq
<1>3. Promised = C!AppliedPrefixes(Before, block)[Len(block)].members
  BY <1>1 DEF Promised, C!AppliedBlock
<1>4. C!AppliedPrefixes(Before, block)[Len(block)]
        = C!Applied(C!AppliedPrefixes(Before, block)[Len(block) - 1], block[Len(block)])
  BY <1>2, PrefixStep
<1>5. Promised = [v \in Validators |-> Promised[v]]
  BY <1>3, <1>4 DEF C!Applied
<1>6. ASSUME NEW v \in Validators
      PROVE  /\ Ms(v) \in C!Status /\ Promised[v] \in C!Status
             /\ Promised[v] = RunOf(block, v, Ms(v), Len(block))
  <2>1. Ms(v) \in C!Status
    BY StatusOfIs DEF Ms, Ds, RegistryTypes
  <2>2. C!AppliedPrefixes(Before, block)[Len(block)].members[v]
          = RunOf(block, v, Before.members[v], Len(block))
    BY <1>2, PrefixMembers
  <2>3. Before.members[v] = Ms(v)
    BY DEF Before
  <2>4. Promised[v] = RunOf(block, v, Ms(v), Len(block))
    BY <1>3, <2>2, <2>3
  <2>5. QED BY <1>2, <2>1, <2>4, RunStatus
<1>7. QED BY <1>1, <1>5, <1>6

\* What a commit writes is what the block's events make of the registry, but
\* for what torn has of it.
LEMMA CommitWrites ==
  ASSUME RegistryInv, CommitBlock
  PROVE  /\ block \in C!Block /\ block' = <<>> /\ pos' = None /\ pos \in Nat /\ pos = Len(block)
         /\ db' \in [Validators -> Absentable]
         /\ torn' \in [DOMAIN torn' -> C!Status] /\ DOMAIN torn' \subseteq Validators
         /\ \A v \in Validators : Ms(v)' = RunOf(block, v, Ms(v), Len(block))
         /\ \A v \in Validators \ DOMAIN torn' : Ds(v)' = St(v)
         /\ nonce' = C!AppliedPrefixes(Before, block)[Len(block)].nonce
<1> DEFINE touched == DOMAIN torn \cup left \cup DOMAIN early
           broken == {w \in touched :
                        \/ StatusOf(db'[w]) # Promised[w] \/ StatusOf(mem[w]) # Promised[w]
                        \/ mem[w] # None /\ (w \notin records' \/ w \notin held)}
<1>1. RegistryTypes /\ MemoryIsWritten /\ MemoryFollowsBlock
  BY DEF RegistryInv
<1>2. /\ pos # None /\ pos = Len(block) /\ db' = Over(wrShares, db) /\ nonce' = wrNonce
      /\ block' = <<>> /\ pos' = None /\ early' = Empty
      /\ torn' = [v \in broken |-> Promised[v]]
  BY DEF CommitBlock
<1>3. block \in C!Block /\ pos \in 0 .. Len(block) /\ Len(block) \in Nat
  BY <1>1, <1>2, BlockIsSeq DEF RegistryTypes
<1>4. /\ db' \in [Validators -> Absentable]
      /\ \A v \in Validators : db'[v] = IF v \in DOMAIN wrShares THEN wrShares[v] ELSE db[v]
  <2>1. /\ wrShares \in [DOMAIN wrShares -> Absentable] /\ DOMAIN wrShares \subseteq Validators
        /\ db \in [Validators -> Absentable]
    BY <1>1 DEF RegistryTypes
  <2>2. DOMAIN wrShares \cup DOMAIN db = Validators
    BY <2>1
  <2>3. QED BY <1>2, <2>1, <2>2 DEF Over
<1>5. /\ touched \subseteq Validators
      /\ \A v \in touched \ broken : StatusOf(db'[v]) = Promised[v] /\ StatusOf(mem[v]) = Promised[v]
  BY <1>1 DEF RegistryTypes
<1>6. \A v \in Validators : /\ Promised[v] \in C!Status
                            /\ Promised[v] = RunOf(block, v, Ms(v), Len(block))
  BY <1>1, <1>3, PromisedIs
<1>7. broken \subseteq touched
  OBVIOUS
<1> HIDE DEF broken
<1>8. /\ torn' \in [DOMAIN torn' -> C!Status] /\ DOMAIN torn' = broken
      /\ \A v \in broken : torn'[v] = Promised[v]
  BY <1>2, <1>5, <1>6, <1>7
<1>9. ASSUME NEW v \in Validators \ broken
      PROVE  Ds(v)' = St(v) /\ Ds(v)' = Promised[v]
  <2>1. CASE v \in touched
    BY <1>5, <2>1 DEF Ds, St
  <2>2. CASE v \notin touched
    <3>1. Ds(v)' = St(v)
      BY <1>1, <1>4, <2>2 DEF MemoryIsWritten, Ds
    <3>2. PICK s \in C!Status : /\ St(v) = RunOf(block, v, s, pos)
                                /\ RunOf(block, v, s, Len(block)) = RunOf(block, v, Ms(v), Len(block))
      BY <1>1, <1>2, <2>2 DEF MemoryFollowsBlock
    <3>3. QED BY <1>2, <1>6, <3>1, <3>2
  <2>3. QED BY <2>1, <2>2
<1>10. ASSUME NEW v \in Validators
       PROVE  Ms(v)' = RunOf(block, v, Ms(v), Len(block))
  <2>1. Ms(v)' = IF v \in broken THEN Promised[v] ELSE Ds(v)'
    BY <1>2, <1>8 DEF Ms, Empty
  <2>2. QED BY <1>6, <1>9, <2>1
<1>11. nonce' = C!AppliedPrefixes(Before, block)[Len(block)].nonce
  BY <1>1, <1>2 DEF MemoryFollowsBlock
<1>12. QED BY <1>2, <1>3, <1>4, <1>5, <1>7, <1>8, <1>9, <1>10, <1>11

LEMMA CommitBlockKeepsInv ==
  ASSUME RegistryInv, CommitBlock
  PROVE  RegistryInv'
<1>1. RegistryTypes /\ NothingPends
  BY DEF RegistryInv
<1>2. /\ block' = <<>> /\ pos' = None /\ early' = Empty /\ left' = {} /\ mem' = mem
      /\ wrShares' = Empty /\ wrRecords' = Empty /\ UNCHANGED <<phase, sync>>
  BY DEF CommitBlock, ctrlVars
<1>3. /\ DOMAIN Empty = {} /\ Empty \in [{} -> Absentable] /\ Empty \in [{} -> BOOLEAN]
      /\ Empty \in [{} -> C!Status]
  BY DEF Empty
<1>4. /\ db' \in [Validators -> Absentable] /\ \A v \in Validators \ DOMAIN torn' : Ds(v)' = St(v)
      /\ torn' \in [DOMAIN torn' -> C!Status] /\ DOMAIN torn' \subseteq Validators
  BY CommitWrites
<1>5. RegistryTypes'
  BY <1>1, <1>2, <1>3, <1>4 DEF RegistryTypes
<1>6. NothingPends'
  BY <1>1, <1>2, <1>3 DEF NothingPends
<1>7. MemoryIsWritten'
  BY <1>2, <1>3, <1>4 DEF MemoryIsWritten, St, Ds
<1>8. MemoryFollowsBlock' /\ EarlyWritesAreHarmless'
  BY <1>2 DEF MemoryFollowsBlock, LegalAdds, EarlyWritesAreHarmless
<1>9. QED BY <1>5, <1>6, <1>7, <1>8 DEF RegistryInv

\* Where memory stands leads to what the block promises from its beginning, too.
LEMMA MemoryStartsAnew ==
  ASSUME RegistryInv, block # <<>>, NEW v \in Validators \ DOMAIN torn
  PROVE  RunOf(block, v, St(v), Len(block)) = RunOf(block, v, Ms(v), Len(block))
<1>1. RegistryTypes /\ MemoryFollowsBlock
  BY DEF RegistryInv
<1>2. CASE pos = None
  BY <1>1, <1>2 DEF MemoryFollowsBlock
<1>3. CASE pos # None
  <2>1. block \in C!Block /\ pos \in 0 .. Len(block)
    BY <1>1, <1>3 DEF RegistryTypes
  <2>2. RunOf(block, v, St(v), pos) = St(v)
    BY <1>1, <1>3 DEF MemoryFollowsBlock
  <2>3. PICK s \in C!Status : /\ St(v) = RunOf(block, v, s, pos)
                              /\ RunOf(block, v, s, Len(block)) = RunOf(block, v, Ms(v), Len(block))
    BY <1>1, <1>3 DEF MemoryFollowsBlock
  <2> DEFINE x == St(v)
  <2>4. RunOf(block, v, x, pos) = RunOf(block, v, s, pos)
    BY <2>2, <2>3
  <2> HIDE DEF x
  <2>5. RunOf(block, v, x, Len(block)) = RunOf(block, v, s, Len(block))
    BY <2>1, <2>4, RunsMerge
  <2>6. QED BY <2>3, <2>5 DEF x
<1>4. QED BY <1>2, <1>3

\* A try is discarded: memory keeps what it did, and what it did not finish.
LEMMA HandlerFailsKeepsInv ==
  ASSUME RegistryInv, HandlerFails
  PROVE  RegistryInv'
<1>1. /\ RegistryTypes /\ NothingPends /\ MemoryIsWritten /\ MemoryFollowsBlock
      /\ EarlyWritesAreHarmless
  BY DEF RegistryInv
<1>2. /\ pos # None /\ phase = "history" /\ pos' = None /\ wrShares' = Empty /\ wrRecords' = Empty
      /\ UNCHANGED <<block, db, nonce, phase, sync, early, torn>>
      /\ left' = left \cup {v \in Validators : StatusOf(mem'[v]) # StatusOf(db[v])}
  BY DEF HandlerFails, dbVars, ctrlVars
<1>3. block \in C!Block /\ pos \in 0 .. Len(block) /\ Len(block) \in Nat /\ block # <<>>
  BY <1>1, <1>2, BlockIsSeq DEF RegistryTypes
<1>4. DOMAIN Empty = {} /\ Empty \in [{} -> Absentable] /\ Empty \in [{} -> BOOLEAN]
  BY DEF Empty
<1>5. CASE UNCHANGED mem
  <2>1. RegistryTypes'
    BY <1>1, <1>2, <1>4, <1>5 DEF RegistryTypes
  <2>2. NothingPends'
    BY <1>1, <1>2, <1>3, <1>4 DEF NothingPends
  <2>3. MemoryIsWritten'
    BY <1>2, <1>4 DEF MemoryIsWritten, St, Ds
  <2>4. \A v \in Validators : Ds(v)' = Ds(v) /\ Ms(v)' = Ms(v) /\ St(v)' = St(v)
    BY <1>2, <1>5 DEF Ds, Ms, St
  <2>5. \A v \in Validators \ DOMAIN torn :
          RunOf(block, v, St(v), Len(block)) = RunOf(block, v, Ms(v), Len(block))
    BY <1>3, MemoryStartsAnew
  <2>6. MemoryFollowsBlock' /\ EarlyWritesAreHarmless'
    BY <1>1, <1>2, <2>4, <2>5 DEF MemoryFollowsBlock, EarlyWritesAreHarmless, LegalAdds
  <2>7. QED BY <2>1, <2>2, <2>3, <2>6 DEF RegistryInv
<1>6. CASE Handling("remove") /\ mem[Current] # None /\ mem' = Over(At(Current, None), mem)
  <2> DEFINE c == Current
             e == block[pos + 1]
  <2>1. e.type = "remove" /\ e \in C!Event /\ pos + 1 \in 1 .. Len(block)
    BY <1>1, <1>6, HandlingIs
  <2>2. c \in Validators /\ c = e.validator
    BY <2>1, EventValidator DEF Current
  <2>3. mem' \in [Validators -> Absentable] /\ \A v \in Validators : mem'[v] = IF v = c THEN None ELSE mem[v]
    <3>1. /\ DOMAIN Over(At(c, None), mem) = {c} \cup Validators
          /\ Over(At(c, None), mem) = [v \in {c} \cup Validators |-> IF v = c THEN None ELSE mem[v]]
      BY <1>1 DEF Over, At, RegistryTypes
    <3>2. {c} \cup Validators = Validators
      BY <2>2
    <3>3. QED BY <1>1, <1>6, <3>1, <3>2 DEF RegistryTypes, Absentable
  <2>4. RegistryTypes'
    BY <1>1, <1>2, <1>4, <2>3 DEF RegistryTypes
  <2>5. NothingPends'
    BY <1>1, <1>2, <1>3, <1>4 DEF NothingPends
  <2>6. MemoryIsWritten'
    BY <1>2, <1>4 DEF MemoryIsWritten, St, Ds
  <2>7. /\ \A v \in Validators : Ds(v)' = Ds(v) /\ Ms(v)' = Ms(v)
        /\ \A v \in Validators : St(v)' = IF v = c THEN "absent" ELSE St(v)
    <3>1. StatusOf(None) = "absent"
      BY DEF StatusOf
    <3>2. QED BY <1>2, <2>3, <3>1 DEF Ds, Ms, St
  <2>8. ASSUME c \notin DOMAIN torn
        PROVE  RunOf(block, c, "absent", Len(block)) = RunOf(block, c, Ms(c), Len(block))
    <3>1. PICK s \in C!Status : /\ St(c) = RunOf(block, c, s, pos)
                                /\ RunOf(block, c, s, Len(block)) = RunOf(block, c, Ms(c), Len(block))
      BY <1>1, <1>2, <2>2, <2>8 DEF MemoryFollowsBlock
    <3>2. \A x : RunOf(block, c, x, pos + 1) = C!StatusAfter(RunOf(block, c, x, (pos + 1) - 1), c, e)
      BY <1>3, <2>1, <2>2, RunSteps
    <3>3. \A x : C!StatusAfter(x, c, e) = "absent"
      BY <2>1, <2>2 DEF C!StatusAfter
    <3>4. RunOf(block, c, "absent", pos + 1) = RunOf(block, c, s, pos + 1)
      BY <3>2, <3>3
    <3>5. pos + 1 \in 0 .. Len(block)
      BY <2>1
    <3>6. RunOf(block, c, "absent", Len(block)) = RunOf(block, c, s, Len(block))
      BY <1>3, <2>2, <3>4, <3>5, RunsMerge
    <3>7. QED BY <3>1, <3>6
  <2> HIDE DEF c
  <2>9. \A v \in Validators \ DOMAIN torn :
          RunOf(block, v, St(v)', Len(block)) = RunOf(block, v, Ms(v), Len(block))
    BY <1>3, <2>7, <2>8, MemoryStartsAnew
  <2>10. MemoryFollowsBlock' /\ EarlyWritesAreHarmless'
    BY <1>1, <1>2, <2>7, <2>9 DEF MemoryFollowsBlock, EarlyWritesAreHarmless, LegalAdds
  <2>11. QED BY <2>4, <2>5, <2>6, <2>10 DEF RegistryInv
<1>7. QED BY <1>5, <1>6 DEF HandlerFails

LEMMA CrashKeepsInv ==
  ASSUME RegistryInv, Crash
  PROVE  RegistryInv'
<1>1. /\ RegistryTypes /\ NothingPends /\ MemoryFollowsBlock /\ EarlyWritesAreHarmless
  BY DEF RegistryInv
<1>2. /\ mem' = db /\ pos' = None /\ wrShares' = Empty /\ wrRecords' = Empty /\ left' = {}
      /\ phase' = "history" /\ sync' = None /\ UNCHANGED <<db, block, early, torn, nonce>>
  BY DEF Crash, dbVars
<1>3. DOMAIN Empty = {} /\ Empty \in [{} -> Absentable] /\ Empty \in [{} -> BOOLEAN]
  BY DEF Empty
<1>4. RegistryTypes'
  BY <1>1, <1>2, <1>3 DEF RegistryTypes
<1>5. NothingPends'
  BY <1>1, <1>2, <1>3 DEF NothingPends
<1>6. \A v \in Validators : Ds(v)' = Ds(v) /\ Ms(v)' = Ms(v) /\ St(v)' = Ds(v)
  BY <1>2 DEF Ds, Ms, St
<1>7. MemoryIsWritten'
  BY <1>2, <1>3, <1>6 DEF MemoryIsWritten
<1>8. MemoryFollowsBlock' /\ EarlyWritesAreHarmless'
  BY <1>1, <1>2, <1>6 DEF MemoryFollowsBlock, EarlyWritesAreHarmless, LegalAdds
<1>9. QED BY <1>4, <1>5, <1>7, <1>8 DEF RegistryInv

\* Steps that leave every status as it is.
LEMMA SameStatusKeepsInv ==
  ASSUME RegistryInv, UNCHANGED <<db, nonce, block, pos, wrShares, wrRecords, wrNonce, early, left,
                                  torn>>,
         mem' \in [Validators -> Absentable], \A v \in Validators : St(v)' = St(v),
         sync' = None \/ sync' \in SyncRound \/ UNCHANGED sync,
         phase' = "history" => phase = "history" /\ UNCHANGED sync,
         phase = "history" => phase' = "history" \/ AtRest
  PROVE  RegistryInv'
<1>1. /\ RegistryTypes /\ NothingPends /\ MemoryIsWritten /\ MemoryFollowsBlock
      /\ EarlyWritesAreHarmless
  BY DEF RegistryInv
<1>2. RegistryTypes' /\ NothingPends'
  BY <1>1 DEF RegistryTypes, NothingPends, AtRest
<1>3. Before' = Before /\ \A v \in Validators : Ds(v)' = Ds(v) /\ Ms(v)' = Ms(v)
  BY DEF Before, Ds, Ms
<1>4. DOMAIN wrShares \subseteq Validators
  BY <1>1 DEF RegistryTypes
<1>5. MemoryIsWritten'
  BY <1>1, <1>3, <1>4 DEF MemoryIsWritten
<1>6. MemoryFollowsBlock' /\ EarlyWritesAreHarmless'
  BY <1>1, <1>3 DEF MemoryFollowsBlock, EarlyWritesAreHarmless, LegalAdds
<1>7. QED BY <1>2, <1>5, <1>6 DEF RegistryInv

LEMMA InertKeepsInv ==
  ASSUME RegistryInv, Inert
  PROVE  RegistryInv'
<1>1. UNCHANGED <<db, nonce, block, pos, wrShares, wrRecords, wrNonce, mem, early, left, torn>>
  BY DEF Inert, dbVars, txnVars
<1>2. mem' \in [Validators -> Absentable]
  BY <1>1 DEF RegistryInv, RegistryTypes
<1>3. QED BY <1>1, <1>2, SameStatusKeepsInv DEF Inert, St

\* What the syncer makes of the shares, whoever the beacon node knows of.
LEMMA UpdatedIs ==
  ASSUME RegistryTypes, NEW vs \in SUBSET Validators, sync.validators \subseteq Validators
  PROVE  /\ Changed(vs) \in SUBSET Validators /\ DOMAIN Updated(vs) = Changed(vs)
         /\ \A v \in Changed(vs) :
              /\ mem[v] \in Share /\ mem[v] # None
              /\ Updated(vs)[v] \in Share /\ Updated(vs)[v] # None
              /\ StatusOf(Updated(vs)[v]) = StatusOf(mem[v])
              /\ Updated(vs)[v].liquidated = mem[v].liquidated
              /\ Updated(vs)[v].metadata = (v \in vs)
              /\ mem[v].metadata # (v \in vs)
         /\ Over(Updated(vs), mem)
              = [v \in Validators |-> IF v \in Changed(vs) THEN Updated(vs)[v] ELSE mem[v]]
         /\ Over(Updated(vs), mem) \in [Validators -> Absentable]
<1>1. mem \in [Validators -> Absentable]
  BY DEF RegistryTypes
<1>2. /\ Changed(vs) \in SUBSET Validators /\ DOMAIN Updated(vs) = Changed(vs)
      /\ \A v \in Changed(vs) : mem[v] # None /\ mem[v].metadata # (v \in vs)
  BY DEF Changed, Updated
<1>3. ASSUME NEW v \in Changed(vs)
      PROVE  /\ mem[v] \in Share /\ mem[v] # None
             /\ Updated(vs)[v] \in Share /\ Updated(vs)[v] # None
             /\ StatusOf(Updated(vs)[v]) = StatusOf(mem[v])
             /\ Updated(vs)[v].liquidated = mem[v].liquidated
             /\ Updated(vs)[v].metadata = (v \in vs)
  <2> DEFINE m == v \in vs
             x == mem[v]
  <2>1. x \in Share /\ x # None /\ None \notin Share /\ m \in BOOLEAN
    BY <1>1, <1>2, RegistryAssumption DEF Absentable, Share
  <2>2. Updated(vs)[v] = [x EXCEPT !.metadata = m]
    BY DEF Updated
  <2> HIDE DEF m, x
  <2>3. /\ [x EXCEPT !.metadata = m] \in Share /\ StatusOf([x EXCEPT !.metadata = m]) = StatusOf(x)
        /\ [x EXCEPT !.metadata = m].liquidated = x.liquidated
        /\ [x EXCEPT !.metadata = m].metadata = m
    BY <2>1, MetadataIs
  <2>4. QED BY <2>1, <2>2, <2>3 DEF m, x
<1>4. Over(Updated(vs), mem)
        = [v \in Validators |-> IF v \in Changed(vs) THEN Updated(vs)[v] ELSE mem[v]]
  <2>1. DOMAIN mem = Validators /\ Changed(vs) \cup Validators = Validators
    BY <1>1, <1>2
  <2>2. QED BY <1>2, <2>1 DEF Over
<1>5. Over(Updated(vs), mem) \in [Validators -> Absentable]
  BY <1>1, <1>3, <1>4 DEF Absentable
<1>6. QED BY <1>2, <1>3, <1>4, <1>5

LEMMA SaveToDBFailsKeepsInv ==
  ASSUME RegistryInv, NEW vs \in SUBSET Validators, SaveToDBFails(vs)
  PROVE  RegistryInv'
<1>1. RegistryTypes
  BY DEF RegistryInv
<1>2. /\ UNCHANGED <<db, nonce, block, pos, wrShares, wrRecords, wrNonce, early, left, torn, phase>>
      /\ phase = "up" /\ mem' = Over(Updated(vs), mem) /\ sync # None /\ sync' = None
  BY DEF SaveToDBFails, dbVars, txnVars, ctrlVars
<1>3. sync.validators \subseteq Validators
  BY <1>1, <1>2 DEF RegistryTypes, SyncRound
<1>4. mem' \in [Validators -> Absentable] /\ \A v \in Validators : St(v)' = St(v)
  BY <1>1, <1>2, <1>3, UpdatedIs DEF St
<1>5. QED BY <1>2, <1>4, SameStatusKeepsInv

\* The syncer's write: what it makes of a share, in memory and in the database.
LEMMA UpdateWrites ==
  ASSUME RegistryInv, NEW vs \in SUBSET Validators, UpdateValidatorsMetadata(vs)
  PROVE  /\ Changed(vs) \in SUBSET Validators /\ \A v \in Changed(vs) : mem[v] # None
         /\ mem' \in [Validators -> Absentable] /\ db' \in [Validators -> Absentable]
         /\ \A v \in Validators \ Changed(vs) : mem'[v] = mem[v] /\ db'[v] = db[v]
         /\ \A v \in Changed(vs) : mem'[v] # None /\ db'[v] # None
         /\ \A v \in Validators : /\ St(v)' = St(v)
                                  /\ Ds(v)' = IF v \in Changed(vs) THEN St(v) ELSE Ds(v)
                                  /\ Ms(v)' = Ms(v)
         /\ early' \in [DOMAIN early' -> C!Status]
         /\ DOMAIN early' = DOMAIN early \cup {v \in Changed(vs) : Ds(v) # St(v)}
         /\ sync' \in SyncRound
<1> DEFINE changed == Changed(vs)
           updated == Updated(vs)
           new == [v \in {w \in changed : StatusOf(db[w]) # StatusOf(mem[w])} |-> StatusOf(db[v])]
           batch == [sync EXCEPT !.step = "batch", !.validators = changed,
                                 !.unknown = Learned(vs) \cap sync.unknown]
<1>1. RegistryTypes
  BY DEF RegistryInv
<1>2. /\ mem' = Over(updated, mem) /\ db' = Over(updated, db) /\ early' = Over(early, new)
      /\ sync # None /\ sync' = batch /\ torn' = torn
  BY DEF UpdateValidatorsMetadata
<1>3. sync \in SyncRound
  BY <1>1, <1>2 DEF RegistryTypes
<1>4. /\ changed \in SUBSET Validators /\ DOMAIN updated = changed
      /\ \A v \in changed : /\ mem[v] # None
                            /\ updated[v] \in Share /\ updated[v] # None
                            /\ StatusOf(updated[v]) = StatusOf(mem[v])
      /\ mem' = [v \in Validators |-> IF v \in changed THEN updated[v] ELSE mem[v]]
      /\ mem' \in [Validators -> Absentable]
  <2>1. sync.validators \subseteq Validators
    BY <1>3 DEF SyncRound
  <2>2. QED BY <1>1, <1>2, <2>1, UpdatedIs
<1>5. sync' \in SyncRound
  <2>1. Learned(vs) \cap sync.unknown \in SUBSET Validators
    BY <1>3 DEF SyncRound
  <2>2. batch \in SyncRound
    BY <1>3, <1>4, <2>1 DEF SyncRound
  <2>3. QED BY <1>2, <2>2
<1>6. /\ db \in [Validators -> Absentable]
      /\ early \in [DOMAIN early -> C!Status] /\ DOMAIN early \subseteq Validators
  BY <1>1 DEF RegistryTypes
<1>7. DOMAIN new = {v \in changed : Ds(v) # St(v)} /\ \A v \in DOMAIN new : new[v] = Ds(v)
  BY DEF Ds, St
<1> HIDE DEF changed, updated, new, batch
<1>8. /\ db' = [v \in Validators |-> IF v \in changed THEN updated[v] ELSE db[v]]
      /\ db' \in [Validators -> Absentable]
  <2>1. changed \cup Validators = Validators /\ DOMAIN db = Validators
    BY <1>4, <1>6
  <2>2. db' = [v \in Validators |-> IF v \in changed THEN updated[v] ELSE db[v]]
    BY <1>2, <1>4, <2>1 DEF Over
  <2>3. QED BY <1>4, <1>6, <2>2 DEF Absentable
<1>9. /\ DOMAIN early' = DOMAIN early \cup DOMAIN new
      /\ \A v \in DOMAIN early' : early'[v] = IF v \in DOMAIN early THEN early[v] ELSE Ds(v)
  BY <1>2, <1>7 DEF Over
<1>10. early' \in [DOMAIN early' -> C!Status]
  <2>1. \A v \in Validators : Ds(v) \in C!Status
    BY <1>6, StatusOfIs DEF Ds
  <2>2. \A v \in DOMAIN early' : early'[v] \in C!Status
    BY <1>4, <1>6, <1>7, <1>9, <2>1
  <2>3. early' = [v \in DOMAIN early' |-> early'[v]]
    BY <1>2 DEF Over
  <2>4. QED BY <2>2, <2>3
<1>11. ASSUME NEW v \in Validators
       PROVE  /\ St(v)' = St(v)
              /\ Ds(v)' = IF v \in changed THEN St(v) ELSE Ds(v)
  BY <1>4, <1>8 DEF St, Ds
<1>12. ASSUME NEW v \in Validators
       PROVE  Ms(v)' = Ms(v)
  <2>1. Ms(v)' = IF v \in DOMAIN torn THEN torn[v]
                 ELSE IF v \in DOMAIN early' THEN early'[v] ELSE Ds(v)'
    BY <1>2 DEF Ms
  <2>2. QED BY <1>7, <1>9, <1>11, <2>1 DEF Ms
<1>13. \A v \in Validators \ changed : mem'[v] = mem[v] /\ db'[v] = db[v]
  BY <1>4, <1>8
<1>14. \A v \in changed : mem'[v] # None /\ db'[v] # None
  BY <1>4, <1>8
<1>15. QED BY <1>4, <1>5, <1>7, <1>8, <1>9, <1>10, <1>11, <1>12, <1>13, <1>14 DEF changed

LEMMA UpdateKeepsInv ==
  ASSUME RegistryInv, NEW vs \in SUBSET Validators, UpdateValidatorsMetadata(vs)
  PROVE  RegistryInv'
<1>1. /\ RegistryTypes /\ NothingPends /\ MemoryIsWritten /\ MemoryFollowsBlock
      /\ EarlyWritesAreHarmless
  BY DEF RegistryInv
<1>2. /\ UNCHANGED <<nonce, block, pos, wrShares, wrRecords, wrNonce, left, torn, phase>>
      /\ sync # None
  BY DEF UpdateValidatorsMetadata, txnVars, ctrlVars
<1>3. /\ Changed(vs) \in SUBSET Validators
      /\ mem' \in [Validators -> Absentable] /\ db' \in [Validators -> Absentable]
      /\ \A v \in Validators : /\ St(v)' = St(v)
                               /\ Ds(v)' = IF v \in Changed(vs) THEN St(v) ELSE Ds(v)
                               /\ Ms(v)' = Ms(v)
      /\ early' \in [DOMAIN early' -> C!Status]
      /\ DOMAIN early' = DOMAIN early \cup {v \in Changed(vs) : Ds(v) # St(v)}
      /\ sync' \in SyncRound
  BY UpdateWrites
<1>4. RegistryTypes'
  BY <1>1, <1>2, <1>3 DEF RegistryTypes
<1>5. left = {} /\ phase # "history"
  BY <1>1, <1>2 DEF NothingPends
<1>6. pos = None => \A v \in Validators \ DOMAIN torn : St(v) = Ds(v)
  BY <1>1, <1>5 DEF NothingPends, MemoryIsWritten
<1>7. NothingPends'
  <2>1. block = <<>> => pos = None
    BY <1>1, BlockIsSeq DEF RegistryTypes
  <2>2. block = <<>> => DOMAIN early' \subseteq DOMAIN torn
    BY <1>1, <1>3, <1>6, <2>1 DEF NothingPends
  <2>3. QED BY <1>1, <1>2, <1>5, <2>2 DEF NothingPends
<1>8. MemoryIsWritten'
  <2>1. DOMAIN wrShares \subseteq Validators
    BY <1>1 DEF RegistryTypes
  <2>2. QED BY <1>1, <1>2, <1>3, <2>1 DEF MemoryIsWritten
<1>9. Before' = Before
  BY <1>2, <1>3 DEF Before
<1>10. MemoryFollowsBlock'
  BY <1>1, <1>2, <1>3, <1>9 DEF MemoryFollowsBlock, LegalAdds
<1>11. EarlyWritesAreHarmless'
  <2>1. ASSUME block # <<>>, NEW v \in Validators \ DOMAIN torn
        PROVE  RunOf(block, v, Ds(v)', Len(block)) = RunOf(block, v, Ms(v)', Len(block))
    BY <1>1, <1>3, <2>1, MemoryStartsAnew DEF EarlyWritesAreHarmless
  <2>2. QED BY <1>2, <2>1 DEF EarlyWritesAreHarmless
<1>12. QED BY <1>4, <1>7, <1>8, <1>10, <1>11 DEF RegistryInv

\* The invariant behind the registry's theorems: where an open transaction and
\* memory stand between the block's beginning and its end.
THEOREM RegistryInvHolds == Spec => []RegistryInv
<1>1. Init => RegistryInv
  BY InitHoldsInv
<1>2. RegistryInv /\ [Next]_vars => RegistryInv'
  <2> SUFFICES ASSUME RegistryInv, [Next]_vars PROVE RegistryInv'
    OBVIOUS
  <2>1. EventHandler => RegistryInv'
    BY HandlersHandle, EventKeepsInv
  <2>2. QED
    BY <2>1, StepCases, NewBlockKeepsInv, BeginBlockKeepsInv, CommitBlockKeepsInv,
       HandlerFailsKeepsInv, CrashKeepsInv, InertKeepsInv, UpdateKeepsInv, SaveToDBFailsKeepsInv
<1>3. QED BY <1>1, <1>2, PTL DEF Spec

-----------------------------------------------------------------------------
(* The registry goes through the states of ContractRegistry.               *)

LEMMA CommitApplies ==
  ASSUME RegistryInv, CommitBlock
  PROVE  C!Apply
<1> DEFINE r == C!AppliedBlock([members |-> Members, nonce |-> nonce], block)
<1>1. /\ block \in C!Block /\ block' = <<>> /\ block # <<>>
      /\ \A v \in Validators : Ms(v)' = RunOf(block, v, Ms(v), Len(block))
      /\ nonce' = C!AppliedPrefixes(Before, block)[Len(block)].nonce
  BY CommitWrites, BlockIsSeq
<1>2. /\ Before = [members |-> Members, nonce |-> nonce]
      /\ r.members = [v \in Validators |-> r.members[v]]
      /\ \A v \in Validators : r.members[v] = RunOf(block, v, Ms(v), Len(block))
  BY <1>1, PromisedIs DEF RegistryInv, Promised
<1>3. nonce' = r.nonce
  BY <1>1, <1>2 DEF C!AppliedBlock
<1> HIDE DEF r
<1>4. Members' = [v \in Validators |-> Ms(v)']
  BY DEF Members, Ms, Ds
<1>5. Members' = r.members
  BY <1>1, <1>2, <1>4
<1>6. processed' = processed + 1 /\ UNCHANGED enabled
  BY DEF CommitBlock
<1>7. QED BY <1>1, <1>3, <1>5, <1>6 DEF C!Apply, r

LEMMA StepRefines ==
  ASSUME RegistryInv, [Next]_vars
  PROVE  [C!Next]_(C!registry)
<1>1. ASSUME UNCHANGED <<enabled, block, processed, nonce>>,
             \A v \in Validators : Ms(v)' = Ms(v)
      PROVE  UNCHANGED C!registry
  <2>1. Members' = Members
    BY <1>1 DEF Members, Ms, Ds
  <2>2. QED BY <1>1, <2>1 DEF C!registry
<1>2. ASSUME UNCHANGED <<enabled, block, processed, nonce, db, early, torn>>
      PROVE  UNCHANGED C!registry
  BY <1>1, <1>2 DEF Ms, Ds
<1>3. ASSUME NEW b \in C!Block, NewBlock(b) PROVE C!Next
  <2>1. /\ block = <<>> /\ processed < MaxBlocks /\ block' = b /\ C!Legal(b)
        /\ enabled' = C!EnabledAfter(b, Len(b)) /\ UNCHANGED <<processed, nonce, db, early, torn>>
    BY <1>3 DEF NewBlock, AtRest, dbVars, historyVars
  <2>2. Members' = Members
    BY <2>1 DEF Members
  <2>3. C!Produce
    BY <2>1, <2>2 DEF C!Produce
  <2>4. QED BY <2>3 DEF C!Next
<1>4. CommitBlock => C!Next
  BY CommitApplies DEF C!Next
<1>5. (Crash \/ Inert \/ BeginBlock \/ HandlerFails) => UNCHANGED C!registry
  <2> SUFFICES ASSUME Crash \/ Inert \/ BeginBlock \/ HandlerFails
               PROVE  UNCHANGED C!registry
    OBVIOUS
  <2>1. UNCHANGED <<enabled, block, processed, nonce, db, early, torn>>
    BY DEF Crash, Inert, BeginBlock, HandlerFails, dbVars, historyVars
  <2>2. QED BY <1>2, <2>1
<1>6. EventHandler => UNCHANGED C!registry
  <2> SUFFICES ASSUME EventHandler
               PROVE  UNCHANGED C!registry
    OBVIOUS
  <2>1. UNCHANGED <<enabled, block, processed, nonce, db, early, torn>>
    BY HandlersHandle DEF EventHandled, dbVars
  <2>2. QED BY <1>2, <2>1
<1>7. ASSUME NEW vs \in SUBSET Validators, UpdateValidatorsMetadata(vs)
      PROVE  UNCHANGED C!registry
  <2>1. UNCHANGED <<enabled, block, processed, nonce>>
    BY <1>7 DEF UpdateValidatorsMetadata
  <2>2. \A v \in Validators : Ms(v)' = Ms(v)
    BY <1>7, UpdateWrites
  <2>3. QED BY <1>1, <2>1, <2>2
<1>8. ASSUME NEW vs \in SUBSET Validators, SaveToDBFails(vs)
      PROVE  UNCHANGED C!registry
  <2>1. UNCHANGED <<enabled, block, processed, nonce, db, early, torn>>
    BY <1>8 DEF SaveToDBFails, dbVars
  <2>2. QED BY <1>2, <2>1
<1>9. QED BY <1>3, <1>4, <1>5, <1>6, <1>7, <1>8, StepCases

\* Whatever crashes, retries and replays happen, and however the metadata syncer
\* writes in between, the database goes through the states of ContractRegistry:
\* every block counts once and as a whole, but for what torn keeps of a block
\* that was handled again on the memory of a discarded try or on early writes
\* (processBlockEvents, SyncHistory, sharesStorage.Save, UpdateValidatorsMetadata).
THEOREM RegistryImplementsContract == Spec => BlocksAreAtomic
<1>1. Init => C!Init
  BY DEF Init, C!Init, Members, Empty, StatusOf
<1>2. RegistryInv /\ [Next]_vars => [C!Next]_(C!registry)
  BY StepRefines
<1>3. QED BY <1>1, <1>2, RegistryInvHolds, PTL DEF Spec, BlocksAreAtomic, C!Spec

-----------------------------------------------------------------------------
(* Shares can sign.                                                        *)

\* An event of the block, and one of it that is still to be handled.
Has(type, v) == \E i \in DOMAIN block : block[i].type = type /\ block[i].validator = v
Ahead(type, v) ==
  \E i \in DOMAIN block : /\ pos = None \/ i > pos
                          /\ block[i].type = type /\ block[i].validator = v

\* Records as the open transaction has them.
Recorded(v) == IF v \in DOMAIN wrRecords THEN wrRecords[v] ELSE v \in records

\* A share without its key is one whose removal was rolled back and comes again.
KeysFollowShares ==
  \A v \in Validators \ DOMAIN torn :
    /\ mem[v] # None => v \in held \/ Ahead("remove", v)
    /\ db[v] # None => v \in held \/ Has("remove", v)

\* A share without records was left by a discarded try or written early.
RecordsFollowCreation ==
  \A v \in Validators \ (DOMAIN torn \cup DOMAIN early) :
    /\ mem[v] # None => Recorded(v) \/ v \in left
    /\ db[v] # None => v \in records

SigningInv == RegistryInv /\ KeysFollowShares /\ RecordsFollowCreation

LEMMA SigningInit ==
  ASSUME Init
  PROVE  KeysFollowShares /\ RecordsFollowCreation
BY DEF Init, KeysFollowShares, RecordsFollowCreation

\* Between blocks nothing is ahead, and before a block everything of it is.
LEMMA NothingAhead ==
  ASSUME NEW t, NEW v
  PROVE  /\ block = <<>> => ~Has(t, v) /\ ~Ahead(t, v)
         /\ pos = None => (Ahead(t, v) <=> Has(t, v))
         /\ Ahead(t, v) => Has(t, v)
BY DEF Has, Ahead

LEMMA NewBlockKeepsSigning ==
  ASSUME SigningInv, NEW b \in C!Block, NewBlock(b)
  PROVE  KeysFollowShares' /\ RecordsFollowCreation'
<1>1. KeysFollowShares /\ RecordsFollowCreation /\ NothingPends
  BY DEF SigningInv, RegistryInv
<1>2. /\ block = <<>>
      /\ UNCHANGED <<pos, wrRecords, records, held, mem, db, early, left, torn>>
  BY DEF NewBlock, AtRest, txnVars, dbVars, historyVars
<1>3. \A v \in Validators \ DOMAIN torn : mem[v] # None \/ db[v] # None => v \in held
  BY <1>1, <1>2, NothingAhead DEF KeysFollowShares
<1>4. \A v \in Validators : Recorded(v)' = Recorded(v)
  BY <1>2 DEF Recorded
<1>5. QED BY <1>1, <1>2, <1>3, <1>4 DEF KeysFollowShares, RecordsFollowCreation

LEMMA BeginBlockKeepsSigning ==
  ASSUME SigningInv, BeginBlock
  PROVE  KeysFollowShares' /\ RecordsFollowCreation'
<1>1. KeysFollowShares /\ RecordsFollowCreation /\ NothingPends /\ RegistryTypes
  BY DEF SigningInv, RegistryInv
<1>2. /\ block # <<>> /\ pos = None /\ pos' = 0 /\ wrRecords' = Empty
      /\ UNCHANGED <<block, records, held, mem, db, early, left, torn>>
  BY DEF BeginBlock, dbVars, historyVars
<1>3. DOMAIN block = 1 .. Len(block)
  BY <1>1, <1>2, BlockIsSeq DEF RegistryTypes
<1>4. \A t, v : Has(t, v)' = Has(t, v) /\ (Ahead(t, v) => Ahead(t, v)')
  BY <1>2, <1>3 DEF Has, Ahead
<1>5. \A v \in Validators : Recorded(v) => Recorded(v)'
  BY <1>1, <1>2 DEF Recorded, NothingPends, Empty
<1>6. QED BY <1>1, <1>2, <1>4, <1>5 DEF KeysFollowShares, RecordsFollowCreation

LEMMA CommitKeepsSigning ==
  ASSUME SigningInv, CommitBlock
  PROVE  KeysFollowShares' /\ RecordsFollowCreation'
<1> DEFINE touched == DOMAIN torn \cup left \cup DOMAIN early
<1>1. KeysFollowShares /\ RecordsFollowCreation /\ RegistryTypes /\ RegistryInv
  BY DEF SigningInv, RegistryInv
<1>2. /\ pos = Len(block) /\ pos # None /\ UNCHANGED <<held, mem>> /\ pos' = None
      /\ records' = Written(wrRecords, records) /\ wrRecords' = Empty
  BY DEF CommitBlock
<1>3. /\ block \in C!Block /\ db' \in [Validators -> Absentable]
      /\ \A v \in Validators \ DOMAIN torn' : Ds(v)' = St(v)
  BY <1>1, CommitWrites
<1>4. \A t, v : ~Ahead(t, v)
  <2>1. DOMAIN block = 1 .. Len(block) /\ Len(block) \in Nat
    BY <1>3, BlockIsSeq
  <2>2. QED BY <1>2, <2>1 DEF Ahead
<1>5. \A v \in Validators \ DOMAIN torn' : db'[v] # None <=> mem[v] # None
  <2>1. \A v \in Validators : /\ StatusOf(mem[v]) = "absent" <=> mem[v] = None
                              /\ StatusOf(db'[v]) = "absent" <=> db'[v] = None
    BY <1>1, <1>3, StatusOfIs DEF RegistryTypes
  <2>2. QED BY <1>3, <2>1 DEF Ds, St
<1>6. \A v \in touched \ DOMAIN torn' : mem[v] # None => v \in records' /\ v \in held
  BY DEF CommitBlock
<1>7. ASSUME NEW v \in Validators \ touched, mem[v] # None
      PROVE  v \in records' /\ v \in held
  <2>1. v \in held /\ Recorded(v)
    BY <1>1, <1>4, <1>7 DEF KeysFollowShares, RecordsFollowCreation
  <2>2. QED BY <1>2, <2>1 DEF Recorded, Written
<1> HIDE DEF touched
<1>8. \A v \in Validators \ DOMAIN torn' : mem[v] # None => v \in records' /\ v \in held
  BY <1>6, <1>7
<1>9. \A v \in Validators : Recorded(v)' <=> v \in records'
  BY <1>2 DEF Recorded, Empty
<1>10. QED BY <1>2, <1>5, <1>8, <1>9 DEF KeysFollowShares, RecordsFollowCreation

\* What the discarded try wrote is gone, and so are the records it made.
LEMMA HandlerFailsKeepsSigning ==
  ASSUME SigningInv, HandlerFails
  PROVE  KeysFollowShares' /\ RecordsFollowCreation'
<1>1. KeysFollowShares /\ RecordsFollowCreation /\ RegistryTypes
  BY DEF SigningInv, RegistryInv
<1>2. /\ pos' = None /\ wrRecords' = Empty
      /\ UNCHANGED <<block, records, db, early, torn>>
      /\ left' = left \cup {v \in Validators : StatusOf(mem'[v]) # StatusOf(db[v])}
  BY DEF HandlerFails, dbVars
<1>3. /\ \A v \in held : v \in held'
      /\ \A v \in Validators : mem'[v] = mem[v] \/ mem'[v] = None
  <2>1. CASE UNCHANGED mem /\ held \subseteq held'
    BY <2>1
  <2>2. CASE mem' = Over(At(Current, None), mem) /\ UNCHANGED held
    BY <1>1, <2>2 DEF Over, At, RegistryTypes
  <2>3. QED BY <2>1, <2>2 DEF HandlerFails
<1>4. \A t, v : Has(t, v)' = Has(t, v) /\ (Ahead(t, v)' <=> Has(t, v)) /\ (Ahead(t, v) => Has(t, v))
  BY <1>2 DEF Has, Ahead
<1>5. KeysFollowShares'
  BY <1>1, <1>2, <1>3, <1>4 DEF KeysFollowShares
<1>6. \A v \in Validators : Recorded(v)' <=> v \in records
  BY <1>2 DEF Recorded, Empty
<1>7. \A v \in Validators \ left' : mem'[v] # None => db[v] # None
  <2>1. \A v \in Validators \ left' : StatusOf(mem'[v]) = StatusOf(db[v])
    BY <1>2
  <2>2. \A v \in Validators : mem'[v] \in Absentable /\ db[v] \in Absentable
    BY <1>1, <1>3 DEF RegistryTypes, Absentable
  <2>3. QED BY <2>1, <2>2, StatusOfIs
<1>8. RecordsFollowCreation'
  BY <1>1, <1>2, <1>6, <1>7 DEF RecordsFollowCreation
<1>9. QED BY <1>5, <1>8

LEMMA CrashKeepsSigning ==
  ASSUME SigningInv, Crash
  PROVE  KeysFollowShares' /\ RecordsFollowCreation'
<1>1. KeysFollowShares /\ RecordsFollowCreation
  BY DEF SigningInv
<1>2. /\ mem' = db /\ pos' = None /\ wrRecords' = Empty
      /\ UNCHANGED <<block, records, held, db, early, torn>>
  BY DEF Crash, dbVars
<1>3. \A t, v : Has(t, v)' = Has(t, v) /\ (Ahead(t, v)' <=> Has(t, v))
  BY <1>2 DEF Has, Ahead
<1>4. \A v \in Validators : Recorded(v)' <=> v \in records
  BY <1>2 DEF Recorded, Empty
<1>5. QED BY <1>1, <1>2, <1>3, <1>4 DEF KeysFollowShares, RecordsFollowCreation

\* Steps that neither add a share nor take one away.
LEMMA SameSharesKeepSigning ==
  ASSUME SigningInv, UNCHANGED <<block, pos, records, wrRecords, held, db, early, left, torn>>,
         \A v \in Validators : mem'[v] # None => mem[v] # None
  PROVE  KeysFollowShares' /\ RecordsFollowCreation'
<1>1. KeysFollowShares /\ RecordsFollowCreation
  BY DEF SigningInv
<1>2. /\ \A t, v : Has(t, v)' = Has(t, v) /\ Ahead(t, v)' = Ahead(t, v)
      /\ \A v : Recorded(v)' = Recorded(v)
  BY DEF Has, Ahead, Recorded
<1>3. QED BY <1>1, <1>2 DEF KeysFollowShares, RecordsFollowCreation

LEMMA InertKeepsSigning ==
  ASSUME SigningInv, Inert
  PROVE  KeysFollowShares' /\ RecordsFollowCreation'
<1>1. UNCHANGED <<block, pos, records, wrRecords, held, mem, db, early, left, torn>>
  BY DEF Inert, dbVars, txnVars
<1>2. QED BY <1>1, SameSharesKeepSigning

LEMMA SaveToDBFailsKeepsSigning ==
  ASSUME SigningInv, NEW vs \in SUBSET Validators, SaveToDBFails(vs)
  PROVE  KeysFollowShares' /\ RecordsFollowCreation'
<1>1. /\ UNCHANGED <<block, pos, records, wrRecords, held, db, early, left, torn>>
      /\ mem' = Over(Updated(vs), mem) /\ sync # None
  BY DEF SaveToDBFails, dbVars, txnVars
<1>2. RegistryTypes /\ sync.validators \subseteq Validators
  BY <1>1 DEF SigningInv, RegistryInv, RegistryTypes, SyncRound
<1>3. \A v \in Validators : mem'[v] # None => mem[v] # None
  BY <1>1, <1>2, UpdatedIs
<1>4. QED BY <1>1, <1>3, SameSharesKeepSigning

LEMMA UpdateKeepsSigning ==
  ASSUME SigningInv, NEW vs \in SUBSET Validators, UpdateValidatorsMetadata(vs)
  PROVE  KeysFollowShares' /\ RecordsFollowCreation'
<1>1. KeysFollowShares /\ RecordsFollowCreation /\ RegistryTypes /\ RegistryInv
  BY DEF SigningInv, RegistryInv
<1>2. UNCHANGED <<block, pos, records, wrRecords, held, left, torn>>
  BY DEF UpdateValidatorsMetadata, txnVars
<1>3. /\ Changed(vs) \in SUBSET Validators /\ \A v \in Changed(vs) : mem[v] # None
      /\ \A v \in Validators \ Changed(vs) : mem'[v] = mem[v] /\ db'[v] = db[v]
      /\ DOMAIN early' = DOMAIN early \cup {v \in Changed(vs) : Ds(v) # St(v)}
  BY <1>1, UpdateWrites
<1>4. /\ \A t, v : Has(t, v)' = Has(t, v) /\ Ahead(t, v)' = Ahead(t, v)
      /\ \A v : Recorded(v)' = Recorded(v)
  BY <1>2 DEF Has, Ahead, Recorded
<1>5. KeysFollowShares'
  BY <1>1, <1>2, <1>3, <1>4, NothingAhead DEF KeysFollowShares
<1>6. \A v \in Changed(vs) : db[v] = None => v \in DOMAIN early'
  <2>1. \A v \in Validators : /\ StatusOf(mem[v]) = "absent" <=> mem[v] = None
                              /\ StatusOf(db[v]) = "absent" <=> db[v] = None
    BY <1>1, StatusOfIs DEF RegistryTypes
  <2>2. QED BY <1>3, <2>1 DEF Ds, St
<1>7. RecordsFollowCreation'
  BY <1>1, <1>2, <1>3, <1>4, <1>6 DEF RecordsFollowCreation
<1>8. QED BY <1>5, <1>7

\* An event not yet handled that is not the next one stays ahead.
LEMMA StaysAhead ==
  ASSUME RegistryTypes, EventHandled, NEW t, NEW v, Ahead(t, v),
         ~(block[pos + 1].type = t /\ block[pos + 1].validator = v)
  PROVE  Ahead(t, v)'
<1>1. /\ pos \in 0 .. Len(block) /\ pos # None /\ pos' = pos + 1 /\ block' = block
      /\ DOMAIN block = 1 .. Len(block) /\ Len(block) \in Nat
  BY BlockIsSeq DEF EventHandled
<1>2. PICK i \in DOMAIN block : i > pos /\ block[i].type = t /\ block[i].validator = v
  BY <1>1 DEF Ahead
<1>3. i > pos'
  BY <1>1, <1>2
<1>4. QED BY <1>1, <1>2, <1>3 DEF Ahead

LEMMA HandlersKeepSigning ==
  ASSUME SigningInv, EventHandler
  PROVE  KeysFollowShares' /\ RecordsFollowCreation'
<1> DEFINE c == Current
           e == block[pos + 1]
<1>1. KeysFollowShares /\ RecordsFollowCreation /\ RegistryTypes /\ RegistryInv
  BY DEF SigningInv, RegistryInv
<1>2. EventHandled
  BY <1>1, HandlersHandle
<1>3. /\ UNCHANGED <<db, records, block, early, left, torn>> /\ e \in C!Event /\ c = e.validator
      /\ pos + 1 \in DOMAIN block
  BY <1>2, BlockIsSeq DEF EventHandled, dbVars, Current
<1>4. \A t, v : Has(t, v)' = Has(t, v)
  BY <1>3 DEF Has
<1>5. \A t, v : Ahead(t, v) /\ ~(e.type = t /\ e.validator = v) => Ahead(t, v)'
  BY <1>1, <1>2, StaysAhead
<1>6. Has(e.type, c)
  BY <1>3 DEF Has
<1>7. /\ \A v \in Validators \ DOMAIN torn :
           /\ mem[v] # None => v \in held \/ Ahead("remove", v)
           /\ db[v] # None => v \in held \/ Has("remove", v)
      /\ \A v \in Validators \ (DOMAIN torn \cup DOMAIN early) :
           /\ mem[v] # None => Recorded(v) \/ v \in left
           /\ db[v] # None => v \in records
  BY <1>1 DEF KeysFollowShares, RecordsFollowCreation
<1>8. CASE HandleValidatorAdded
  <2>1. e.type = "add" /\ c \in Validators
    BY <1>3, <1>8, EventValidator DEF HandleValidatorAdded, Handling
  <2>2. CASE mem[c] = None /\ HandleShareCreation(c)
    <3>1. /\ held' = held \cup {c}
          /\ \A v \in Validators \ {c} : mem'[v] = mem[v]
          /\ wrRecords' = Over(At(c, TRUE), wrRecords)
      <4>1. mem' = Over(At(c, [liquidated |-> FALSE, metadata |-> FALSE]), mem)
        BY <2>2 DEF HandleShareCreation, SaveShares
      <4>2. DOMAIN mem = Validators
        BY <1>1 DEF RegistryTypes
      <4>3. QED BY <2>2, <4>1, <4>2 DEF HandleShareCreation, Over, At
    <3>2. \A v \in Validators : Recorded(v)' = IF v = c THEN TRUE ELSE Recorded(v)
      BY <1>3, <3>1 DEF Recorded, Over, At
    <3>3. KeysFollowShares'
      BY <1>3, <1>4, <1>5, <1>7, <2>1, <3>1 DEF KeysFollowShares
    <3>4. RecordsFollowCreation'
      BY <1>3, <1>4, <1>5, <1>6, <1>7, <2>1, <3>1, <3>2 DEF RecordsFollowCreation
    <3>5. QED BY <3>3, <3>4
  <2>3. CASE mem[c] # None /\ UNCHANGED <<held, wrRecords, wrShares, mem>>
    <3>1. \A v : Recorded(v)' = Recorded(v)
      BY <1>3, <2>3 DEF Recorded
    <3>2. KeysFollowShares'
      BY <1>3, <1>4, <1>5, <1>7, <2>1, <2>3 DEF KeysFollowShares
    <3>3. RecordsFollowCreation'
      BY <1>3, <1>4, <1>5, <1>6, <1>7, <2>1, <2>3, <3>1 DEF RecordsFollowCreation
    <3>4. QED BY <3>2, <3>3
  <2>4. QED BY <1>8, <2>2, <2>3 DEF HandleValidatorAdded
<1>9. CASE HandleMalformedValidatorAdded
  <2>1. e.type = "addMalformed" /\ UNCHANGED <<held, mem, wrRecords>>
    BY <1>9 DEF HandleMalformedValidatorAdded, Handling, historyVars
  <2>2. \A v : Recorded(v)' = Recorded(v)
    BY <1>3, <2>1 DEF Recorded
  <2>3. QED BY <1>3, <1>4, <1>5, <1>7, <2>1, <2>2 DEF KeysFollowShares, RecordsFollowCreation
<1>10. CASE HandleValidatorRemoved
  <2>1. e.type = "remove" /\ c \in Validators
    BY <1>3, <1>10, EventValidator DEF HandleValidatorRemoved, Handling, historyVars
  <2>2. CASE mem[c] # None
    <3>1. /\ held' = held \ {c} /\ mem'[c] = None
          /\ \A v \in Validators \ {c} : mem'[v] = mem[v]
          /\ wrRecords' = Over(At(c, FALSE), wrRecords)
      <4>1. mem' = Over(At(c, None), mem)
        BY <1>10, <2>2 DEF HandleValidatorRemoved, SaveShares
      <4>2. DOMAIN mem = Validators
        BY <1>1 DEF RegistryTypes
      <4>3. QED BY <1>10, <2>1, <2>2, <4>1, <4>2 DEF HandleValidatorRemoved, Over, At
    <3>2. \A v \in Validators \ {c} : Recorded(v)' = Recorded(v)
      BY <1>3, <3>1 DEF Recorded, Over, At
    <3>3. KeysFollowShares'
      BY <1>3, <1>4, <1>5, <1>6, <1>7, <2>1, <3>1 DEF KeysFollowShares
    <3>4. RecordsFollowCreation'
      BY <1>3, <1>4, <1>5, <1>7, <2>1, <3>1, <3>2 DEF RecordsFollowCreation
    <3>5. QED BY <3>3, <3>4
  <2>3. CASE mem[c] = None
    <3>1. UNCHANGED <<mem, held, wrRecords>>
      BY <1>10, <2>3 DEF HandleValidatorRemoved
    <3>2. \A v : Recorded(v)' = Recorded(v)
      BY <1>3, <3>1 DEF Recorded
    <3>3. QED BY <1>3, <1>4, <1>5, <1>7, <2>1, <2>3, <3>1, <3>2
              DEF KeysFollowShares, RecordsFollowCreation
  <2>4. QED BY <2>2, <2>3
<1>11. ASSUME NEW l \in BOOLEAN, SaveShares(ClusterShares(l))
       PROVE  \A v \in Validators : mem'[v] # None => mem[v] # None
  <2>1. DOMAIN mem = Validators
    BY <1>1 DEF RegistryTypes
  <2>2. mem' = Over(ClusterShares(l), mem)
    BY <1>11 DEF SaveShares
  <2>3. QED BY <2>1, <2>2 DEF Over, ClusterShares
<1>12. CASE HandleClusterLiquidated
  <2>1. e.type = "liquidate" /\ UNCHANGED <<held, wrRecords>>
    BY <1>12 DEF HandleClusterLiquidated, Handling, historyVars
  <2>2. \A v \in Validators : mem'[v] # None => mem[v] # None
    BY <1>11, <1>12 DEF HandleClusterLiquidated
  <2>3. \A v : Recorded(v)' = Recorded(v)
    BY <1>3, <2>1 DEF Recorded
  <2>4. QED BY <1>3, <1>4, <1>5, <1>7, <2>1, <2>2, <2>3 DEF KeysFollowShares, RecordsFollowCreation
<1>13. CASE HandleClusterReactivated
  <2>1. /\ e.type = "reactivate" /\ UNCHANGED held
        /\ wrRecords' = Over([v \in DOMAIN ClusterShares(FALSE) |-> TRUE], wrRecords)
    BY <1>13 DEF HandleClusterReactivated, Handling, historyVars
  <2>2. \A v \in Validators : mem'[v] # None => mem[v] # None
    BY <1>11, <1>13 DEF HandleClusterReactivated
  <2>3. \A v \in Validators : mem[v] # None => Recorded(v)'
    BY <2>1 DEF Recorded, Over, ClusterShares
  <2>4. QED BY <1>3, <1>4, <1>5, <1>7, <2>1, <2>2, <2>3 DEF KeysFollowShares, RecordsFollowCreation
<1>14. QED BY <1>8, <1>9, <1>10, <1>12, <1>13 DEF EventHandler

\* At rest every share in the database has its key and its slashing protection
\* records, unless its block was handled again on the memory of a discarded try
\* or on early writes, so that its creation or removal was skipped
\* (handleShareCreation, handleValidatorRemoved, SyncHistory).
THEOREM SharesCanSignHolds == Spec => []SharesCanSign
<1>1. Init => SigningInv
  BY InitHoldsInv, SigningInit DEF SigningInv
<1>2. SigningInv /\ RegistryInv' /\ [Next]_vars => SigningInv'
  <2> SUFFICES ASSUME SigningInv, RegistryInv', [Next]_vars PROVE SigningInv'
    OBVIOUS
  <2>1. KeysFollowShares' /\ RecordsFollowCreation'
    BY StepCases, NewBlockKeepsSigning, BeginBlockKeepsSigning, CommitKeepsSigning,
       CrashKeepsSigning, InertKeepsSigning, UpdateKeepsSigning, HandlersKeepSigning,
       HandlerFailsKeepsSigning, SaveToDBFailsKeepsSigning
  <2>2. QED BY <2>1 DEF SigningInv
<1>3. SigningInv => SharesCanSign
  <2> SUFFICES ASSUME SigningInv, AtRest, NEW v \in Validators \ DOMAIN torn, db[v] # None
               PROVE  v \in records /\ v \in held
    BY DEF SharesCanSign
  <2>1. KeysFollowShares /\ RecordsFollowCreation /\ NothingPends /\ block = <<>>
    BY DEF SigningInv, RegistryInv, AtRest
  <2>2. ~Has("remove", v) /\ v \notin DOMAIN early
    BY <2>1, NothingAhead DEF NothingPends
  <2>3. QED BY <2>1, <2>2 DEF KeysFollowShares, RecordsFollowCreation
<1>4. QED BY <1>1, <1>2, <1>3, RegistryInvHolds, PTL DEF Spec

-----------------------------------------------------------------------------
(* What runs is what the registry has.                                     *)

\* A share that is to run, one that may, and one that must not.
Up(v) == mem[v] # None /\ ~mem[v].liquidated /\ mem[v].metadata
Serves(v) == mem[v] # None /\ ~mem[v].liquidated /\ (mem[v].metadata \/ v \in blanked)
Liquidated(v) == mem[v] # None /\ mem[v].liquidated

Task == [type : {"stop", "start"}, validators : SUBSET Validators]

ControllerTypes ==
  /\ tasks \in Seq(Task)
  /\ phase = "history" => running = {} /\ starting = {} /\ tasks = <<>>

\* Tasks of ts about v, and those that stop it after the first i.
Tasked(ts, v) == \E j \in 1 .. Len(ts) : v \in ts[j].validators
Stopped(ts, v, i) ==
  \E j \in 1 .. Len(ts) : j > i /\ ts[j].type = "stop" /\ v \in ts[j].validators

\* A start of a share that is liquidated by now is followed by a stop.
StopsFollowStarts ==
  \A i \in 1 .. Len(tasks) : tasks[i].type = "start" =>
    \A v \in tasks[i].validators : Liquidated(v) => Stopped(tasks, v, i)

\* What runs, or is listed to, may run or is about to be stopped.
RunningIsUp ==
  \A v \in Validators : v \in running \/ v \in starting =>
    Serves(v) \/ Stopped(tasks, v, 0) \/ v \in overtaken

\* The start-up, or the controller once it receives the batch, will list v.
Coming(v) ==
  \/ phase \in {"history", "syncing", "loading"}
  \/ sync # None /\ sync.step = "batch" /\ v \in sync.unknown

\* What is to run does, or is about to.
UpIsRunning ==
  \A v \in Validators : Up(v) =>
    \/ v \in running \/ v \in starting \/ v \in missed \/ v \in overtaken
    \/ Tasked(tasks, v) \/ Coming(v)

RunningInv == ControllerTypes /\ StopsFollowStarts /\ RunningIsUp /\ UpIsRunning

LEMMA AppendedTask ==
  ASSUME NEW ts \in Seq(Task), NEW t \in Task
  PROVE  /\ Append(ts, t) \in Seq(Task)
         /\ \A v, i : Stopped(ts, v, i) => Stopped(Append(ts, t), v, i)
         /\ t.type = "stop" => \A i \in 0 .. Len(ts) : \A v \in t.validators :
                                 Stopped(Append(ts, t), v, i)
         /\ \A v : Tasked(ts, v) \/ v \in t.validators => Tasked(Append(ts, t), v)
         /\ \A i \in 1 .. Len(Append(ts, t)) :
              IF i \in 1 .. Len(ts) THEN Append(ts, t)[i] = ts[i] ELSE Append(ts, t)[i] = t
<1>1. /\ Append(ts, t) \in Seq(Task) /\ Len(ts) \in Nat
      /\ Len(Append(ts, t)) = Len(ts) + 1
      /\ \A i \in 1 .. Len(ts) : Append(ts, t)[i] = ts[i]
      /\ Append(ts, t)[Len(ts) + 1] = t
  BY AppendProperties, LenProperties
<1> DEFINE u == Append(ts, t)
<1> HIDE DEF u
<1>2. /\ u \in Seq(Task) /\ Len(u) = Len(ts) + 1 /\ u[Len(ts) + 1] = t
      /\ \A i \in 1 .. Len(ts) : u[i] = ts[i] /\ i \in 1 .. Len(u)
      /\ Len(ts) + 1 \in 1 .. Len(u)
      /\ \A i \in 1 .. Len(u) : i \in 1 .. Len(ts) \/ i = Len(ts) + 1
  BY <1>1 DEF u
<1>3. \A v, i : Stopped(ts, v, i) => Stopped(u, v, i)
  BY <1>2 DEF Stopped
<1>4. t.type = "stop" => \A i \in 0 .. Len(ts) : \A v \in t.validators : Stopped(u, v, i)
  <2>1. \A i \in 0 .. Len(ts) : Len(ts) + 1 > i
    BY <1>1
  <2>2. QED BY <1>2, <2>1 DEF Stopped
<1>5. \A v : Tasked(ts, v) \/ v \in t.validators => Tasked(u, v)
  BY <1>2 DEF Tasked
<1>6. QED BY <1>2, <1>3, <1>4, <1>5 DEF u

LEMMA FirstTaskDone ==
  ASSUME NEW ts \in Seq(Task), ts # <<>>
  PROVE  /\ Tail(ts) \in Seq(Task) /\ Head(ts) \in Task /\ Head(ts) = ts[1] /\ 1 \in 1 .. Len(ts)
         /\ \A v : \A i \in Nat : Stopped(ts, v, i + 1) => Stopped(Tail(ts), v, i)
         /\ \A v : Stopped(ts, v, 0) =>
              \/ Stopped(Tail(ts), v, 0)
              \/ Head(ts).type = "stop" /\ v \in Head(ts).validators
         /\ \A v : Tasked(ts, v) => Tasked(Tail(ts), v) \/ v \in Head(ts).validators
         /\ \A i \in 1 .. Len(Tail(ts)) : i + 1 \in 1 .. Len(ts) /\ Tail(ts)[i] = ts[i + 1] /\ i \in Nat
<1>1. /\ Tail(ts) \in Seq(Task) /\ Head(ts) \in Task /\ Head(ts) = ts[1] /\ Len(ts) \in Nat \ {0}
      /\ Len(Tail(ts)) = Len(ts) - 1
      /\ \A i \in 1 .. Len(Tail(ts)) : Tail(ts)[i] = ts[i + 1]
  BY HeadTailProperties, LenProperties, EmptySeq
<1> DEFINE u == Tail(ts)
<1> HIDE DEF u
<1>2. /\ \A i \in 1 .. Len(u) : i + 1 \in 1 .. Len(ts) /\ u[i] = ts[i + 1] /\ i \in Nat
      /\ \A j \in 1 .. Len(ts) : j = 1 \/ (j - 1 \in 1 .. Len(u) /\ u[j - 1] = ts[j])
  BY <1>1 DEF u
<1>3. ASSUME NEW v, NEW i \in Nat, Stopped(ts, v, i + 1)
      PROVE  Stopped(u, v, i)
  <2>1. PICK j \in 1 .. Len(ts) : j > i + 1 /\ ts[j].type = "stop" /\ v \in ts[j].validators
    BY <1>3 DEF Stopped
  <2>2. j # 1 /\ j - 1 > i
    BY <2>1
  <2>3. QED BY <1>2, <2>1, <2>2 DEF Stopped
<1>4. ASSUME NEW v, Stopped(ts, v, 0)
      PROVE  Stopped(u, v, 0) \/ (Head(ts).type = "stop" /\ v \in Head(ts).validators)
  <2>1. PICK j \in 1 .. Len(ts) : ts[j].type = "stop" /\ v \in ts[j].validators
    BY <1>4 DEF Stopped
  <2>2. CASE j = 1
    BY <1>1, <2>1, <2>2
  <2>3. CASE j # 1
    <3>1. j - 1 > 0
      BY <2>3
    <3>2. QED BY <1>2, <2>1, <2>3, <3>1 DEF Stopped
  <2>4. QED BY <2>2, <2>3
<1>5. \A v : Tasked(ts, v) => Tasked(u, v) \/ v \in Head(ts).validators
  BY <1>1, <1>2 DEF Tasked
<1>6. 1 \in 1 .. Len(ts)
  BY <1>1
<1>7. QED BY <1>1, <1>2, <1>3, <1>4, <1>5, <1>6 DEF u

LEMMA TaskValidators ==
  ASSUME ControllerTypes, NEW i \in 1 .. Len(tasks)
  PROVE  tasks[i] \in Task /\ tasks[i].validators \subseteq Validators
<1>1. tasks[i] \in Task
  BY ElementOfSeq DEF ControllerTypes
<1>2. QED BY <1>1 DEF Task

\* Steps that neither start, stop nor change what is to run.
LEMMA SameUpKeepsRunning ==
  ASSUME RunningInv, ControllerTypes', UNCHANGED <<tasks, running, starting, missed, overtaken>>,
         \A v \in Validators : /\ Up(v)' <=> Up(v)
                               /\ Serves(v) => Serves(v)'
                               /\ Coming(v) => Coming(v)'
                               /\ Liquidated(v)' => Liquidated(v)
  PROVE  RunningInv'
<1>1. StopsFollowStarts /\ RunningIsUp /\ UpIsRunning /\ ControllerTypes
  BY DEF RunningInv
<1>2. StopsFollowStarts'
  BY <1>1, TaskValidators DEF StopsFollowStarts
<1>3. RunningIsUp'
  BY <1>1 DEF RunningIsUp
<1>4. UpIsRunning'
  BY <1>1 DEF UpIsRunning
<1>5. QED BY <1>2, <1>3, <1>4 DEF RunningInv

LEMMA QuietStepsKeepRunning ==
  ASSUME RunningInv,
         \/ \E b \in C!Block : NewBlock(b)
         \/ BeginBlock \/ CommitBlock \/ HandleMalformedValidatorAdded
         \/ HistoryDone \/ Started \/ SyncFails \/ InitialSyncDone
         \/ \E vs \in SUBSET Validators : AskMetadata(vs)
         \/ UNCHANGED vars
  PROVE  RunningInv'
<1>1. UNCHANGED <<mem, tasks, running, starting, missed, overtaken, blanked>>
  BY DEF NewBlock, BeginBlock, CommitBlock, HandleMalformedValidatorAdded, HistoryDone, Started,
         SyncFails, InitialSyncDone, AskMetadata, ctrlVars, historyVars, vars
<1>2. ControllerTypes
  BY DEF RunningInv
<1>3. \/ UNCHANGED <<phase, sync>>
      \/ phase = "history" /\ phase' = "syncing" /\ UNCHANGED sync
      \/ phase = "starting" /\ phase' = "up" /\ UNCHANGED sync
      \/ phase = "syncing" /\ phase' = "loading" /\ sync' = None
      \/ UNCHANGED phase /\ sync.step = "asked" /\ sync' = None
      \/ UNCHANGED phase /\ sync = None
  BY DEF NewBlock, BeginBlock, CommitBlock, HandleMalformedValidatorAdded, HistoryDone,
         Started, SyncFails, InitialSyncDone, AskMetadata, ctrlVars, vars
<1>4. ControllerTypes'
  BY <1>1, <1>2, <1>3 DEF ControllerTypes
<1>5. \A v \in Validators : Coming(v) => Coming(v)'
  BY <1>3 DEF Coming
<1>6. \A v \in Validators : /\ (Up(v)' <=> Up(v)) /\ (Serves(v)' <=> Serves(v))
                            /\ (Liquidated(v)' => Liquidated(v))
  BY <1>1 DEF Up, Serves, Liquidated
<1>7. QED BY <1>1, <1>4, <1>5, <1>6, SameUpKeepsRunning

\* A share just added has no metadata yet.
LEMMA AddKeepsRunning ==
  ASSUME RegistryInv, RunningInv, HandleValidatorAdded
  PROVE  RunningInv'
<1> DEFINE c == Current
<1>1. RegistryTypes /\ ControllerTypes
  BY DEF RegistryInv, RunningInv
<1>2. UNCHANGED <<tasks, running, starting, missed, overtaken, blanked, phase, sync>>
  BY DEF HandleValidatorAdded, ctrlVars, historyVars
<1>3. c \in Validators
  BY <1>1, HandlingIs, EventValidator DEF HandleValidatorAdded, Current
<1>4. ASSUME NEW v \in Validators
      PROVE  /\ (Up(v)' <=> Up(v)) /\ (Serves(v) => Serves(v)')
             /\ (Liquidated(v)' => Liquidated(v))
  <2>1. CASE mem[c] = None /\ HandleShareCreation(c)
    <3> DEFINE new == [liquidated |-> FALSE, metadata |-> FALSE]
    <3>1. mem'[v] = IF v = c THEN new ELSE mem[v]
      BY <1>1, <2>1 DEF HandleShareCreation, SaveShares, Over, At, RegistryTypes
    <3>2. QED BY <1>2, <2>1, <3>1 DEF Up, Serves, Liquidated
  <2>2. CASE UNCHANGED mem
    BY <1>2, <2>2 DEF Up, Serves, Liquidated
  <2>3. QED BY <2>1, <2>2 DEF HandleValidatorAdded
<1>5. ControllerTypes' /\ \A v \in Validators : Coming(v) => Coming(v)'
  BY <1>1, <1>2 DEF ControllerTypes, Coming
<1>6. QED BY <1>2, <1>4, <1>5, SameUpKeepsRunning

\* Handlers that add a task for what they changed.
LEMMA TaskKeepsRunning ==
  ASSUME RunningInv, phase # "history", NEW t \in Task, tasks' = Append(tasks, t),
         UNCHANGED <<running, starting, missed, overtaken, phase, sync>>,
         \A v \in Validators : /\ Up(v)' => Up(v) \/ v \in t.validators
                               /\ Serves(v) => Serves(v)' \/ (t.type = "stop" /\ v \in t.validators)
                               /\ Liquidated(v)' => /\ t.type = "stop"
                                                    /\ Liquidated(v) \/ v \in t.validators
  PROVE  RunningInv'
<1>1. StopsFollowStarts /\ RunningIsUp /\ UpIsRunning /\ ControllerTypes
  BY DEF RunningInv
<1>2. tasks \in Seq(Task) /\ Len(tasks) \in Nat
  BY <1>1, LenProperties DEF ControllerTypes
<1>3. /\ tasks' \in Seq(Task)
      /\ \A v, i : Stopped(tasks, v, i) => Stopped(tasks', v, i)
      /\ t.type = "stop" => \A i \in 0 .. Len(tasks) : \A v \in t.validators : Stopped(tasks', v, i)
      /\ \A v : Tasked(tasks, v) \/ v \in t.validators => Tasked(tasks', v)
      /\ \A i \in 1 .. Len(tasks') :
           IF i \in 1 .. Len(tasks) THEN tasks'[i] = tasks[i] ELSE tasks'[i] = t
  BY <1>2, AppendedTask
<1>4. ControllerTypes'
  BY <1>1, <1>3 DEF ControllerTypes
<1>5. StopsFollowStarts'
  <2> SUFFICES ASSUME NEW i \in 1 .. Len(tasks'), tasks'[i].type = "start",
                      NEW v \in tasks'[i].validators, Liquidated(v)'
               PROVE  Stopped(tasks', v, i)
    BY DEF StopsFollowStarts
  <2>1. v \in Validators
    <3>1. tasks'[i] \in Task
      BY <1>3, ElementOfSeq
    <3>2. QED BY <3>1 DEF Task
  <2>2. i \in 1 .. Len(tasks) /\ tasks'[i] = tasks[i]
    BY <1>3, <2>1
  <2>3. i \in 0 .. Len(tasks)
    BY <1>2, <2>2
  <2>4. CASE v \in t.validators
    BY <1>3, <2>1, <2>3, <2>4
  <2>5. CASE Liquidated(v)
    BY <1>1, <1>3, <2>2, <2>5 DEF StopsFollowStarts
  <2>6. QED BY <2>1, <2>4, <2>5
<1>6. RunningIsUp'
  <2>1. 0 \in 0 .. Len(tasks)
    BY <1>2
  <2>2. QED BY <1>1, <1>3, <2>1 DEF RunningIsUp
<1>7. UpIsRunning'
  BY <1>1, <1>3 DEF UpIsRunning, Coming
<1>8. QED BY <1>4, <1>5, <1>6, <1>7 DEF RunningInv

LEMMA RemoveKeepsRunning ==
  ASSUME RegistryInv, RunningInv, HandleValidatorRemoved
  PROVE  RunningInv'
<1> DEFINE c == Current
<1>1. RegistryTypes /\ ControllerTypes
  BY DEF RegistryInv, RunningInv
<1>2. UNCHANGED <<running, starting, missed, overtaken, blanked, phase, sync>>
  BY DEF HandleValidatorRemoved, historyVars
<1>3. c \in Validators
  BY <1>1, HandlingIs, EventValidator DEF HandleValidatorRemoved, Current
<1>4. CASE mem[c] = None
  <2>1. UNCHANGED <<mem, tasks>>
    BY <1>4 DEF HandleValidatorRemoved
  <2>2. \A v \in Validators : /\ Up(v)' <=> Up(v)
                              /\ Serves(v) => Serves(v)'
                              /\ Coming(v) => Coming(v)'
                              /\ Liquidated(v)' => Liquidated(v)
    BY <1>2, <2>1 DEF Up, Serves, Coming, Liquidated
  <2>3. ControllerTypes'
    BY <1>1, <1>2, <2>1 DEF ControllerTypes
  <2>4. QED BY <1>2, <2>1, <2>2, <2>3, SameUpKeepsRunning
<1>5. CASE mem[c] # None
  <2>1. SaveShares(At(c, None)) /\ AddTask("stop", {c})
    BY <1>5 DEF HandleValidatorRemoved
  <2>2. \A v \in Validators : mem'[v] = IF v = c THEN None ELSE mem[v]
    BY <1>1, <1>3, <2>1 DEF SaveShares, Over, At, RegistryTypes
  <2>3. CASE phase = "history"
    <3>1. ControllerTypes'
      BY <1>1, <1>2, <2>1, <2>3 DEF AddTask, ControllerTypes
    <3>2. RunningInv' \/ phase' # "history"
      <4>1. running' = {} /\ starting' = {} /\ tasks' = <<>> /\ phase' = "history"
        BY <1>2, <2>3, <3>1 DEF ControllerTypes
      <4>2. QED BY <3>1, <4>1
               DEF RunningInv, StopsFollowStarts, RunningIsUp, UpIsRunning, Coming
    <3>3. QED BY <1>2, <2>3, <3>2
  <2>4. CASE phase # "history"
    <3> DEFINE t == [type |-> "stop", validators |-> {c}]
    <3>1. t \in Task /\ t.type = "stop" /\ t.validators = {c} /\ tasks' = Append(tasks, t)
      BY <1>3, <2>1, <2>4 DEF Task, AddTask
    <3> HIDE DEF t
    <3>2. \A v \in Validators : /\ Up(v)' => Up(v)
                                /\ Serves(v) => Serves(v)' \/ v = c
                                /\ Liquidated(v)' => Liquidated(v)
      BY <1>2, <2>2 DEF Up, Serves, Liquidated
    <3>3. QED BY <1>2, <2>4, <3>1, <3>2, TaskKeepsRunning
  <2>5. QED BY <2>3, <2>4
<1>6. QED BY <1>4, <1>5

LEMMA ClusterKeepsRunning ==
  ASSUME RegistryInv, RunningInv, HandleClusterLiquidated \/ HandleClusterReactivated
  PROVE  RunningInv'
<1>1. RegistryTypes /\ ControllerTypes
  BY DEF RegistryInv, RunningInv
<1>2. UNCHANGED <<running, starting, missed, overtaken, blanked, phase, sync>>
  BY DEF HandleClusterLiquidated, HandleClusterReactivated, historyVars
<1>3. PICK l \in BOOLEAN : /\ SaveShares(ClusterShares(l))
                           /\ AddTask(IF l THEN "stop" ELSE "start", DOMAIN ClusterShares(l))
  <2>1. CASE HandleClusterLiquidated
    BY <2>1 DEF HandleClusterLiquidated
  <2>2. CASE HandleClusterReactivated
    BY <2>2 DEF HandleClusterReactivated
  <2>3. QED BY <2>1, <2>2
<1> DEFINE D == DOMAIN ClusterShares(l)
<1>4. D = {v \in Validators : mem[v] # None}
  BY DEF ClusterShares
<1>5. \A v \in D : mem'[v] = [mem[v] EXCEPT !.liquidated = l]
  BY <1>3 DEF SaveShares, Over, ClusterShares
<1>6. \A v \in Validators \ D : mem'[v] = mem[v] /\ mem[v] = None
  BY <1>1, <1>3, <1>4 DEF SaveShares, Over, RegistryTypes
<1>7. ASSUME NEW v \in D
      PROVE  mem'[v] # None /\ mem'[v].liquidated = l /\ mem'[v].metadata = mem[v].metadata
  <2>1. mem[v] \in Share /\ None \notin Share
    BY <1>1, <1>4, RegistryAssumption DEF RegistryTypes, Absentable, Share
  <2>2. mem'[v] = [mem[v] EXCEPT !.liquidated = l]
    BY <1>5
  <2>3. QED BY <2>1, <2>2 DEF Share
<1> HIDE DEF D
<1>8. CASE phase = "history"
  <2>1. tasks' = tasks
    BY <1>3, <1>8 DEF AddTask
  <2>2. ControllerTypes' /\ running' = {} /\ starting' = {} /\ tasks' = <<>> /\ phase' = "history"
    BY <1>1, <1>2, <1>8, <2>1 DEF ControllerTypes
  <2>3. QED BY <2>2 DEF RunningInv, StopsFollowStarts, RunningIsUp, UpIsRunning, Coming
<1>9. CASE phase # "history"
  <2> DEFINE t == [type |-> IF l THEN "stop" ELSE "start", validators |-> D]
  <2>1. /\ t \in Task /\ t.type = (IF l THEN "stop" ELSE "start") /\ t.validators = D
        /\ tasks' = Append(tasks, t)
    BY <1>3, <1>4, <1>9 DEF Task, AddTask, D
  <2> HIDE DEF t
  <2>2. \A v \in Validators : /\ Up(v)' => v \in D
                              /\ Serves(v) => v \in D
                              /\ Serves(v) /\ ~l => Serves(v)'
                              /\ Liquidated(v)' => l /\ v \in D
    BY <1>2, <1>4, <1>6, <1>7 DEF Up, Serves, Liquidated
  <2>3. QED BY <1>2, <1>9, <2>1, <2>2, TaskKeepsRunning
<1>10. QED BY <1>8, <1>9

LEMMA StopTaskKeepsRunning ==
  ASSUME RegistryInv, RunningInv, ExecuteTask, Head(tasks).type = "stop"
  PROVE  RunningInv'
<1> DEFINE vs == Head(tasks).validators
<1>1. StopsFollowStarts /\ RunningIsUp /\ UpIsRunning /\ ControllerTypes
  BY DEF RunningInv
<1>2. /\ tasks # <<>> /\ tasks' = Tail(tasks) /\ UNCHANGED <<mem, phase, starting, sync>>
      /\ running' = running \ vs /\ missed' = missed \ vs /\ blanked' = blanked \ vs
      /\ overtaken' = overtaken \cup (vs \cap starting)
           \cup {v \in vs \cap Eligible : mem[v].metadata}
  BY DEF ExecuteTask
<1>3. /\ tasks' \in Seq(Task)
      /\ \A v : \A i \in Nat : Stopped(tasks, v, i + 1) => Stopped(tasks', v, i)
      /\ \A v : Stopped(tasks, v, 0) => Stopped(tasks', v, 0) \/ v \in vs
      /\ \A v : Tasked(tasks, v) => Tasked(tasks', v) \/ v \in vs
      /\ \A i \in 1 .. Len(tasks') : i + 1 \in 1 .. Len(tasks) /\ tasks'[i] = tasks[i + 1] /\ i \in Nat
  BY <1>1, <1>2, FirstTaskDone DEF ControllerTypes
<1>4. ControllerTypes'
  BY <1>1, <1>2, <1>3 DEF ControllerTypes
<1>5. /\ \A v : Up(v)' = Up(v) /\ Liquidated(v)' = Liquidated(v) /\ Coming(v)' = Coming(v)
      /\ \A v : v \notin vs => Serves(v)' = Serves(v)
  BY <1>2 DEF Up, Serves, Liquidated, Coming
<1>6. StopsFollowStarts'
  BY <1>1, <1>3, <1>5 DEF StopsFollowStarts
<1>7. RunningIsUp'
  BY <1>1, <1>2, <1>3, <1>5 DEF RunningIsUp
<1>8. \A v \in vs \cap Validators : Up(v) => v \in overtaken'
  BY <1>2 DEF Up, Eligible
<1>9. UpIsRunning'
  BY <1>1, <1>2, <1>3, <1>5, <1>8 DEF UpIsRunning
<1>10. QED BY <1>4, <1>6, <1>7, <1>9 DEF RunningInv

LEMMA StartTaskKeepsRunning ==
  ASSUME RegistryInv, RunningInv, ExecuteTask, Head(tasks).type = "start"
  PROVE  RunningInv'
<1> DEFINE vs == Head(tasks).validators
           ready == {v \in vs : mem[v] # None /\ mem[v].metadata}
<1>1. StopsFollowStarts /\ RunningIsUp /\ UpIsRunning /\ ControllerTypes
  BY DEF RunningInv
<1>2. /\ tasks # <<>> /\ tasks' = Tail(tasks) /\ UNCHANGED <<mem, phase, starting, sync, blanked>>
      /\ overtaken' = overtaken \ ready
  BY DEF ExecuteTask
<1>3. PICK failed \in SUBSET ready : /\ running' = running \cup (ready \ failed)
                                     /\ missed' = (missed \ ready) \cup failed
  BY DEF ExecuteTask, Start
<1>4. /\ tasks' \in Seq(Task) /\ 1 \in 1 .. Len(tasks) /\ Head(tasks) = tasks[1]
      /\ \A v : \A i \in Nat : Stopped(tasks, v, i + 1) => Stopped(tasks', v, i)
      /\ \A v : Stopped(tasks, v, 0) => Stopped(tasks', v, 0)
      /\ \A v : Tasked(tasks, v) => Tasked(tasks', v) \/ v \in vs
      /\ \A i \in 1 .. Len(tasks') : i + 1 \in 1 .. Len(tasks) /\ tasks'[i] = tasks[i + 1] /\ i \in Nat
  BY <1>1, <1>2, FirstTaskDone DEF ControllerTypes
<1>5. ControllerTypes'
  <2>1. phase # "history"
    BY <1>1, <1>2 DEF ControllerTypes
  <2>2. QED BY <1>1, <1>2, <1>4, <2>1 DEF ControllerTypes
<1>6. \A v : /\ Up(v)' = Up(v) /\ Serves(v)' = Serves(v) /\ (Up(v) => Serves(v))
             /\ Liquidated(v)' = Liquidated(v) /\ Coming(v)' = Coming(v)
  BY <1>2 DEF Up, Serves, Liquidated, Coming
<1>7. StopsFollowStarts'
  BY <1>1, <1>4, <1>6 DEF StopsFollowStarts
<1>8. ASSUME NEW v \in ready
      PROVE  Up(v) \/ Stopped(tasks', v, 0)
  <2>1. CASE Liquidated(v)
    <3>1. Stopped(tasks, v, 1)
      BY <1>1, <1>4, <2>1 DEF StopsFollowStarts
    <3>2. Stopped(tasks, v, 0 + 1)
      BY <3>1
    <3>3. QED BY <1>4, <3>2
  <2>2. CASE ~Liquidated(v)
    BY <2>2 DEF Up, Liquidated
  <2>3. QED BY <2>1, <2>2
<1>9. \A v \in vs : Up(v) => v \in ready
  BY DEF Up
<1> HIDE DEF ready
<1>10. RunningIsUp'
  BY <1>1, <1>2, <1>3, <1>4, <1>6, <1>8 DEF RunningIsUp
<1>11. UpIsRunning'
  BY <1>1, <1>2, <1>3, <1>4, <1>6, <1>9 DEF UpIsRunning
<1>12. QED BY <1>5, <1>7, <1>10, <1>11 DEF RunningInv

\* The controller lists what is to be started, all of it at start-up.
LEMMA ListingKeepsRunning ==
  ASSUME RunningInv, InitValidators \/ HandleMetadataUpdate
  PROVE  RunningInv'
<1>1. StopsFollowStarts /\ RunningIsUp /\ UpIsRunning /\ ControllerTypes
  BY DEF RunningInv
<1>2. UNCHANGED <<mem, tasks, running, missed, overtaken, blanked>>
  BY DEF InitValidators, HandleMetadataUpdate, historyVars
<1>3. \A v : /\ Up(v)' = Up(v) /\ Serves(v)' = Serves(v) /\ (Up(v) => Serves(v))
             /\ Liquidated(v)' = Liquidated(v)
  BY <1>2 DEF Up, Serves, Liquidated
<1>4. ControllerTypes'
  BY <1>1, <1>2 DEF ControllerTypes, InitValidators, HandleMetadataUpdate
<1>5. StopsFollowStarts'
  BY <1>1, <1>2, <1>3 DEF StopsFollowStarts
<1>6. \A v \in Validators : v \in starting' => Up(v)
  BY DEF InitValidators, HandleMetadataUpdate, Eligible, Up
<1>7. RunningIsUp'
  BY <1>1, <1>2, <1>3, <1>6 DEF RunningIsUp
<1>8. \A v \in Validators : Up(v) /\ (Coming(v) \/ v \in starting) => v \in starting'
  <2>1. CASE InitValidators
    BY <2>1 DEF InitValidators, Eligible, Up
  <2>2. CASE HandleMetadataUpdate
    BY <2>2 DEF HandleMetadataUpdate, Eligible, Up, Coming
  <2>3. QED BY <2>1, <2>2
<1>9. UpIsRunning'
  BY <1>1, <1>2, <1>3, <1>8 DEF UpIsRunning
<1>10. QED BY <1>4, <1>5, <1>7, <1>9 DEF RunningInv

LEMMA StartListedKeepsRunning ==
  ASSUME RunningInv, StartListed
  PROVE  RunningInv'
<1>1. StopsFollowStarts /\ RunningIsUp /\ UpIsRunning /\ ControllerTypes
  BY DEF RunningInv
<1>2. UNCHANGED <<mem, tasks, phase, sync, overtaken, blanked>> /\ starting # {} /\ starting' = {}
  BY DEF StartListed
<1>3. PICK failed \in SUBSET starting : /\ running' = running \cup (starting \ failed)
                                        /\ missed' = (missed \ starting) \cup failed
  BY DEF StartListed, Start
<1>4. \A v : /\ Up(v)' = Up(v) /\ Serves(v)' = Serves(v)
             /\ Liquidated(v)' = Liquidated(v) /\ Coming(v)' = Coming(v)
  BY <1>2 DEF Up, Serves, Liquidated, Coming
<1>5. ControllerTypes'
  BY <1>1, <1>2 DEF ControllerTypes
<1>6. StopsFollowStarts'
  BY <1>1, <1>2, <1>4 DEF StopsFollowStarts
<1>7. RunningIsUp'
  BY <1>1, <1>2, <1>3, <1>4 DEF RunningIsUp
<1>8. UpIsRunning'
  BY <1>1, <1>2, <1>3, <1>4 DEF UpIsRunning
<1>9. QED BY <1>5, <1>6, <1>7, <1>8 DEF RunningInv

LEMMA TimeoutKeepsRunning ==
  ASSUME RunningInv, UpdateSendTimeout
  PROVE  RunningInv'
<1>1. StopsFollowStarts /\ RunningIsUp /\ UpIsRunning /\ ControllerTypes
  BY DEF RunningInv
<1>2. /\ UNCHANGED <<mem, tasks, phase, running, starting, overtaken, blanked>> /\ sync' = None
      /\ missed' = missed \cup (sync.unknown \ running)
  BY DEF UpdateSendTimeout, ctrlVars
<1>3. \A v : /\ Up(v)' = Up(v) /\ Serves(v)' = Serves(v) /\ (Up(v) => Serves(v))
             /\ Liquidated(v)' = Liquidated(v)
  BY <1>2 DEF Up, Serves, Liquidated
<1>4. ControllerTypes'
  BY <1>1, <1>2 DEF ControllerTypes
<1>5. StopsFollowStarts'
  BY <1>1, <1>2, <1>3 DEF StopsFollowStarts
<1>6. RunningIsUp'
  BY <1>1, <1>2, <1>3 DEF RunningIsUp
<1>7. \A v : Coming(v) => v \in missed' \/ v \in running \/ Coming(v)'
  BY <1>2 DEF Coming
<1>8. UpIsRunning'
  BY <1>1, <1>2, <1>3, <1>7 DEF UpIsRunning
<1>9. QED BY <1>4, <1>5, <1>6, <1>8 DEF RunningInv

\* An answer of the beacon node, in memory: metadata becomes known, or is lost by
\* what runs on.
LEMMA AnswerIs ==
  ASSUME RegistryInv, sync # None, NEW vs \in SUBSET Validators,
         mem' = Over(Updated(vs), mem), blanked' = BlankedBy(vs), UNCHANGED <<running, starting>>
  PROVE  \A v \in Validators :
           /\ v \in running \cup starting /\ Serves(v) => Serves(v)'
           /\ Up(v)' => Up(v) \/ v \in Learned(vs)
           /\ Liquidated(v)' => Liquidated(v)
<1>1. RegistryTypes /\ sync.validators \subseteq Validators
  BY DEF RegistryInv, RegistryTypes, SyncRound
<1>2. /\ \A v \in Changed(vs) : /\ mem[v] # None /\ mem'[v] # None
                                /\ mem'[v].liquidated = mem[v].liquidated
                                /\ mem'[v].metadata = (v \in vs)
      /\ \A v \in Validators \ Changed(vs) : mem'[v] = mem[v]
  BY <1>1, UpdatedIs
<1>3. /\ Learned(vs) = Changed(vs) \cap vs
      /\ blanked' = (blanked \ Learned(vs)) \cup ((Changed(vs) \ vs) \cap (running \cup starting))
  BY DEF Learned, BlankedBy
<1> SUFFICES ASSUME NEW v \in Validators
             PROVE  /\ v \in running \cup starting /\ Serves(v) => Serves(v)'
                    /\ Up(v)' => Up(v) \/ v \in Learned(vs)
                    /\ Liquidated(v)' => Liquidated(v)
  OBVIOUS
<1>4. CASE v \in Changed(vs)
  <2>1. CASE v \in vs
    BY <1>2, <1>3, <1>4, <2>1 DEF Serves, Up, Liquidated
  <2>2. CASE v \notin vs
    BY <1>2, <1>3, <1>4, <2>2 DEF Serves, Up, Liquidated
  <2>3. QED BY <2>1, <2>2
<1>5. CASE v \notin Changed(vs)
  BY <1>2, <1>3, <1>5 DEF Serves, Up, Liquidated
<1>6. QED BY <1>4, <1>5

\* Metadata that becomes known is in the batch, or its share was asked for anew.
LEMMA UpdateKeepsRunning ==
  ASSUME RegistryInv, RunningInv, NEW vs \in SUBSET Validators, UpdateValidatorsMetadata(vs)
  PROVE  RunningInv'
<1> DEFINE batch == [sync EXCEPT !.step = "batch", !.validators = Changed(vs),
                                 !.unknown = Learned(vs) \cap sync.unknown]
<1>1. StopsFollowStarts /\ RunningIsUp /\ UpIsRunning /\ ControllerTypes /\ RegistryTypes
  BY DEF RunningInv, RegistryInv
<1>2. /\ mem' = Over(Updated(vs), mem) /\ sync # None /\ sync.step = "asked" /\ sync' = batch
      /\ missed' = missed \cup (Learned(vs) \ sync.unknown) /\ blanked' = BlankedBy(vs)
      /\ UNCHANGED <<tasks, phase, running, starting, overtaken>>
  BY DEF UpdateValidatorsMetadata, ctrlVars
<1>3. /\ sync' # None
      /\ sync'.step = "batch" /\ sync'.unknown = Learned(vs) \cap sync.unknown
  <2>1. sync \in SyncRound
    BY <1>1, <1>2 DEF RegistryTypes
  <2>2. sync' \in SyncRound
    BY UpdateWrites
  <2>3. None \notin SyncRound
    BY RegistryAssumption DEF SyncRound
  <2>4. batch.step = "batch" /\ batch.unknown = Learned(vs) \cap sync.unknown
    BY <2>1 DEF SyncRound
  <2>5. QED BY <1>2, <2>2, <2>3, <2>4
<1> HIDE DEF batch
<1>4. \A v \in Validators : /\ v \in running \cup starting /\ Serves(v) => Serves(v)'
                            /\ Up(v)' => Up(v) \/ v \in Learned(vs)
                            /\ Liquidated(v)' => Liquidated(v)
  BY <1>2, AnswerIs
<1>5. ControllerTypes'
  BY <1>1, <1>2 DEF ControllerTypes
<1>6. StopsFollowStarts'
  BY <1>1, <1>2, <1>4, TaskValidators DEF StopsFollowStarts
<1>7. RunningIsUp'
  BY <1>1, <1>2, <1>4 DEF RunningIsUp
<1>8. \A v : /\ Coming(v) => Coming(v)'
             /\ v \in Learned(vs) => v \in missed' \/ Coming(v)'
  BY <1>2, <1>3 DEF Coming
<1>9. UpIsRunning'
  BY <1>1, <1>2, <1>4, <1>8 DEF UpIsRunning
<1>10. QED BY <1>5, <1>6, <1>7, <1>9 DEF RunningInv

\* An answer that could not be saved is not handed on.
LEMMA SaveToDBFailsKeepsRunning ==
  ASSUME RegistryInv, RunningInv, NEW vs \in SUBSET Validators, SaveToDBFails(vs)
  PROVE  RunningInv'
<1>1. StopsFollowStarts /\ RunningIsUp /\ UpIsRunning /\ ControllerTypes
  BY DEF RunningInv
<1>2. /\ mem' = Over(Updated(vs), mem) /\ sync # None /\ sync.step = "asked"
      /\ missed' = missed \cup (Learned(vs) \ running) /\ blanked' = BlankedBy(vs)
      /\ UNCHANGED <<tasks, phase, running, starting, overtaken>>
  BY DEF SaveToDBFails, ctrlVars
<1>3. \A v \in Validators : /\ v \in running \cup starting /\ Serves(v) => Serves(v)'
                            /\ Up(v)' => Up(v) \/ v \in Learned(vs)
                            /\ Liquidated(v)' => Liquidated(v)
  BY <1>2, AnswerIs
<1>4. ControllerTypes'
  BY <1>1, <1>2 DEF ControllerTypes
<1>5. StopsFollowStarts'
  BY <1>1, <1>2, <1>3, TaskValidators DEF StopsFollowStarts
<1>6. RunningIsUp'
  BY <1>1, <1>2, <1>3 DEF RunningIsUp
<1>7. \A v : Coming(v) => Coming(v)'
  BY <1>2 DEF Coming
<1>8. UpIsRunning'
  BY <1>1, <1>2, <1>3, <1>7 DEF UpIsRunning
<1>9. QED BY <1>4, <1>5, <1>6, <1>8 DEF RunningInv

LEMMA EmptyControllerIsFine ==
  ASSUME running = {}, starting = {}, tasks = <<>>, phase = "history"
  PROVE  RunningInv
BY DEF RunningInv, ControllerTypes, StopsFollowStarts, RunningIsUp, UpIsRunning, Coming

\* While it syncs the history the process runs nothing.
LEMMA HandlerFailsKeepsRunning ==
  ASSUME RunningInv, HandlerFails
  PROVE  RunningInv'
<1>1. phase = "history" /\ UNCHANGED <<running, starting, tasks, phase>>
  BY DEF HandlerFails, ctrlVars
<1>2. running' = {} /\ starting' = {} /\ tasks' = <<>> /\ phase' = "history"
  BY <1>1 DEF RunningInv, ControllerTypes
<1>3. QED BY <1>2 DEF RunningInv, ControllerTypes, StopsFollowStarts, RunningIsUp, UpIsRunning, Coming

LEMMA CrashKeepsRunning ==
  ASSUME Crash
  PROVE  RunningInv'
BY DEF Crash, RunningInv, ControllerTypes, StopsFollowStarts, RunningIsUp, UpIsRunning, Coming

\* When nothing is under way the validators that are not liquidated and whose
\* metadata is known run, and no other but one that lost its metadata while it
\* ran, through every order of tasks, metadata updates, start-ups, retries and
\* crashes, with the exceptions that missed and overtaken record
\* (operator/validator, operator/validator/metadata).
THEOREM RunningMatchesRegistryHolds == Spec => []RunningMatchesRegistry
<1>1. Init => RunningInv
  BY EmptyControllerIsFine DEF Init
<1>2. RegistryInv /\ RunningInv /\ [Next]_vars => RunningInv'
  <2> SUFFICES ASSUME RegistryInv, RunningInv, [Next]_vars PROVE RunningInv'
    OBVIOUS
  <2>1. ExecuteTask => RunningInv'
    <3>1. ExecuteTask => Head(tasks).type \in {"stop", "start"}
      BY DEF ExecuteTask
    <3>2. QED BY <3>1, StopTaskKeepsRunning, StartTaskKeepsRunning
  <2>2. QED
    BY <2>1, QuietStepsKeepRunning, AddKeepsRunning, RemoveKeepsRunning, ClusterKeepsRunning,
       ListingKeepsRunning, StartListedKeepsRunning, TimeoutKeepsRunning, UpdateKeepsRunning,
       SaveToDBFailsKeepsRunning, HandlerFailsKeepsRunning, CrashKeepsRunning DEF Next
<1>3. RunningInv => RunningMatchesRegistry
  <2> SUFFICES ASSUME RunningInv, Quiet, NEW v \in Validators, v \notin missed, v \notin overtaken
               PROVE  /\ v \in Eligible /\ mem[v].metadata => v \in running
                      /\ v \in running => v \in Eligible /\ (mem[v].metadata \/ v \in blanked)
    BY DEF RunningMatchesRegistry
  <2>1. /\ tasks = <<>> /\ phase = "up" /\ sync = None /\ starting = {} /\ Len(tasks) = 0
    BY DEF Quiet
  <2>2. ~Tasked(tasks, v) /\ ~Stopped(tasks, v, 0) /\ ~Coming(v)
    BY <2>1 DEF Tasked, Stopped, Coming
  <2>3. (Up(v) => v \in running) /\ (v \in running => Serves(v))
    BY <2>1, <2>2 DEF RunningInv, RunningIsUp, UpIsRunning
  <2>4. QED BY <2>3 DEF Up, Serves, Eligible
<1>4. QED BY <1>1, <1>2, <1>3, RegistryInvHolds, PTL DEF Spec
====
