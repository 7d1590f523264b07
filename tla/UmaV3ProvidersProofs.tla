------------------------ MODULE UmaV3ProvidersProofs ------------------------
(***************************************************************************)
(* Providers and oracle agree on the running assertions, for any markets,  *)
(* price providers, relayers, data, times and number of assertions.        *)
(***************************************************************************)
EXTENDS UmaV3Providers, TLAPS

\* No assertion has been made yet.
LEMMA InitInv == Init => UmaInv
<1> SUFFICES ASSUME Init PROVE UmaInv
  OBVIOUS
<1>1. UmaTypeOK
  <2>1. answers \in [Questions -> Answer]
    BY UmaAssumption DEF Init, Answer
  <2>2. balance \in [Providers -> Nat] /\ assertionData \in
           [PriceProviders -> 0..(UINT128 - 1)]
    BY UmaAssumption DEF Init
  <2>3. assertions \in Seq(Assertion) /\ Len(assertions) <= MaxAssertions
    BY UmaAssumption DEF Init
  <2> QED
    BY <2>1, <2>2, <2>3 DEF Init, UmaTypeOK
<1>2. Filed
  BY DEF Init, Filed
<1>3. OneAssertionEach
  BY DEF Init, OneAssertionEach, Pending, Made
<1> QED
  BY <1>1, <1>2, <1>3 DEF UmaInv

\* A bond is a natural number, and what is pulled covers what is missing.
LEMMA BondPaid ==
  ASSUME UmaTypeOK, NEW p \in Providers
  PROVE  /\ Bond(p) \in Nat
         /\ balance[p] + Pulled(p) - Bond(p) \in Nat
<1>1. requiredBond[p] \in Nat /\ balance[p] \in Nat /\ MinimumBond \in Nat
  BY UmaAssumption DEF UmaTypeOK
<1>2. Bond(p) \in Nat
  BY <1>1 DEF Bond
<1> QED
  BY <1>1, <1>2 DEF Pulled

\* Every question belongs to a provider.
LEMMA ProviderExists ==
  ASSUME NEW q \in Questions PROVE ProviderOf(q) \in Providers
BY DEF ProviderOf, Questions, Providers

\* A new assertion is the only one on its question.
LEMMA AssertKeepsInv ==
  ASSUME UmaInv, NEW q \in Questions,
         NEW about \in Descriptions \cup {NoDescription},
         NEW data \in 0..(UINT128 - 1),
         Len(assertions) < MaxAssertions,
         Assert(q, about, data)
  PROVE  /\ answers' \in [Questions -> Answer]
         /\ assertionIdToMarket' \in [Ids -> Questions \cup {NoDescription}]
         /\ balance' \in [Providers -> Nat]
         /\ assertions' \in Seq(Assertion)
         /\ Len(assertions') <= MaxAssertions
         /\ Filed' /\ OneAssertionEach'
<1>0. PICK id \in Nat : id = Len(assertions) + 1
  BY DEF UmaInv, UmaTypeOK
<1> DEFINE p == ProviderOf(q)
           a == [q |-> q, about |-> about, data |-> data, assertedAt |-> now,
                  bond |-> Bond(p), state |-> "pending", settledAt |-> 0]
<1>1. UmaTypeOK /\ Filed /\ OneAssertionEach
  BY DEF UmaInv
<1>2. p \in Providers /\ id \in Ids /\ Len(assertions) \in Nat
  BY <1>0, <1>1, ProviderExists, UmaAssumption DEF UmaTypeOK, Ids
<1>3. a \in Assertion
  BY <1>1, <1>2, BondPaid DEF UmaTypeOK, Assertion
<1>4. /\ assertions' \in Seq(Assertion)
      /\ Len(assertions') = id /\ DOMAIN assertions' = 1..id
      /\ DOMAIN assertions = 1..(id - 1)
      /\ assertions'[id] = a
      /\ \A i \in DOMAIN assertions : assertions'[i] = assertions[i]
  <2>1. assertions' = Append(assertions, a) /\ assertions \in Seq(Assertion)
    BY <1>1 DEF Assert, UmaTypeOK
  <2> HIDE DEF a
  <2> QED
    BY <1>0, <1>2, <1>3, <2>1
<1>5. /\ answers' \in [Questions -> Answer]
      /\ answers'[q].activeAssertion = TRUE /\ answers'[q].assertionId = id
      /\ \A r \in Questions \ {q} : answers'[r] = answers[r]
  <2>1. answers \in [Questions -> Answer] /\ answers[q] \in Answer
    BY <1>1 DEF UmaTypeOK
  <2>2. PICK v \in 0..(UINT128 - 1) :
           answers' = [answers EXCEPT ![q].activeAssertion = TRUE,
                                      ![q].assertionId = id,
                                      ![q].answer = v]
    <3>1. 0 \in 0..(UINT128 - 1) /\ answers[q].answer \in 0..(UINT128 - 1)
      BY <2>1, UmaAssumption DEF Answer
    <3> QED
      BY <1>0, <2>1, <3>1 DEF Assert
  <2> QED
    BY <1>2, <2>1, <2>2 DEF Answer
<1>6. assertionIdToMarket' \in [Ids -> Questions \cup {NoDescription}]
  BY <1>1, <1>2 DEF Assert, UmaTypeOK
<1>7. balance' \in [Providers -> Nat]
  <2>1. balance' = [balance EXCEPT ![p] = balance[p] + Pulled(p) - Bond(p)]
    BY <1>1, <1>2 DEF Assert, UmaTypeOK
  <2>2. balance[p] + Pulled(p) - Bond(p) \in Nat
    BY <1>1, <1>2, BondPaid
  <2> QED
    BY <1>1, <2>1, <2>2 DEF UmaTypeOK
<1>8. /\ \A i \in DOMAIN assertions :
             assertionIdToMarket'[i] = assertionIdToMarket[i]
      /\ q \in Markets => assertionIdToMarket'[id] = q
  <2>1. \A i \in DOMAIN assertions : i \in Ids /\ i # id
    BY <1>2, <1>4, UmaAssumption DEF Ids
  <2>2. assertionIdToMarket' =
           IF q \in Markets THEN [assertionIdToMarket EXCEPT ![id] = q]
           ELSE assertionIdToMarket
    BY <1>0 DEF Assert
  <2>3. assertionIdToMarket \in [Ids -> Questions \cup {NoDescription}]
    BY <1>1 DEF UmaTypeOK
  <2> QED
    BY <1>2, <2>1, <2>2, <2>3
<1>9. Filed'
  BY <1>1, <1>2, <1>4, <1>8 DEF Filed
<1>10. OneAssertionEach'
  <2>1. Pending(q) = {}
    BY <1>1 DEF OneAssertionEach, Assert, Idle
  <2>2. Pending(q)' = {id}
    <3>1. \A i \in DOMAIN assertions : assertions'[i].q = q =>
             assertions'[i].state # "pending"
      BY <1>4, <2>1 DEF Pending, Made
    <3>2. DOMAIN assertions' = DOMAIN assertions \cup {id}
      <4>1. id >= 1
        BY <1>0, <1>2
      <4>2. 1..id = (1..(id - 1)) \cup {id}
        BY <1>0, <4>1
      <4> QED
        BY <1>4, <4>2
    <3>3. assertions'[id].q = q /\ assertions'[id].state = "pending"
      BY <1>4
    <3> QED
      BY <3>1, <3>2, <3>3 DEF Pending, Made
  <2>3. \A r \in Questions \ {q} : Pending(r)' = Pending(r)
    BY <1>2, <1>4 DEF Pending, Made
  <2>4. QuestionOf(id)' = q
    <3>1. assertions'[id].q = q
      BY <1>4
    <3>2. CASE q \in Markets
      BY <1>8, <3>1, <3>2 DEF QuestionOf, ProviderOf
    <3>3. CASE q \notin Markets
      BY <3>1, <3>3, UmaAssumption DEF QuestionOf, ProviderOf, Questions
    <3> QED
      BY <3>2, <3>3
  <2>5. \A r \in Questions \ {q} : \A i \in Pending(r) :
           QuestionOf(i)' = QuestionOf(i)
    BY <1>4, <1>8 DEF QuestionOf, ProviderOf, Pending, Made
  <2>6. ASSUME NEW r \in Questions
        PROVE  /\ answers'[r].activeAssertion <=> Pending(r)' # {}
               /\ \A i \in Pending(r)' :
                     i = answers'[r].assertionId /\ QuestionOf(i)' = r
    <3>1. CASE r = q
      BY <1>5, <2>2, <2>4, <3>1 DEF Pending, Made, QuestionOf, ProviderOf
    <3>2. CASE r # q
      BY <1>1, <1>5, <2>3, <2>5, <3>2 DEF OneAssertionEach
    <3> QED
      BY <3>1, <3>2
  <2> QED
    BY <2>6 DEF OneAssertionEach
<1> QED
  BY <1>2, <1>4, <1>5, <1>6, <1>7, <1>9, <1>10 DEF Ids

\* Both kinds of providers assert in the same way.
LEMMA FetchKeepsInv ==
  ASSUME UmaInv, RelayerNext PROVE UmaInv'
<1>1. PICK sender \in Relayers :
         \/ \E m \in Markets : FetchAssertion(sender, m)
         \/ \E p \in PriceProviders, newData \in Data :
               UpdateAssertionDataAndFetch(sender, p, newData)
  BY DEF RelayerNext
<1>2. UmaTypeOK /\ Len(assertions) < MaxAssertions
  BY DEF UmaInv, RelayerNext
<1>3. ASSUME NEW m \in Markets, FetchAssertion(sender, m)
      PROVE  UmaInv'
  <2>1. /\ m \in Questions /\ 0 \in 0..(UINT128 - 1)
        /\ description[m] \in Descriptions \cup {NoDescription}
    BY <1>2, UmaAssumption DEF UmaTypeOK, Questions
  <2>2. Assert(m, description[m], 0)
    BY <1>3 DEF FetchAssertion
  <2> QED
    BY <1>2, <1>3, <2>1, <2>2, AssertKeepsInv
    DEF FetchAssertion, UmaInv, UmaTypeOK, setup
<1>4. ASSUME NEW p \in PriceProviders, NEW newData \in Data,
             UpdateAssertionDataAndFetch(sender, p, newData)
      PROVE  UmaInv'
  <2>1. newData % UINT128 \in 0..(UINT128 - 1)
    BY UmaAssumption
  <2>2. /\ assertionData' \in [PriceProviders -> 0..(UINT128 - 1)]
        /\ assertionData'[p] \in 0..(UINT128 - 1)
    BY <1>2, <1>4, <2>1 DEF UpdateAssertionDataAndFetch, UmaTypeOK
  <2>3. p \in Questions
    BY DEF Questions
  <2>4. Assert(p, NoDescription, assertionData'[p])
    BY <1>4 DEF UpdateAssertionDataAndFetch
  <2> QED
    BY <1>2, <1>4, <2>2, <2>3, <2>4, AssertKeepsInv
    DEF UpdateAssertionDataAndFetch, UmaInv, UmaTypeOK, setup
<1> QED
  BY <1>1, <1>3, <1>4

\* The callback is for the question that was asserted and closes it.
LEMMA SettleKeepsInv ==
  ASSUME UmaInv, UmaNext PROVE UmaInv'
<1>1. PICK id \in DOMAIN assertions, truthful \in BOOLEAN :
         SettleAssertion(id, truthful)
  BY DEF UmaNext
<1>0. PICK q : q = assertions[id].q
  OBVIOUS
<1> DEFINE p == ProviderOf(q)
<1>2. UmaTypeOK /\ Filed /\ OneAssertionEach
  BY DEF UmaInv
<1>3. /\ assertions[id] \in Assertion /\ q \in Questions
      /\ assertions[id].bond \in Nat /\ p \in Providers
  <2>1. assertions[id] \in Assertion
    BY <1>1, <1>2 DEF UmaTypeOK
  <2>2. q \in Questions /\ assertions[id].bond \in Nat
    BY <1>0, <2>1 DEF Assertion
  <2> QED
    BY <2>1, <2>2, ProviderExists
<1>4. id \in Pending(q) /\ QuestionOf(id) = q /\ Pending(q) = {id}
  <2>1. id \in Pending(q)
    BY <1>0, <1>1, <1>3 DEF SettleAssertion, Pending, Made
  <2>2. \A i \in Pending(q) : i = answers[q].assertionId /\ QuestionOf(i) = q
    BY <1>2, <1>3 DEF OneAssertionEach
  <2> QED
    BY <2>1, <2>2
<1>5. /\ DOMAIN assertions' = DOMAIN assertions
      /\ assertions' \in Seq(Assertion) /\ Len(assertions') = Len(assertions)
      /\ assertions'[id].q = q /\ assertions'[id].state # "pending"
      /\ \A i \in DOMAIN assertions \ {id} : assertions'[i] = assertions[i]
  <2> DEFINE s == IF truthful THEN "true" ELSE "false"
             b == [assertions[id] EXCEPT !.state = s, !.settledAt = now]
  <2>1. assertions' = [assertions EXCEPT ![id] = b]
    BY <1>1 DEF SettleAssertion
  <2>2. b \in Assertion /\ b.q = q /\ b.state # "pending"
    BY <1>0, <1>2, <1>3 DEF Assertion, UmaTypeOK
  <2>3. assertions \in Seq(Assertion)
    BY <1>2 DEF UmaTypeOK
  <2> HIDE DEF b
  <2> QED
    BY <2>1, <2>2, <2>3
<1>6. /\ answers' \in [Questions -> Answer]
      /\ ~answers'[q].activeAssertion
      /\ \A r \in Questions \ {q} : answers'[r] = answers[r]
  <2>1. answers' = [answers EXCEPT ![q] = Resolved(q, truthful)]
    BY <1>1, <1>4 DEF SettleAssertion, AssertionResolvedCallback
  <2>2. Outcome(q, truthful) \in 0..(UINT128 - 1)
    <3>1. CASE q \in PriceProviders
      <4>1. assertionData[q] \in 0..(UINT128 - 1)
        BY <1>2, <3>1 DEF UmaTypeOK
      <4>2. 0 \in 0..(UINT128 - 1) /\ 1 \in 0..(UINT128 - 1)
        BY UmaAssumption
      <4> QED
        BY <4>1, <4>2 DEF Outcome
    <3>2. CASE q \in Markets
      BY <3>2, UmaAssumption DEF Outcome
    <3> QED
      BY <1>3, <3>1, <3>2 DEF Questions
  <2>3. Resolved(q, truthful) \in Answer /\
        ~Resolved(q, truthful).activeAssertion
    <3>1. answers[q] \in Answer /\ now \in BlockTimes \cup {0}
      BY <1>2, <1>3 DEF UmaTypeOK
    <3> QED
      BY <2>2, <3>1 DEF Resolved, Answer
  <2> QED
    BY <1>2, <1>3, <2>1, <2>3 DEF UmaTypeOK
<1>7. balance' \in [Providers -> Nat]
  BY <1>0, <1>1, <1>2, <1>3 DEF SettleAssertion, UmaTypeOK
<1>8. /\ UNCHANGED <<now, assertionIdToMarket, assertionData>>
      /\ UNCHANGED <<description, whitelistRelayer, requiredBond>>
  BY <1>1 DEF SettleAssertion, AssertionResolvedCallback, setup
<1>9. UmaTypeOK'
  BY <1>2, <1>5, <1>6, <1>7, <1>8 DEF UmaTypeOK
<1>10. Filed'
  BY <1>0, <1>2, <1>5, <1>8 DEF Filed
<1>11. OneAssertionEach'
  <2>1. Pending(q)' = {}
    BY <1>4, <1>5 DEF Pending, Made
  <2>2. \A r \in Questions \ {q} : Pending(r)' = Pending(r)
    BY <1>0, <1>5 DEF Pending, Made
  <2>3. \A i \in DOMAIN assertions : QuestionOf(i)' = QuestionOf(i)
    BY <1>0, <1>5, <1>8 DEF QuestionOf, ProviderOf
  <2>4. \A r \in Questions : Pending(r) \subseteq DOMAIN assertions
    BY DEF Pending, Made
  <2>5. ASSUME NEW r \in Questions
        PROVE  /\ answers'[r].activeAssertion <=> Pending(r)' # {}
               /\ \A i \in Pending(r)' :
                     i = answers'[r].assertionId /\ QuestionOf(i)' = r
    <3>1. CASE r = q
      BY <1>6, <2>1, <3>1 DEF Pending, Made
    <3>2. CASE r # q
      BY <1>2, <1>6, <2>2, <2>3, <2>4, <3>2 DEF OneAssertionEach
    <3> QED
      BY <3>1, <3>2
  <2> QED
    BY <2>5 DEF OneAssertionEach
<1> QED
  BY <1>9, <1>10, <1>11 DEF UmaInv

\* A step that leaves the assertions, their ids and what is active alone.
LEMMA Untouched ==
  ASSUME UmaInv, UmaTypeOK', UNCHANGED <<assertions, assertionIdToMarket>>,
         \A q \in Questions :
            /\ answers'[q].activeAssertion = answers[q].activeAssertion
            /\ answers'[q].assertionId = answers[q].assertionId
  PROVE  UmaInv'
<1>1. Filed'
  BY DEF UmaInv, Filed
<1>2. \A q \in Questions : Pending(q)' = Pending(q)
  BY DEF Pending, Made
<1>3. \A i : QuestionOf(i)' = QuestionOf(i)
  BY DEF QuestionOf, ProviderOf
<1>4. OneAssertionEach'
  BY <1>2, <1>3 DEF UmaInv, OneAssertionEach
<1> QED
  BY <1>1, <1>4 DEF UmaInv

\* The owner's operations change no running assertion.
LEMMA OwnerKeepsInv ==
  ASSUME UmaInv, OwnerNext PROVE UmaInv'
<1>1. UmaTypeOK
  BY DEF UmaInv
<1>2. ASSUME NEW m \in Markets, NEW d \in Descriptions,
             SetAssertionDescription(m, d)
      PROVE  UmaInv'
  BY <1>1, <1>2, Untouched DEF SetAssertionDescription, UmaTypeOK
<1>3. ASSUME NEW p \in Providers, NEW newBond \in Bonds,
             UpdateRequiredBond(p, newBond)
      PROVE  UmaInv'
  BY <1>1, <1>3, Untouched DEF UpdateRequiredBond, UmaTypeOK
<1>4. ASSUME NEW p \in Providers, NEW relayer \in Relayers,
             UpdateRelayer(p, relayer)
      PROVE  UmaInv'
  BY <1>1, <1>4, Untouched DEF UpdateRelayer, UmaTypeOK
<1>5. ASSUME NEW p \in Providers, WithdrawBond(p)
      PROVE  UmaInv'
  BY <1>1, <1>5, Untouched DEF WithdrawBond, UmaTypeOK, setup
<1>6. ASSUME NEW ms \in SUBSET Markets, ResetAnswerAfterTimeout(ms)
      PROVE  UmaInv'
  <2>1. \A q \in Questions : answers[q] \in Answer
    BY <1>1 DEF UmaTypeOK
  <2>2. \A q \in Questions :
           /\ answers'[q] \in Answer
           /\ answers'[q].activeAssertion = answers[q].activeAssertion
           /\ answers'[q].assertionId = answers[q].assertionId
    BY <1>6, <2>1, UmaAssumption DEF ResetAnswerAfterTimeout, Answer
  <2>3. answers' \in [Questions -> Answer]
    BY <1>6, <2>2 DEF ResetAnswerAfterTimeout
  <2> QED
    BY <1>1, <1>6, <2>2, <2>3, Untouched
    DEF ResetAnswerAfterTimeout, UmaTypeOK, setup
<1> QED
  BY <1>2, <1>3, <1>4, <1>5, <1>6 DEF OwnerNext

\* The invariant is inductive.
LEMMA NextKeepsInv == UmaInv /\ [Next]_vars => UmaInv'
<1> SUFFICES ASSUME UmaInv, [Next]_vars PROVE UmaInv'
  OBVIOUS
<1>1. CASE Tick
  BY <1>1, Untouched DEF Tick, UmaInv, UmaTypeOK, setup
<1>2. CASE UNCHANGED vars
  BY <1>2, Untouched DEF vars, UmaInv, UmaTypeOK, setup
<1> QED
  BY <1>1, <1>2, FetchKeepsInv, SettleKeepsInv, OwnerKeepsInv DEF Next

\* Every variable keeps its type; no provider pays a bond it does not have.
THEOREM UmaTypeCorrect == Spec => []UmaTypeOK
<1>1. UmaInv => UmaTypeOK
  BY DEF UmaInv
<1> QED
  BY InitInv, NextKeepsInv, <1>1, PTL DEF Spec

\* Provider and oracle never disagree on the running assertions, so no callback
\* is refused and none is taken for another market.
THEOREM CallbacksMatch == Spec => []OneAssertionEach
<1>1. UmaInv => OneAssertionEach
  BY DEF UmaInv
<1> QED
  BY InitInv, NextKeepsInv, <1>1, PTL DEF Spec

-----------------------------------------------------------------------------
(* Where an answer comes from.                                             *)

\* A record refers to the latest assertion of its question.
LatestFirst ==
    \A q \in Questions : \A id \in Made(q) : id <= answers[q].assertionId

\* A market's description does not change once an assertion was made with it.
DescriptionKept ==
    \A id \in DOMAIN assertions :
        assertions[id].q \in Markets =>
            assertions[id].about
                \in {description[assertions[id].q], NoDescription}

\* A price provider waits for the price it has stored.
DataKept ==
    \A p \in PriceProviders : \A id \in Pending(p) :
        assertions[id].data = assertionData[p]

\* The assertion a record refers to was settled as the record says.
AnswerSettled ==
    \A q \in Questions :
        Idle(q) /\ answers[q].answer # 0 =>
            LET last == assertions[answers[q].assertionId]
            IN  /\ answers[q].assertionId \in Made(q)
                /\ last.state = "true"
                /\ last.settledAt = answers[q].updatedAt
                /\ q \in PriceProviders => last.data = answers[q].answer

TrailInv ==
    UmaInv /\ LatestFirst /\ DescriptionKept /\ DataKept /\ AnswerSettled

\* A new assertion comes after all others and is the one its record refers to.
LEMMA AssertMakes ==
  ASSUME UmaInv, NEW q \in Questions, NEW about,
         NEW data, Assert(q, about, data)
  PROVE  LET id == answers'[q].assertionId
         IN  /\ id \in Nat /\ id \notin DOMAIN assertions
             /\ DOMAIN assertions' = DOMAIN assertions \cup {id}
             /\ assertions'[id].q = q /\ assertions'[id].state = "pending"
             /\ assertions'[id].about = about /\ assertions'[id].data = data
             /\ \A i \in DOMAIN assertions :
                   i <= id /\ assertions'[i] = assertions[i]
             /\ answers'[q].activeAssertion
             /\ \A r \in Questions \ {q} : answers'[r] = answers[r]
<1> DEFINE n == Len(assertions)
           a == [q |-> q, about |-> about, data |-> data, assertedAt |-> now,
                 bond |-> Bond(ProviderOf(q)), state |-> "pending",
                 settledAt |-> 0]
<1>1. /\ assertions \in Seq(Assertion) /\ n \in Nat
      /\ answers \in [Questions -> Answer]
  BY DEF UmaInv, UmaTypeOK
<1>2. assertions' = Append(assertions, a)
  BY DEF Assert
<1>3. answers'[q].assertionId = n + 1 /\ answers'[q].activeAssertion
  <2>1. answers[q] \in Answer
    BY <1>1
  <2> QED
    BY <1>1, <2>1 DEF Assert, Answer
<1>4. \A r \in Questions \ {q} : answers'[r] = answers[r]
  BY <1>1 DEF Assert
<1>5. /\ a.q = q /\ a.state = "pending" /\ a.about = about /\ a.data = data
  OBVIOUS
<1> HIDE DEF a
<1>6. /\ DOMAIN assertions = 1..n /\ DOMAIN assertions' = 1..(n + 1)
      /\ assertions'[n + 1] = a
      /\ \A i \in 1..n : assertions'[i] = assertions[i]
  BY <1>1, <1>2
<1>7. 1..(n + 1) = (1..n) \cup {n + 1} /\ n + 1 \notin 1..n
  BY <1>1
<1> QED
  BY <1>1, <1>3, <1>4, <1>5, <1>6, <1>7

\* A new assertion is the latest of its question and carries its data.
LEMMA AssertKeepsTrail ==
  ASSUME TrailInv, NEW q \in Questions, NEW about, NEW data,
         Assert(q, about, data), UNCHANGED description,
         q \in Markets => about \in {description[q], NoDescription},
         \A p \in PriceProviders \ {q} : assertionData'[p] = assertionData[p],
         q \in PriceProviders => assertionData'[q] = data
  PROVE  LatestFirst' /\ DescriptionKept' /\ DataKept' /\ AnswerSettled'
<1>1. PICK id : id = answers'[q].assertionId
  OBVIOUS
<1>2. /\ id \in Nat /\ id \notin DOMAIN assertions
      /\ DOMAIN assertions' = DOMAIN assertions \cup {id}
      /\ assertions'[id].q = q /\ assertions'[id].state = "pending"
      /\ assertions'[id].about = about /\ assertions'[id].data = data
      /\ \A i \in DOMAIN assertions :
            i <= id /\ assertions'[i] = assertions[i]
      /\ answers'[q].activeAssertion
      /\ \A r \in Questions \ {q} : answers'[r] = answers[r]
  BY <1>1, AssertMakes DEF TrailInv
<1>3. \A r \in Questions \ {q} : Made(r)' = Made(r) /\ Pending(r)' = Pending(r)
  BY <1>2 DEF Made, Pending
<1>4. Pending(q)' = {id}
  <2>1. Pending(q) = {}
    BY DEF TrailInv, UmaInv, OneAssertionEach, Assert, Idle
  <2> QED
    BY <1>2, <2>1 DEF Made, Pending
<1>5. \A r \in Questions : Made(r) \subseteq DOMAIN assertions
                        /\ Pending(r) \subseteq DOMAIN assertions
  BY DEF Made, Pending
<1>6. LatestFirst'
  <2>1. \A i \in Made(q)' : i <= id
    BY <1>2 DEF Made
  <2> QED
    BY <1>1, <1>2, <1>3, <2>1 DEF TrailInv, LatestFirst
<1>7. DescriptionKept'
  BY <1>2 DEF TrailInv, DescriptionKept
<1>8. DataKept'
  <2>1. ASSUME NEW r \in PriceProviders, NEW i \in Pending(r)'
        PROVE  assertions'[i].data = assertionData'[r]
    <3>1. r \in Questions
      BY DEF Questions
    <3>2. CASE r = q
      BY <1>2, <1>4, <2>1, <3>2
    <3>3. CASE r # q
      BY <1>2, <1>3, <1>5, <2>1, <3>1, <3>3 DEF TrailInv, DataKept
    <3> QED
      BY <3>2, <3>3
  <2> QED
    BY <2>1 DEF DataKept
<1>9. AnswerSettled'
  <2>1. ASSUME NEW r \in Questions, Idle(r)', answers'[r].answer # 0
        PROVE  LET last == assertions'[answers'[r].assertionId]
               IN  /\ answers'[r].assertionId \in Made(r)'
                   /\ last.state = "true"
                   /\ last.settledAt = answers'[r].updatedAt
                   /\ r \in PriceProviders => last.data = answers'[r].answer
    <3>1. r # q
      BY <1>2, <2>1 DEF Idle
    <3>2. answers'[r] = answers[r] /\ Idle(r) /\ answers[r].answer # 0
      BY <1>2, <2>1, <3>1 DEF Idle
    <3>3. /\ answers[r].assertionId \in Made(r)
          /\ Made(r)' = Made(r)
          /\ assertions'[answers[r].assertionId] =
                 assertions[answers[r].assertionId]
      BY <1>2, <1>3, <1>5, <3>1, <3>2 DEF TrailInv, AnswerSettled
    <3> QED
      BY <3>2, <3>3 DEF TrailInv, AnswerSettled
  <2> QED
    BY <2>1 DEF AnswerSettled
<1> QED
  BY <1>6, <1>7, <1>8, <1>9

\* The relayer's calls keep the trail of assertions.
LEMMA FetchKeepsTrail ==
  ASSUME TrailInv, RelayerNext PROVE TrailInv'
<1>1. UmaInv'
  BY FetchKeepsInv DEF TrailInv
<1>2. PICK sender \in Relayers :
         \/ \E m \in Markets : FetchAssertion(sender, m)
         \/ \E p \in PriceProviders, newData \in Data :
               UpdateAssertionDataAndFetch(sender, p, newData)
  BY DEF RelayerNext
<1>3. \A p \in PriceProviders : p \notin Markets
  BY UmaAssumption DEF Providers
<1>4. ASSUME NEW m \in Markets, FetchAssertion(sender, m)
      PROVE  TrailInv'
  <2>1. /\ Assert(m, description[m], 0) /\ m \in Questions
        /\ UNCHANGED <<description, assertionData>>
    BY <1>4 DEF FetchAssertion, setup, Questions
  <2> QED
    BY <1>1, <1>3, <2>1, AssertKeepsTrail DEF TrailInv
<1>5. ASSUME NEW p \in PriceProviders, NEW newData \in Data,
             UpdateAssertionDataAndFetch(sender, p, newData)
      PROVE  TrailInv'
  <2>1. PICK data : data = assertionData'[p]
    OBVIOUS
  <2>2. /\ Assert(p, NoDescription, data) /\ p \in Questions
        /\ UNCHANGED description
        /\ \A r \in PriceProviders \ {p} : assertionData'[r] = assertionData[r]
    BY <1>5, <2>1
       DEF UpdateAssertionDataAndFetch, setup, Questions, TrailInv, UmaInv,
           UmaTypeOK
  <2> QED
    BY <1>1, <2>1, <2>2, AssertKeepsTrail DEF TrailInv
<1> QED
  BY <1>2, <1>4, <1>5

\* UMA settles the assertion the record refers to, and the provider stores what
\* came of it.
LEMMA SettleCloses ==
  ASSUME UmaInv, NEW id \in DOMAIN assertions, NEW truthful \in BOOLEAN,
         SettleAssertion(id, truthful), NEW q, q = assertions[id].q
  PROVE  /\ q \in Questions /\ Pending(q) = {id}
         /\ id = answers[q].assertionId
         /\ assertions' = [assertions EXCEPT
                ![id].state = IF truthful THEN "true" ELSE "false",
                ![id].settledAt = now]
         /\ answers' = [answers EXCEPT ![q] = Resolved(q, truthful)]
         /\ UNCHANGED <<now, assertionData, description>>
<1>1. q \in Questions
  <2>1. assertions \in Seq(Assertion)
    BY DEF UmaInv, UmaTypeOK
  <2>2. assertions[id] \in Assertion
    BY <2>1
  <2> QED
    BY <2>2 DEF Assertion
<1>2. id \in Pending(q)
  BY DEF SettleAssertion, Pending, Made
<1>3. \A i \in Pending(q) : i = answers[q].assertionId /\ QuestionOf(i) = q
  BY <1>1 DEF UmaInv, OneAssertionEach
<1>4. QuestionOf(id) = q
  BY <1>2, <1>3
<1> QED
  BY <1>1, <1>2, <1>3, <1>4 DEF SettleAssertion, AssertionResolvedCallback, setup

\* The oracle's callbacks keep the trail of assertions.
LEMMA SettleKeepsTrail ==
  ASSUME TrailInv, UmaNext PROVE TrailInv'
<1>1. UmaInv'
  BY SettleKeepsInv DEF TrailInv
<1>2. PICK id \in DOMAIN assertions, truthful \in BOOLEAN :
         SettleAssertion(id, truthful)
  BY DEF UmaNext
<1>3. PICK q : q = assertions[id].q
  OBVIOUS
<1>4. /\ q \in Questions /\ Pending(q) = {id}
      /\ id = answers[q].assertionId
      /\ assertions' = [assertions EXCEPT
            ![id].state = IF truthful THEN "true" ELSE "false",
            ![id].settledAt = now]
      /\ answers' = [answers EXCEPT ![q] = Resolved(q, truthful)]
      /\ UNCHANGED <<now, assertionData, description>>
  BY <1>2, <1>3, SettleCloses DEF TrailInv
<1>5. /\ DOMAIN assertions' = DOMAIN assertions
      /\ \A i \in DOMAIN assertions :
            /\ assertions'[i].q = assertions[i].q
            /\ assertions'[i].about = assertions[i].about
            /\ assertions'[i].data = assertions[i].data
            /\ i # id => assertions'[i] = assertions[i]
      /\ assertions'[id].state = IF truthful THEN "true" ELSE "false"
      /\ assertions'[id].settledAt = now
  <2>1. assertions[id] \in Assertion
    BY DEF TrailInv, UmaInv, UmaTypeOK
  <2>2. /\ DOMAIN assertions' = DOMAIN assertions
        /\ \A i \in DOMAIN assertions : i # id => assertions'[i] = assertions[i]
    BY <1>4
  <2>3. assertions'[id] = [assertions[id] EXCEPT
            !.state = IF truthful THEN "true" ELSE "false",
            !.settledAt = now]
    BY <1>2, <1>4
  <2>4. /\ assertions'[id].q = assertions[id].q
        /\ assertions'[id].about = assertions[id].about
        /\ assertions'[id].data = assertions[id].data
        /\ assertions'[id].state = IF truthful THEN "true" ELSE "false"
        /\ assertions'[id].settledAt = now
    BY <2>1, <2>3 DEF Assertion
  <2> QED
    BY <2>2, <2>4
<1>6. /\ answers[q] \in Answer
      /\ answers'[q] = Resolved(q, truthful)
      /\ \A r \in Questions \ {q} : answers'[r] = answers[r]
  BY <1>4 DEF TrailInv, UmaInv, UmaTypeOK
<1>7. /\ answers'[q].assertionId = id /\ answers'[q].updatedAt = now
      /\ answers'[q].answer = Outcome(q, truthful)
  <2>1. PICK outcome : outcome = Outcome(q, truthful)
    OBVIOUS
  <2>2. answers'[q] = [answers[q] EXCEPT !.updatedAt = now,
                                         !.activeAssertion = FALSE,
                                         !.answer = outcome]
    BY <1>6, <2>1 DEF Resolved
  <2>3. answers[q].assertionId = id
    BY <1>4
  <2> QED
    BY <1>6, <2>1, <2>2, <2>3 DEF Answer
<1>8. \A r \in Questions : Made(r)' = Made(r) /\ Made(r) \subseteq DOMAIN assertions
  BY <1>5 DEF Made
<1>9. \A r \in Questions : Pending(r)' \subseteq Pending(r)
  BY <1>4, <1>5, <1>8 DEF Pending, Made
<1>10. LatestFirst'
  BY <1>4, <1>6, <1>7, <1>8 DEF TrailInv, LatestFirst
<1>11. DescriptionKept'
  BY <1>4, <1>5 DEF TrailInv, DescriptionKept
<1>12. DataKept'
  <2>1. \A p \in PriceProviders : p \in Questions
    BY DEF Questions
  <2>2. \A r \in Questions : Pending(r) \subseteq DOMAIN assertions
    BY DEF Pending, Made
  <2> QED
    BY <1>4, <1>5, <1>9, <2>1, <2>2 DEF TrailInv, DataKept
<1>13. AnswerSettled'
  <2>1. ASSUME NEW r \in Questions, Idle(r)', answers'[r].answer # 0
        PROVE  LET last == assertions'[answers'[r].assertionId]
               IN  /\ answers'[r].assertionId \in Made(r)'
                   /\ last.state = "true"
                   /\ last.settledAt = answers'[r].updatedAt
                   /\ r \in PriceProviders => last.data = answers'[r].answer
    <3>1. CASE r = q
      <4>1. truthful
        BY <1>7, <2>1, <3>1 DEF Outcome
      <4>2. r \in PriceProviders => r \notin Markets
        BY UmaAssumption DEF Providers
      <4>3. q \in PriceProviders => assertions[id].data = assertionData[q]
        BY <1>4 DEF TrailInv, DataKept
      <4>4. id \in Made(q)
        BY <1>3 DEF Made
      <4>5. q \in PriceProviders => Outcome(q, truthful) = assertions[id].data
        BY <3>1, <4>1, <4>2, <4>3 DEF Outcome
      <4>6. /\ answers'[q].assertionId = id /\ id \in Made(q)'
            /\ assertions'[id].data = assertions[id].data
            /\ assertions'[id].state = "true"
        BY <1>4, <1>5, <1>7, <1>8, <4>1, <4>4
      <4> QED
        BY <1>5, <1>7, <3>1, <4>5, <4>6
    <3>2. CASE r # q
      <4>1. answers'[r] = answers[r] /\ Idle(r) /\ answers[r].answer # 0
        BY <1>6, <2>1, <3>2 DEF Idle
      <4>2. /\ answers[r].assertionId \in Made(r)
            /\ answers[r].assertionId # id
        BY <1>3, <3>2, <4>1 DEF TrailInv, AnswerSettled, Made
      <4> QED
        BY <1>5, <1>8, <4>1, <4>2 DEF TrailInv, AnswerSettled
    <3> QED
      BY <3>1, <3>2
  <2> QED
    BY <2>1 DEF AnswerSettled
<1> QED
  BY <1>1, <1>10, <1>11, <1>12, <1>13 DEF TrailInv

\* The owner describes markets that have no description and resets answers.
LEMMA OwnerKeepsTrail ==
  ASSUME TrailInv, OwnerNext PROVE TrailInv'
<1>1. UmaInv' /\ UmaTypeOK
  BY OwnerKeepsInv DEF TrailInv, UmaInv
<1>2. UNCHANGED <<assertions, assertionData>>
  BY DEF OwnerNext, SetAssertionDescription, UpdateRequiredBond, UpdateRelayer,
         WithdrawBond, ResetAnswerAfterTimeout
<1>3. \A q \in Questions :
         /\ answers'[q].assertionId = answers[q].assertionId
         /\ answers'[q].activeAssertion = answers[q].activeAssertion
         /\ answers'[q].updatedAt = answers[q].updatedAt
         /\ answers'[q].answer \in {0, answers[q].answer}
  <2>1. \A q \in Questions : answers[q] \in Answer
    BY <1>1 DEF UmaTypeOK
  <2>2. ASSUME NEW ms \in SUBSET Markets, ResetAnswerAfterTimeout(ms),
               NEW q \in Questions
        PROVE  \/ answers'[q] = answers[q]
               \/ answers'[q] = [answers[q] EXCEPT !.answer = 0]
    BY <2>2 DEF ResetAnswerAfterTimeout
  <2>3. CASE \E ms \in SUBSET Markets : ResetAnswerAfterTimeout(ms)
    BY <2>1, <2>2, <2>3 DEF Answer
  <2>4. CASE UNCHANGED answers
    BY <2>4
  <2> QED
    BY <2>3, <2>4 DEF OwnerNext, SetAssertionDescription, UpdateRequiredBond,
         UpdateRelayer, WithdrawBond
<1>4. \A m \in Markets :
         description'[m] = description[m] \/ description[m] = NoDescription
  <2>1. CASE \E m \in Markets, d \in Descriptions :
                SetAssertionDescription(m, d)
    BY <1>1, <2>1 DEF SetAssertionDescription, Undescribed, UmaTypeOK
  <2>2. CASE UNCHANGED description
    BY <2>2
  <2> QED
    BY <2>1, <2>2 DEF OwnerNext, UpdateRequiredBond, UpdateRelayer,
         WithdrawBond, ResetAnswerAfterTimeout, setup
<1>5. \A q \in Questions : Made(q)' = Made(q) /\ Pending(q)' = Pending(q)
  BY <1>2 DEF Made, Pending
<1>6. LatestFirst'
  BY <1>3, <1>5 DEF TrailInv, LatestFirst
<1>7. DescriptionKept'
  BY <1>2, <1>4 DEF TrailInv, DescriptionKept
<1>8. DataKept'
  BY <1>2, <1>5 DEF TrailInv, DataKept, Questions
<1>9. AnswerSettled'
  BY <1>2, <1>3, <1>5 DEF TrailInv, AnswerSettled, Idle
<1> QED
  BY <1>1, <1>6, <1>7, <1>8, <1>9 DEF TrailInv

\* Every step keeps the trail of assertions.
LEMMA NextKeepsTrail == TrailInv /\ [Next]_vars => TrailInv'
<1> SUFFICES ASSUME TrailInv, [Next]_vars PROVE TrailInv'
  OBVIOUS
<1>1. UmaInv'
  BY NextKeepsInv DEF TrailInv
<1>2. ASSUME UNCHANGED <<answers, assertionData, assertions, description>>
      PROVE  TrailInv'
  BY <1>1, <1>2 DEF TrailInv, LatestFirst, DescriptionKept, DataKept,
         AnswerSettled, Idle, Made, Pending
<1>3. CASE Tick
  BY <1>2, <1>3 DEF Tick, setup
<1>4. CASE UNCHANGED vars
  BY <1>2, <1>4 DEF vars, setup
<1> QED
  BY <1>3, <1>4, FetchKeepsTrail, SettleKeepsTrail, OwnerKeepsTrail DEF Next

\* With no assertion made there is no trail.
LEMMA InitTrail == Init => TrailInv
<1> SUFFICES ASSUME Init PROVE TrailInv
  OBVIOUS
<1>1. \A q \in Questions : Made(q) = {} /\ Pending(q) = {}
  BY DEF Init, Made, Pending
<1>2. AnswerSettled
  BY DEF Init, AnswerSettled
<1>3. DescriptionKept
  BY DEF Init, DescriptionKept
<1> QED
  BY <1>1, <1>2, <1>3, InitInv DEF TrailInv, LatestFirst, DataKept, Questions

\* The assertion a record refers to is the last settled one when none is
\* running.
LEMMA LastIsReferred ==
  ASSUME TrailInv, NEW q \in Questions, Idle(q), answers[q].answer # 0
  PROVE  /\ Settled(q) # {}
         /\ LastSettled(q) = assertions[answers[q].assertionId]
<1> DEFINE id == answers[q].assertionId
<1>1. id \in Made(q) /\ \A i \in Made(q) : i <= id
  BY DEF TrailInv, AnswerSettled, LatestFirst
<1>2. Settled(q) = Made(q)
  BY DEF Settled, TrailInv, UmaInv, OneAssertionEach, Idle
<1>3. Made(q) \subseteq Nat
  BY DEF Made, TrailInv, UmaInv, UmaTypeOK
<1>4. \A i \in Settled(q) :
         (\A j \in Settled(q) : j <= i) <=> i = id
  BY <1>1, <1>2, <1>3
<1>5. (CHOOSE i \in Settled(q) : \A j \in Settled(q) : j <= i) = id
  BY <1>1, <1>2, <1>4
<1> QED
  BY <1>1, <1>2, <1>5 DEF LastSettled

\* Every answer that counts is the outcome of the latest assertion of its
\* question, found true, as old as the record says and made with the market's
\* description (assertionResolvedCallback and conditionMet).
THEOREM AnswersHaveReasons == Spec => []AnswersJustified
<1>1. TrailInv => AnswersJustified
  <2> SUFFICES ASSUME TrailInv PROVE AnswersJustified
    OBVIOUS
  <2>1. ASSUME NEW m \in Markets, MarketMet(m)
        PROVE  /\ Settled(m) # {}
               /\ LastSettled(m).state = "true"
               /\ now <= LastSettled(m).settledAt + timeOut
               /\ LastSettled(m).about \in {description[m], NoDescription}
    <3>1. /\ m \in Questions /\ Idle(m) /\ answers[m].answer # 0
          /\ ~TimedOut(answers[m])
      BY <2>1 DEF MarketMet, Idle, Questions
    <3>2. PICK id : id = answers[m].assertionId
      OBVIOUS
    <3>3. Settled(m) # {} /\ LastSettled(m) = assertions[id]
      BY <3>1, <3>2, LastIsReferred
    <3>4. /\ id \in DOMAIN assertions /\ assertions[id].q = m
          /\ assertions[id].state = "true"
          /\ assertions[id].settledAt = answers[m].updatedAt
      BY <3>1, <3>2 DEF TrailInv, AnswerSettled, Made
    <3>5. now <= answers[m].updatedAt + timeOut
      <4>1. /\ now \in Nat /\ answers[m].updatedAt \in Nat
            /\ timeOut \in Nat
        <5>1. BlockTimes \subseteq Nat /\ timeOut \in Nat
          BY UmaAssumption
        <5>2. answers[m] \in Answer /\ now \in BlockTimes
          BY <3>1 DEF TrailInv, UmaInv, UmaTypeOK
        <5>3. PICK t : t = answers[m].updatedAt
          OBVIOUS
        <5>4. t \in BlockTimes \cup {0}
          BY <5>2, <5>3 DEF Answer
        <5>5. t \in Nat
          BY <5>1, <5>4
        <5> QED
          BY <5>1, <5>2, <5>3, <5>5
      <4> QED
        BY <3>1, <4>1 DEF TimedOut
    <3>6. assertions[id].about \in {description[m], NoDescription}
      BY <3>4 DEF TrailInv, DescriptionKept
    <3> QED
      BY <3>3, <3>4, <3>5, <3>6
  <2>2. ASSUME NEW p \in PriceProviders, answers[p].answer # 0, Idle(p)
        PROVE  /\ Settled(p) # {}
               /\ LastSettled(p).state = "true"
               /\ answers[p].answer = LastSettled(p).data
    BY <2>2, LastIsReferred DEF TrailInv, AnswerSettled, Questions
  <2> QED
    BY <2>1, <2>2 DEF AnswersJustified
<1> QED
  BY InitTrail, NextKeepsTrail, <1>1, PTL DEF Spec

\* For the length of the cooldown nobody takes a market's true answer away from
\* the keeper who acts on it (_fetchAssertion and resetAnswerAfterTimeout).
THEOREM TrueAnswersStand == Spec => TrueAnswerStands
<1>1. ASSUME UmaInv, [Next]_vars, NEW m \in Markets,
             MarketMet(m), answers'[m] # answers[m]
      PROVE  now - answers[m].updatedAt >= ASSERTION_COOLDOWN
  <2>1. /\ Idle(m) /\ ~TimedOut(answers[m]) /\ m \in Questions
        /\ answers \in [Questions -> Answer]
    BY <1>1 DEF MarketMet, Idle, Questions, UmaInv, UmaTypeOK
  <2>2. CASE RelayerNext
    <3>1. PICK q, about, data : q \in Questions /\ Assert(q, about, data)
      BY <2>2 DEF RelayerNext, FetchAssertion, UpdateAssertionDataAndFetch,
             Questions
    <3>2. q = m
      <4>1. \A n \in Questions \ {q} : answers'[n] = answers[n]
        BY <2>1, <3>1 DEF Assert
      <4> QED
        BY <1>1, <2>1, <4>1
    <3> QED
      BY <3>1, <3>2 DEF Assert, CooledDown
  <2>3. CASE UmaNext
    <3>1. PICK id \in DOMAIN assertions, truthful \in BOOLEAN :
             SettleAssertion(id, truthful)
      BY <2>3 DEF UmaNext
    <3>2. PICK q : q = assertions[id].q
      OBVIOUS
    <3>3. /\ q \in Questions /\ Pending(q) = {id}
          /\ answers' = [answers EXCEPT ![q] = Resolved(q, truthful)]
      <4>1. UmaInv
        BY <1>1
      <4>2. /\ q \in Questions /\ Pending(q) = {id}
            /\ id = answers[q].assertionId
            /\ assertions' = [assertions EXCEPT
                   ![id].state = IF truthful THEN "true" ELSE "false",
                   ![id].settledAt = now]
            /\ answers' = [answers EXCEPT ![q] = Resolved(q, truthful)]
            /\ UNCHANGED <<now, assertionData, description>>
        BY <3>1, <3>2, <4>1, SettleCloses
      <4> QED
        BY <4>2
    <3>4. ~Idle(q)
      BY <1>1, <3>3 DEF UmaInv, OneAssertionEach, Idle
    <3> QED
      BY <1>1, <2>1, <3>3, <3>4
  <2>4. CASE OwnerNext
    BY <1>1, <2>1, <2>4 DEF OwnerNext, SetAssertionDescription,
       UpdateRequiredBond, UpdateRelayer, WithdrawBond, ResetAnswerAfterTimeout
  <2>5. CASE Tick \/ UNCHANGED vars
    BY <1>1, <2>5 DEF Tick, vars
  <2> QED
    BY <1>1, <2>2, <2>3, <2>4, <2>5 DEF Next
<1>2. UmaInv /\ [Next]_vars
      => [\A m \in Markets :
            MarketMet(m) /\ answers'[m] # answers[m] =>
                now - answers[m].updatedAt >= ASSERTION_COOLDOWN]_vars
  BY <1>1
<1> QED
  BY InitInv, NextKeepsInv, <1>2, PTL DEF Spec, TrueAnswerStands
=============================================================================
