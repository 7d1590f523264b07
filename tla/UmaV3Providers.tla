--------------------------- MODULE UmaV3Providers ---------------------------
(***************************************************************************)
(* The condition providers that ask UMA's optimistic oracle V3: one        *)
(* UmaV3AssertionProvider, with a yes-or-no answer per market, and any     *)
(* number of UmaV3PriceProviders, with one asserted price each.  A         *)
(* whitelisted relayer asserts; hours later, and in any order, UMA settles *)
(* the assertion as true or false and calls the provider back.             *)
(*                                                                         *)
(* A question is what one answer record is kept for: a market of the       *)
(* assertion provider, or a price provider.  UMA is external.              *)
(***************************************************************************)
EXTENDS Integers, Sequences, FiniteSets

CONSTANTS
    AssertionProvider,   \* the contract that answers for Markets
    Markets,
    PriceProviders,      \* contracts, each with one answer
    Relayers,
    Descriptions, NoDescription,
    Data,                \* arguments of updateAssertionDataAndFetch
    UINT128,             \* 2^128 in the code
    Bonds, MinimumBond,  \* values of requiredBond; UMA's own minimum
    timeOut, ASSERTION_COOLDOWN, ASSERTION_LIVENESS,
    BlockTimes,
    MaxAssertions        \* bound on the assertions made

Providers == PriceProviders \cup {AssertionProvider}
Questions == Markets \cup PriceProviders
Ids == 1..MaxAssertions
LastBlock == CHOOSE t \in BlockTimes : \A u \in BlockTimes : u <= t

\* Timestamps are far from 0, so a record that was never written is stale.
ASSUME UmaAssumption ==
    /\ Markets \cap Providers = {} /\ AssertionProvider \notin PriceProviders
    /\ NoDescription \notin Descriptions
    /\ Data \subseteq Nat \ {0} /\ UINT128 \in Nat \ {0, 1}
    /\ Bonds \subseteq Nat /\ Bonds # {0} /\ MinimumBond \in Nat
    /\ timeOut \in Nat \ {0}
    /\ ASSERTION_COOLDOWN \in Nat /\ ASSERTION_LIVENESS \in Nat
    /\ BlockTimes \subseteq Nat
    /\ \A t \in BlockTimes : t > timeOut /\ t >= ASSERTION_COOLDOWN
    /\ MaxAssertions \in Nat

VARIABLES
    now,
    answers,             \* marketIdToAnswer and globalAnswer
    assertionIdToMarket, \* of the assertion provider
    description,         \* marketIdToAssertionDescription
    assertionData,       \* of each price provider
    whitelistRelayer,    \* per provider
    requiredBond,        \* per provider
    balance,             \* bond currency that a provider holds
    assertions           \* UMA's; an id is an index

setup == <<description, whitelistRelayer, requiredBond>>
vars == <<now, answers, assertionIdToMarket, assertionData, balance,
          assertions, setup>>

ProviderOf(q) == IF q \in Markets THEN AssertionProvider ELSE q

Answer == [activeAssertion : BOOLEAN, updatedAt : BlockTimes \cup {0},
           answer : 0..(UINT128 - 1), assertionId : Ids \cup {0}]

\* What is claimed of q, when, with how much at stake, and what came of it.
Assertion == [q : Questions, about : Descriptions \cup {NoDescription},
              data : 0..(UINT128 - 1), assertedAt : BlockTimes, bond : Nat,
              state : {"pending", "true", "false"},
              settledAt : BlockTimes \cup {0}]

UmaTypeOK ==
    /\ now \in BlockTimes
    /\ answers \in [Questions -> Answer]
    /\ assertionIdToMarket \in [Ids -> Questions \cup {NoDescription}]
    /\ description \in [Markets -> Descriptions \cup {NoDescription}]
    /\ assertionData \in [PriceProviders -> 0..(UINT128 - 1)]
    /\ whitelistRelayer \in [Providers -> SUBSET Relayers]
    /\ requiredBond \in [Providers -> Bonds]
    /\ balance \in [Providers -> Nat]
    /\ assertions \in Seq(Assertion) /\ Len(assertions) <= MaxAssertions

Init ==
    /\ now \in BlockTimes
    /\ answers = [q \in Questions |-> [activeAssertion |-> FALSE,
                     updatedAt |-> 0, answer |-> 0, assertionId |-> 0]]
    /\ assertionIdToMarket = [id \in Ids |-> NoDescription]
    /\ description = [m \in Markets |-> NoDescription]
    /\ assertionData = [p \in PriceProviders |-> 0]
    /\ whitelistRelayer = [p \in Providers |-> {}]
    /\ requiredBond \in [Providers -> Bonds]
    /\ requiredBond[AssertionProvider] # 0
    /\ balance = [p \in Providers |-> 0]
    /\ assertions = << >>

-----------------------------------------------------------------------------
(* Views.                                                                  *)

TimedOut(a) == now - a.updatedAt > timeOut

\* conditionMet(strike, m) does not revert and answers true.
MarketMet(m) ==
    LET a == answers[m]
    IN  ~a.activeAssertion /\ ~TimedOut(a) /\ a.answer = 1

\* The same of a price provider: an odd strike is met from above.
PriceMet(p, strike) ==
    LET a == answers[p]
    IN  /\ ~a.activeAssertion /\ ~TimedOut(a)
        /\ IF strike % 2 = 1 THEN strike < a.answer ELSE strike > a.answer

-----------------------------------------------------------------------------
(* Assertions.                                                             *)

\* mutant: an assertion can be made while another is running.
Idle_Always(q) == TRUE

Idle(q) == ~answers[q].activeAssertion

\* mutant: no cooldown.
CooledDown_Always(q) == TRUE

CooledDown(q) == now - answers[q].updatedAt >= ASSERTION_COOLDOWN

Bond(p) ==
    IF requiredBond[p] > MinimumBond THEN requiredBond[p] ELSE MinimumBond

\* mutant: the provider always pays.
Pulled_Never(p) == 0

\* A provider that cannot pay the bond takes all of it from the relayer.
Pulled(p) == IF balance[p] < Bond(p) THEN Bond(p) ELSE 0

Assert(q, about, data) ==
    LET p  == ProviderOf(q)
        id == Len(assertions) + 1
    IN  /\ Idle(q)
        /\ CooledDown(q)
        /\ balance' = [balance EXCEPT ![p] = @ + Pulled(p) - Bond(p)]
        /\ assertions' = Append(assertions,
              [q |-> q, about |-> about, data |-> data, assertedAt |-> now,
               bond |-> Bond(p), state |-> "pending", settledAt |-> 0])
        /\ answers' = [answers EXCEPT ![q].activeAssertion = TRUE,
                                      ![q].assertionId = id,
                                      ![q].answer =
                                          IF q \in Markets /\ @ = 1 THEN 0
                                          ELSE @]
        /\ assertionIdToMarket' = IF q \in Markets
                                  THEN [assertionIdToMarket EXCEPT ![id] = q]
                                  ELSE assertionIdToMarket

FetchAssertion(sender, m) ==
    /\ sender \in whitelistRelayer[AssertionProvider]
    /\ Assert(m, description[m], 0)
    /\ UNCHANGED <<now, assertionData, setup>>

\* The argument is checked before it is cut to 128 bits.
UpdateAssertionDataAndFetch(sender, p, newData) ==
    /\ newData # 0
    /\ sender \in whitelistRelayer[p]
    /\ assertionData' = [assertionData EXCEPT ![p] = newData % UINT128]
    /\ Assert(p, NoDescription, assertionData'[p])
    /\ UNCHANGED <<now, setup>>

\* Which record a callback is for.
QuestionOf(id) ==
    IF ProviderOf(assertions[id].q) = AssertionProvider
    THEN assertionIdToMarket[id] ELSE assertions[id].q

\* mutant: a false assertion leaves the answer as it was.
Outcome_Kept(q, truthful) ==
    IF ~truthful THEN answers[q].answer
    ELSE IF q \in Markets THEN 1 ELSE assertionData[q]

Outcome(q, truthful) ==
    IF ~truthful THEN 0 ELSE IF q \in Markets THEN 1 ELSE assertionData[q]

Resolved(q, truthful) ==
    [answers[q] EXCEPT !.updatedAt = now, !.activeAssertion = FALSE,
                       !.answer = Outcome(q, truthful)]

\* mutant: a callback is refused once the last answer has timed out.
AssertionResolvedCallback_Late(id, truthful) ==
    LET q == QuestionOf(id)
    IN  /\ answers[q].activeAssertion
        /\ ~TimedOut(answers[q])
        /\ answers' = [answers EXCEPT ![q] = Resolved(q, truthful)]
        /\ UNCHANGED <<assertionIdToMarket, assertionData, setup>>

AssertionResolvedCallback(id, truthful) ==
    LET q == QuestionOf(id)
    IN  /\ answers[q].activeAssertion
        /\ answers' = [answers EXCEPT ![q] = Resolved(q, truthful)]
        /\ UNCHANGED <<assertionIdToMarket, assertionData, setup>>

\* UMA settles an assertion once its liveness is over, or later if a dispute
\* went to a vote; a truthful one returns the bond to the asserter, which is
\* the provider.  A callback that reverts keeps the assertion from settling.
SettleAssertion(id, truthful) ==
    LET a == assertions[id]
        p == ProviderOf(a.q)
    IN  /\ a.state = "pending"
        /\ now >= a.assertedAt + ASSERTION_LIVENESS
        /\ assertions' = [assertions EXCEPT
              ![id].state = IF truthful THEN "true" ELSE "false",
              ![id].settledAt = now]
        /\ balance' = IF truthful THEN [balance EXCEPT ![p] = @ + a.bond]
                      ELSE balance
        /\ AssertionResolvedCallback(id, truthful)
        /\ UNCHANGED now

-----------------------------------------------------------------------------
(* The owner's operations.                                                 *)

\* mutant: a description can be replaced.
Undescribed_Always(m) == TRUE

Undescribed(m) == description[m] = NoDescription

SetAssertionDescription(m, d) ==
    /\ Undescribed(m)
    /\ description' = [description EXCEPT ![m] = d]
    /\ UNCHANGED <<now, answers, assertionIdToMarket, assertionData, balance,
                   assertions, whitelistRelayer, requiredBond>>

UpdateRequiredBond(p, newBond) ==
    /\ newBond # 0
    /\ requiredBond' = [requiredBond EXCEPT ![p] = newBond]
    /\ UNCHANGED <<now, answers, assertionIdToMarket, assertionData, balance,
                   assertions, description, whitelistRelayer>>

UpdateRelayer(p, relayer) ==
    /\ whitelistRelayer' = [whitelistRelayer EXCEPT
                              ![p] = (@ \ {relayer}) \cup ({relayer} \ @)]
    /\ UNCHANGED <<now, answers, assertionIdToMarket, assertionData, balance,
                   assertions, description, requiredBond>>

WithdrawBond(p) ==
    /\ balance' = [balance EXCEPT ![p] = 0]
    /\ UNCHANGED <<now, answers, assertionIdToMarket, assertionData,
                   assertions, setup>>

ResetAnswerAfterTimeout(ms) ==
    /\ answers' = [q \in Questions |->
          IF q \in ms /\ answers[q].answer = 1 /\ TimedOut(answers[q])
          THEN [answers[q] EXCEPT !.answer = 0] ELSE answers[q]]
    /\ UNCHANGED <<now, assertionIdToMarket, assertionData, balance,
                   assertions, setup>>

-----------------------------------------------------------------------------
Tick ==
    /\ \E t \in BlockTimes : t > now /\ now' = t
    /\ UNCHANGED <<answers, assertionIdToMarket, assertionData, balance,
                   assertions, setup>>

\* Bounds: so many assertions, each early enough for UMA to settle it.
RelayerNext ==
    /\ Len(assertions) < MaxAssertions
    /\ now + ASSERTION_LIVENESS <= LastBlock
    /\ \E sender \in Relayers :
          \/ \E m \in Markets : FetchAssertion(sender, m)
          \/ \E p \in PriceProviders, newData \in Data :
                UpdateAssertionDataAndFetch(sender, p, newData)

UmaNext ==
    \E id \in DOMAIN assertions, truthful \in BOOLEAN :
        SettleAssertion(id, truthful)

OwnerNext ==
    \/ \E m \in Markets, d \in Descriptions : SetAssertionDescription(m, d)
    \/ \E p \in Providers, newBond \in Bonds : UpdateRequiredBond(p, newBond)
    \/ \E p \in Providers, relayer \in Relayers : UpdateRelayer(p, relayer)
    \/ \E p \in Providers : WithdrawBond(p)
    \/ \E ms \in SUBSET Markets : ResetAnswerAfterTimeout(ms)

Next == Tick \/ RelayerNext \/ UmaNext \/ OwnerNext

Spec == Init /\ [][Next]_vars

\* Blocks are produced, and anyone may settle an assertion for its bond.
LiveSpec == Spec /\ WF_vars(Tick) /\ WF_vars(UmaNext)

-----------------------------------------------------------------------------
Made(q) == {id \in DOMAIN assertions : assertions[id].q = q}
Pending(q) == {id \in Made(q) : assertions[id].state = "pending"}
Settled(q) == Made(q) \ Pending(q)
LastSettled(q) ==
    assertions[CHOOSE id \in Settled(q) : \A i \in Settled(q) : i <= id]

\* Provider and oracle agree on what is running, although they change at
\* different times: at most one assertion per question, under the id the
\* provider has stored, found again from that id.  If they did not, the
\* callback (UmaV3AssertionProvider.sol:168) would revert and UMA could never
\* settle, or an answer would be written to another market.
OneAssertionEach ==
    \A q \in Questions :
        /\ answers[q].activeAssertion <=> Pending(q) # {}
        /\ \A id \in Pending(q) :
              id = answers[q].assertionId /\ QuestionOf(id) = q

\* What makes it inductive: an assertion on a market is filed under its id.
Filed ==
    \A id \in DOMAIN assertions :
        assertions[id].q \in Markets =>
            assertionIdToMarket[id] = assertions[id].q

UmaInv == UmaTypeOK /\ Filed /\ OneAssertionEach

\* A market's condition is met only on the strength of its latest assertion,
\* which UMA settled as true no longer than timeOut ago and which was made with
\* the market's description, or before it had one.  A price is the one that
\* was last claimed of its provider and found true, or 0.
AnswersJustified ==
    /\ \A m \in Markets : MarketMet(m) =>
          /\ Settled(m) # {}
          /\ LastSettled(m).state = "true"
          /\ now <= LastSettled(m).settledAt + timeOut
          /\ LastSettled(m).about \in {description[m], NoDescription}
    /\ \A p \in PriceProviders :
          answers[p].answer # 0 /\ Idle(p) =>
             /\ Settled(p) # {}
             /\ LastSettled(p).state = "true"
             /\ answers[p].answer = LastSettled(p).data

\* A keeper who sees a market's condition met has the cooldown to act on it:
\* before, no relayer can replace the answer with a new assertion
\* (UmaV3AssertionProvider.sol:249), and while it counts the owner cannot
\* reset it (line 153).
TrueAnswerStands ==
    [][\A m \in Markets :
          MarketMet(m) /\ answers'[m] # answers[m] =>
              now - answers[m].updatedAt >= ASSERTION_COOLDOWN]_vars

\* Every assertion comes back: a provider never stays silent for ever because
\* its callback is refused.
AssertionsResolve ==
    \A q \in Questions :
        answers[q].activeAssertion ~> ~answers[q].activeAssertion

\* "Otherwise, assertedOutcomeId is reset and the market can be asserted
\* again" (UmaV3PriceProvider.sol:123): an assertion that UMA found false
\* decides nothing.
FalseAssertionDecidesNothing ==
    \A p \in PriceProviders : \A strike \in 1..(UINT128 - 1) :
        PriceMet(p, strike) /\ Settled(p) # {} =>
            LastSettled(p).state = "true"
=============================================================================
