------------------------- MODULE LedgerCommitsProofs -------------------------
(* Theorems about LedgerCommits, and about MemoryLedger beside it, for every set
   of strategies, balance, fee and bound, and every placing of the crashes. *)
EXTENDS MemoryLedger, FiniteSetTheorems, WellFoundedInduction, TLAPS

------------------------------------------------------------------------------
(* The inductive invariant: ids below nextId are the rows there are, and the
   operation under way has left exactly the rows its next commit expects. *)

RowsMatchIds ==
    \A i \in Ids : /\ status[i] = "none" <=> i >= nextId
                   /\ status[i] = "none" => opens[i] = 0 /\ closes[i] = 0

OnlyOpen(i) ==
    /\ i \in Ids /\ status[i] = "open" /\ owner[i] = op.strategy
    /\ closes[i] = 0

Expected ==
    /\ pc = "insert" => /\ op.id = nextId /\ nextId \in Ids
                        /\ OpenIds(op.strategy) = {}
    /\ pc = "openRow" => OnlyOpen(op.id) /\ opens[op.id] = 0
    /\ pc = "mark" => OnlyOpen(op.id)
    /\ pc = "closeRow" => /\ op.id \in Ids
                          /\ status[op.id] = "closed" /\ closes[op.id] = 0
                          /\ OpenIds(op.strategy) = {}
    /\ InFlight => op.strategy \in Strategies
    /\ pc \in {"insert", "openRow"} => op.net = -Fee
    /\ pc \in {"mark", "closeRow"} => op.net \in Nets
    /\ ~InFlight => op = NoOp

Inv == TypeOK /\ NeverRecordedTwice /\ RowsMatchIds /\ Expected

\* An empty ledger satisfies the invariant.
LEMMA InvInit == Init => Inv
<1> SUFFICES ASSUME Init PROVE Inv
    OBVIOUS
<1>1. Balance \in Int /\ MaxPositions \in Nat
    BY LedgerAssumption
<1>2. TypeOK
    BY <1>1 DEF Init, TypeOK, NoOp, Ids
<1>3. NeverRecordedTwice /\ RowsMatchIds /\ Expected
    BY <1>1 DEF Init, NeverRecordedTwice, RowsMatchIds, Expected, InFlight, Ids
<1> QED BY <1>2, <1>3 DEF Inv

\* The row a close has found is the strategy's only open one.
LEMMA NewestIsOpen ==
    ASSUME Inv, NEW s, OpenIds(s) # {}
    PROVE  /\ Newest(OpenIds(s)) \in Ids
           /\ status[Newest(OpenIds(s))] = "open" /\ owner[Newest(OpenIds(s))] = s
           /\ OpenIds(s) = {Newest(OpenIds(s))}
<1>1. PICK i \in Ids : i \in OpenIds(s)
    BY DEF OpenIds
<1>2. \A j \in OpenIds(s) : j = i
    BY <1>1 DEF OpenIds, Inv, NeverRecordedTwice
<1>3. i <= i
    BY LedgerAssumption DEF Ids
<1>4. Newest(OpenIds(s)) = i
    BY <1>1, <1>2, <1>3 DEF Newest
<1> QED BY <1>1, <1>2, <1>4 DEF OpenIds

\* The three commits of PositionManager.open keep the invariant.
LEMMA InvOpens ==
    ASSUME Inv, (\E s \in Strategies : OpenWallet(s)) \/ OpenInsert \/ OpenRow
    PROVE  Inv'
<1>0. Fee \in Nat /\ MaxPositions \in Nat
    BY LedgerAssumption
<1> USE DEF Inv
<1>1. ASSUME NEW s \in Strategies, OpenWallet(s) PROVE Inv'
    <2>1. TypeOK'
        BY <1>0, <1>1 DEF OpenWallet, TypeOK, Ids
    <2>2. NeverRecordedTwice' /\ RowsMatchIds'
        BY <1>1 DEF OpenWallet, NeverRecordedTwice, RowsMatchIds
    <2>3. Expected'
        BY <1>1 DEF OpenWallet, Expected, OpenIds, InFlight, OnlyOpen
    <2> QED BY <2>1, <2>2, <2>3
<1>2. CASE OpenInsert
    <2>1. /\ op.id = nextId /\ nextId \in Ids /\ nextId' = nextId + 1
          /\ op.strategy \in Strategies /\ OpenIds(op.strategy) = {}
          /\ status[nextId] = "none" /\ opens[nextId] = 0 /\ closes[nextId] = 0
        BY <1>0, <1>2 DEF OpenInsert, Expected, RowsMatchIds, InFlight, Ids
    <2>2. TypeOK'
        BY <1>0, <1>2, <2>1 DEF OpenInsert, TypeOK, Ids
    <2>3. NeverRecordedTwice'
        BY <1>2, <2>1 DEF OpenInsert, NeverRecordedTwice, OpenIds, TypeOK
    <2>4. RowsMatchIds'
        BY <1>0, <1>2, <2>1 DEF OpenInsert, RowsMatchIds, TypeOK, Ids
    <2>5. Expected'
        BY <1>2, <2>1 DEF OpenInsert, Expected, InFlight, OnlyOpen, TypeOK
    <2> QED BY <2>2, <2>3, <2>4, <2>5
<1>3. CASE OpenRow
    <2>1. OnlyOpen(op.id) /\ opens[op.id] = 0 /\ op.net \in Int /\ op.strategy \in Strategies
        BY <1>0, <1>3 DEF OpenRow, Expected, InFlight
    <2>2. TypeOK'
        BY <1>3, <2>1 DEF OpenRow, TypeOK, NoOp, OnlyOpen
    <2>3. NeverRecordedTwice' /\ RowsMatchIds'
        BY <1>3, <2>1 DEF OpenRow, NeverRecordedTwice, RowsMatchIds, OnlyOpen, TypeOK
    <2>4. Expected'
        BY <1>3 DEF OpenRow, Expected, InFlight, NoOp
    <2> QED BY <2>2, <2>3, <2>4
<1> QED BY <1>1, <1>2, <1>3

\* The three commits of PositionManager.close keep the invariant.
LEMMA InvCloses ==
    ASSUME Inv, (\E s \in Strategies : CloseWallet(s)) \/ CloseMark \/ CloseRow
    PROVE  Inv'
<1>0. Nets \subseteq Int /\ MaxPositions \in Nat
    BY LedgerAssumption
<1> USE DEF Inv
<1>1. ASSUME NEW s \in Strategies, CloseWallet(s) PROVE Inv'
    <2>1. PICK net \in Nets :
             /\ wallet' = [wallet EXCEPT ![s] = @ + net]
             /\ op' = [strategy |-> s, id |-> Newest(OpenIds(s)), net |-> net]
        BY <1>1 DEF CloseWallet
    <2>2. /\ OpenIds(s) # {} /\ pc' = "mark"
          /\ UNCHANGED <<status, owner, nextId, opens, closes, booked, crashes, torn, unbooked>>
        BY <1>1 DEF CloseWallet
    <2> DEFINE i == Newest(OpenIds(s))
    <2>3. i \in Ids /\ status[i] = "open" /\ owner[i] = s
        BY <2>2, NewestIsOpen
    <2> HIDE DEF i
    <2>4. op'.strategy = s /\ op'.id = i /\ op'.net = net
        BY <2>1 DEF i
    <2>5. closes[i] = 0
        BY <2>3 DEF NeverRecordedTwice, TypeOK
    <2>6. TypeOK'
        <3>1. wallet' \in [Strategies -> Int]
            BY <1>0, <2>1 DEF TypeOK
        <3>2. op' \in [strategy : Strategies \cup {"none"}, id : Nat, net : Int]
            BY <1>0, <2>1, <2>3 DEF Ids, i
        <3> QED BY <2>2, <3>1, <3>2 DEF TypeOK
    <2>7. NeverRecordedTwice' /\ RowsMatchIds'
        BY <2>2 DEF NeverRecordedTwice, RowsMatchIds
    <2>8. Expected'
        BY <2>2, <2>3, <2>4, <2>5 DEF Expected, InFlight, OnlyOpen
    <2> QED BY <2>6, <2>7, <2>8
<1>2. CASE CloseMark
    <2>1. OnlyOpen(op.id) /\ op.strategy \in Strategies /\ op.net \in Nets
        BY <1>2 DEF CloseMark, Expected, InFlight
    <2>2. TypeOK'
        BY <1>2 DEF CloseMark, TypeOK
    <2>3. NeverRecordedTwice' /\ RowsMatchIds'
        BY <1>2, <2>1 DEF CloseMark, NeverRecordedTwice, RowsMatchIds, OnlyOpen, TypeOK
    <2>4. OpenIds(op.strategy)' = {}
        BY <1>2, <2>1 DEF CloseMark, OpenIds, NeverRecordedTwice, OnlyOpen, TypeOK
    <2>5. Expected'
        BY <1>2, <2>1, <2>4 DEF CloseMark, Expected, InFlight, OnlyOpen, TypeOK
    <2> QED BY <2>2, <2>3, <2>5
<1>3. CASE CloseRow
    <2>1. /\ op.id \in Ids /\ status[op.id] = "closed" /\ closes[op.id] = 0
          /\ op.strategy \in Strategies /\ op.net \in Int
        BY <1>0, <1>3 DEF CloseRow, Expected, InFlight
    <2>2. TypeOK'
        BY <1>3, <2>1 DEF CloseRow, TypeOK, NoOp
    <2>3. NeverRecordedTwice' /\ RowsMatchIds'
        BY <1>3, <2>1 DEF CloseRow, NeverRecordedTwice, RowsMatchIds, TypeOK
    <2>4. Expected'
        BY <1>3 DEF CloseRow, Expected, InFlight, NoOp
    <2> QED BY <2>2, <2>3, <2>4
<1> QED BY <1>1, <1>2, <1>3

\* A crash between any two commits, and the restart, keep the invariant.
LEMMA InvCrashes ==
    ASSUME Inv, Crash \/ Restart \/ UNCHANGED vars
    PROVE  Inv'
<1> USE DEF Inv, ledger
<1>1. CASE Crash
    <2>1. TypeOK'
        <3>1. InFlight => op.strategy \in Strategies /\ op.net \in Int
            BY DEF Expected, TypeOK
        <3>2. unbooked' \in [Strategies -> Int]
            BY <1>1, <3>1 DEF Crash, TypeOK
        <3> QED BY <1>1, <3>2 DEF Crash, TypeOK, NoOp
    <2>2. NeverRecordedTwice' /\ RowsMatchIds' /\ Expected'
        BY <1>1 DEF Crash, NeverRecordedTwice, RowsMatchIds, Expected, InFlight
    <2> QED BY <2>1, <2>2
<1>2. CASE Restart
    BY <1>2 DEF Restart, TypeOK, NeverRecordedTwice, RowsMatchIds, Expected, InFlight
<1>3. CASE UNCHANGED vars
    BY <1>3 DEF vars, TypeOK, NeverRecordedTwice, RowsMatchIds, Expected, InFlight,
                OnlyOpen, OpenIds
<1> QED BY <1>1, <1>2, <1>3

\* Types, no double record, and for each point between two commits what the ledger
\* must hold there: every run of opens, closes, crashes and restarts keeps them.
THEOREM LedgerInvariant == Spec => []Inv
<1>1. Inv /\ [Next]_vars => Inv'
    BY InvOpens, InvCloses, InvCrashes DEF Next
<1> QED BY <1>1, InvInit, PTL DEF Spec

\* Every variable keeps its type.
THEOREM LedgerTypes == Spec => []TypeOK
<1>1. Inv => TypeOK
    BY DEF Inv
<1> QED BY <1>1, LedgerInvariant, PTL

\* Wherever the process dies and however often an operation is retried: no second
\* open row, no second trade of a kind for a position.
THEOREM NothingTwice == Spec => []NeverRecordedTwice
<1>1. Inv => NeverRecordedTwice
    BY DEF Inv
<1> QED BY <1>1, LedgerInvariant, PTL

------------------------------------------------------------------------------
(* The refinement.  The last commit of an operation, or the crash that cuts it
   short, is the promise's step; the commits before it are stutters. *)

PromisedWallet == [s \in Strategies |-> wallet[s] - Unfinished(s)]

Holders == {s \in Strategies : OpenIds(s) # {}}

\* The positions as the promise sees them, by the commit under way.
LEMMA HeldByPc ==
    /\ pc = "openRow" => Held = Holders \ {op.strategy}
    /\ pc = "closeRow" => Held = Holders \cup {op.strategy}
    /\ pc \notin {"openRow", "closeRow"} => Held = Holders
BY DEF Held, Holders

\* ... and after a step.
LEMMA HeldNext ==
    /\ pc' = "openRow" => Held' = Holders' \ {op.strategy'}
    /\ pc' = "closeRow" => Held' = Holders' \cup {op.strategy'}
    /\ pc' \notin {"openRow", "closeRow"} => Held' = Holders'
BY DEF Held, Holders

\* The empty ledger is an initial state of the promise.
LEMMA PromiseInit == Init => Promise!Init
<1> SUFFICES ASSUME Init PROVE Promise!Init
    OBVIOUS
<1>1. \A s \in Strategies : PromisedWallet[s] = Balance
    BY LedgerAssumption DEF Init, PromisedWallet, Unfinished, InFlight
<1>2. Holders = {}
    BY DEF Init, Holders, OpenIds
<1>3. Held = {}
    BY <1>2, HeldByPc DEF Init
<1> QED BY <1>1, <1>3 DEF Init, Promise!Init, PromisedWallet

\* Commits that only prepare.
LEMMA Stutters ==
    ASSUME PromisedWallet' = PromisedWallet, Held' = Held, UNCHANGED <<booked, torn>>
    PROVE  UNCHANGED Promise!pvars
BY DEF Promise!pvars, PromisedWallet

\* set_balance of an open is not yet a step of the promise.
LEMMA StepOpenWallet ==
    ASSUME Inv, NEW s \in Strategies, OpenWallet(s)
    PROVE  UNCHANGED Promise!pvars
<1>1. \A r \in Strategies : wallet'[r] - Unfinished(r)' = wallet[r] - Unfinished(r)
    BY LedgerAssumption DEF OpenWallet, Unfinished, InFlight, Inv, TypeOK
<1>2. Held' = Held
    BY HeldByPc, HeldNext DEF OpenWallet, Holders, OpenIds
<1> QED BY <1>1, <1>2, Stutters DEF PromisedWallet, OpenWallet

\* INSERT INTO positions is not yet one either: its trade is missing.
LEMMA StepOpenInsert ==
    ASSUME Inv, OpenInsert
    PROVE  UNCHANGED Promise!pvars
<1>1. PromisedWallet' = PromisedWallet
    BY DEF PromisedWallet, OpenInsert, Unfinished, InFlight
<1>2. op.strategy \notin Holders /\ Held = Holders
    BY HeldByPc DEF Inv, Expected, OpenInsert, Holders
<1>3. op.id \in Ids /\ status[op.id] = "none"
    BY LedgerAssumption DEF Inv, Expected, RowsMatchIds, OpenInsert, Ids
<1>4. \A r \in Strategies \ {op.strategy} : OpenIds(r)' = OpenIds(r)
    BY <1>3 DEF OpenInsert, OpenIds, Inv, TypeOK
<1>5. Held' = Holders' \ {op.strategy}
    BY HeldNext DEF OpenInsert
<1>6. Holders' \ {op.strategy} = Holders
    BY <1>2, <1>4 DEF Holders
<1> QED BY <1>1, <1>2, <1>5, <1>6, Stutters DEF OpenInsert

\* record_trade completes an open: a fill of the promise.
LEMMA StepOpenRow ==
    ASSUME Inv, OpenRow, NEW s \in Strategies, s = op.strategy
    PROVE  Promise!Open(s)
<1>1. op.net = -Fee /\ OnlyOpen(op.id)
    BY DEF Inv, Expected, OpenRow, InFlight
<1>2. s \in Holders /\ Held = Holders \ {s}
    BY <1>1, HeldByPc DEF OpenRow, OnlyOpen, Holders, OpenIds
<1>3. Held' = Holders'
    BY HeldNext DEF OpenRow
<1>4. Holders' = Holders
    BY DEF OpenRow, Holders, OpenIds
<1>5. s \notin Held /\ Held' = Held \cup {s}
    BY <1>2, <1>3, <1>4
<1>6. PromisedWallet' = [PromisedWallet EXCEPT ![s] = @ + -Fee]
    <2>1. \A r \in Strategies : wallet'[r] - Unfinished(r)'
              = IF r = s THEN (wallet[r] - Unfinished(r)) + -Fee ELSE wallet[r] - Unfinished(r)
        BY <1>1, LedgerAssumption DEF OpenRow, Unfinished, InFlight, Inv, TypeOK
    <2> QED BY <2>1, <1>1 DEF PromisedWallet
<1>7. booked' = [booked EXCEPT ![s] = @ + -Fee] /\ UNCHANGED torn
    BY <1>1 DEF OpenRow
<1> QED BY <1>5, <1>6, <1>7 DEF Promise!Open, Promise!Book, PromisedWallet

\* set_balance of a close is not yet a step of the promise.
LEMMA StepCloseWallet ==
    ASSUME Inv, NEW s \in Strategies, CloseWallet(s)
    PROVE  UNCHANGED Promise!pvars
<1>1. PICK net \in Nets :
         /\ wallet' = [wallet EXCEPT ![s] = @ + net]
         /\ op' = [strategy |-> s, id |-> Newest(OpenIds(s)), net |-> net]
    BY DEF CloseWallet
<1>2. \A r \in Strategies : wallet'[r] - Unfinished(r)' = wallet[r] - Unfinished(r)
    BY <1>1, LedgerAssumption DEF CloseWallet, Unfinished, InFlight, Inv, TypeOK
<1>3. Held' = Held
    BY HeldByPc, HeldNext DEF CloseWallet, Holders, OpenIds
<1> QED BY <1>2, <1>3, Stutters DEF PromisedWallet, CloseWallet

\* UPDATE positions SET status='closed' is not one either.
LEMMA StepCloseMark ==
    ASSUME Inv, CloseMark
    PROVE  UNCHANGED Promise!pvars
<1>1. PromisedWallet' = PromisedWallet
    BY DEF PromisedWallet, CloseMark, Unfinished, InFlight
<1>2. op.strategy \in Strategies /\ OnlyOpen(op.id)
    BY DEF Inv, Expected, CloseMark, InFlight
<1>3. op.strategy \in Holders /\ Held = Holders
    BY <1>2, HeldByPc DEF CloseMark, OnlyOpen, Holders, OpenIds
<1>4. \A r \in Strategies \ {op.strategy} : OpenIds(r)' = OpenIds(r)
    BY <1>2 DEF CloseMark, OpenIds, OnlyOpen, Inv, TypeOK
<1>5. Held' = Holders' \cup {op.strategy}
    BY HeldNext DEF CloseMark
<1>6. Holders' \cup {op.strategy} = Holders
    BY <1>2, <1>3, <1>4 DEF Holders
<1> QED BY <1>1, <1>3, <1>5, <1>6, Stutters DEF CloseMark

\* record_trade completes a close: a fill of the promise.
LEMMA StepCloseRow ==
    ASSUME Inv, CloseRow, NEW s \in Strategies, s = op.strategy
    PROVE  Promise!Close(s)
<1>1. op.net \in Nets /\ op.net \in Int /\ OpenIds(s) = {}
    BY LedgerAssumption DEF Inv, Expected, CloseRow, InFlight
<1>2. s \notin Holders /\ Held = Holders \cup {s}
    BY <1>1, HeldByPc DEF CloseRow, Holders
<1>3. Held' = Holders' /\ Holders' = Holders
    BY HeldNext DEF CloseRow, Holders, OpenIds
<1>4. s \in Held /\ Held' = Held \ {s}
    BY <1>2, <1>3
<1>5. PromisedWallet' = [PromisedWallet EXCEPT ![s] = @ + op.net]
    <2>1. \A r \in Strategies : wallet'[r] - Unfinished(r)'
              = IF r = s THEN (wallet[r] - Unfinished(r)) + op.net ELSE wallet[r] - Unfinished(r)
        BY <1>1 DEF CloseRow, Unfinished, InFlight, Inv, TypeOK
    <2> QED BY <2>1, <1>1 DEF PromisedWallet
<1>6. booked' = [booked EXCEPT ![s] = @ + op.net] /\ UNCHANGED torn
    BY DEF CloseRow
<1> QED BY <1>1, <1>4, <1>5, <1>6 DEF Promise!Close, Promise!Book, PromisedWallet

\* A crash between two commits is a torn step of the promise, else none.
LEMMA StepCrash ==
    ASSUME Inv, Crash
    PROVE  [Promise!Next]_Promise!pvars
<1>1. /\ ~InFlight' /\ Held' = Holders' /\ Holders' = Holders
      /\ UNCHANGED <<wallet, booked>>
    BY HeldNext DEF Crash, ledger, InFlight, Holders, OpenIds
<1>2. CASE ~InFlight
    <2>1. PromisedWallet' = PromisedWallet /\ Held' = Held
        BY <1>1, <1>2, HeldByPc DEF PromisedWallet, Unfinished, InFlight
    <2> QED BY <1>1, <1>2, <2>1, Stutters DEF Crash
<1>3. CASE InFlight
    <2>0. PICK s \in Strategies : s = op.strategy
        BY <1>3 DEF Inv, Expected
    <2>1. op.net \in Int /\ torn' = torn + 1
        BY <1>3, LedgerAssumption DEF Crash, Inv, TypeOK, Expected
    <2>2. PromisedWallet' = [PromisedWallet EXCEPT ![s] = @ + op.net]
        <3>1. \A r \in Strategies : wallet'[r] - Unfinished(r)'
                  = IF r = s THEN (wallet[r] - Unfinished(r)) + op.net
                             ELSE wallet[r] - Unfinished(r)
            BY <1>1, <1>3, <2>0, <2>1 DEF Unfinished, Inv, TypeOK
        <3> QED BY <3>1, <2>1 DEF PromisedWallet
    <2>3. PICK net \in Int : net = op.net
        BY <2>1
    <2>4. Promise!Torn(s, net)
        BY <1>1, <2>1, <2>2, <2>3 DEF Promise!Torn, PromisedWallet
    <2>5. CASE pc \in {"insert", "openRow"}
        <3>1. net = -Fee
            BY <2>3, <2>5 DEF Inv, Expected
        <3>2. s \notin Held /\ Held' \in {Held, Held \cup {s}}
            <4>1. CASE pc = "insert"
                BY <4>1, <2>0, <1>1, HeldByPc DEF Inv, Expected, Holders
            <4>2. CASE pc = "openRow"
                <5>1. s \in Holders
                    BY <4>2, <2>0 DEF Inv, Expected, OnlyOpen, Holders, OpenIds
                <5> QED BY <4>2, <2>0, <5>1, <1>1, HeldByPc
            <4> QED BY <2>5, <4>1, <4>2
        <3>3. Promise!TornOpen(s)
            BY <2>4, <3>1, <3>2 DEF Promise!TornOpen
        <3> QED BY <3>3 DEF Promise!Next
    <2>6. CASE pc \in {"mark", "closeRow"}
        <3>1. net \in Nets
            BY <2>3, <2>6 DEF Inv, Expected
        <3>2. s \in Held /\ Held' \in {Held, Held \ {s}}
            <4>1. CASE pc = "mark"
                <5>1. s \in Holders
                    BY <4>1, <2>0 DEF Inv, Expected, OnlyOpen, Holders, OpenIds
                <5> QED BY <4>1, <2>0, <5>1, <1>1, HeldByPc
            <4>2. CASE pc = "closeRow"
                <5>1. s \notin Holders
                    BY <4>2, <2>0 DEF Inv, Expected, Holders
                <5> QED BY <4>2, <2>0, <5>1, <1>1, HeldByPc
            <4> QED BY <2>6, <4>1, <4>2
        <3>3. Promise!TornClose(s)
            BY <2>4, <3>1, <3>2 DEF Promise!TornClose
        <3> QED BY <3>3 DEF Promise!Next
    <2> QED BY <1>3, <2>5, <2>6 DEF InFlight
<1> QED BY <1>2, <1>3

\* A restart is no step of the promise.
LEMMA StepRestart ==
    ASSUME Inv, Restart \/ UNCHANGED vars
    PROVE  UNCHANGED Promise!pvars
<1>1. PromisedWallet' = PromisedWallet /\ Held' = Held
    BY DEF Restart, vars, ledger, PromisedWallet, Unfinished, InFlight, Held, OpenIds
<1> QED BY <1>1, Stutters DEF Restart, vars, ledger

\* The three commits of an open and of a close, with crashes between them, are one
\* step of the promise, or a torn one.
THEOREM PromiseKept == Spec => KeepsPromise
<1>1. Inv /\ [Next]_vars => [Promise!Next]_Promise!pvars
    <2> SUFFICES ASSUME Inv, [Next]_vars PROVE [Promise!Next]_Promise!pvars
        OBVIOUS
    <2>1. ASSUME NEW s \in Strategies, OpenWallet(s) \/ CloseWallet(s)
          PROVE  UNCHANGED Promise!pvars
        BY <2>1, StepOpenWallet, StepCloseWallet
    <2>2. CASE OpenInsert \/ CloseMark \/ Restart \/ UNCHANGED vars
        BY <2>2, StepOpenInsert, StepCloseMark, StepRestart
    <2>3. CASE OpenRow
        <3>1. PICK s \in Strategies : s = op.strategy
            BY <2>3 DEF Inv, Expected, OpenRow, InFlight
        <3> QED BY <2>3, <3>1, StepOpenRow DEF Promise!Next
    <2>4. CASE CloseRow
        <3>1. PICK s \in Strategies : s = op.strategy
            BY <2>4 DEF Inv, Expected, CloseRow, InFlight
        <3> QED BY <2>4, <3>1, StepCloseRow DEF Promise!Next
    <2>5. CASE Crash
        BY <2>5, StepCrash
    <2> QED BY <2>1, <2>2, <2>3, <2>4, <2>5 DEF Next
<1> QED BY <1>1, PromiseInit, LedgerInvariant, PTL DEF Spec, KeepsPromise, Promise!Spec
------------------------------------------------------------------------------
(* What a crash costs.  The wallets differ from the trades by the torn operations and
   the one under way; a row is missing for each torn operation at most, and one more
   while the last commit of an operation is still to come. *)

Owed == IF pc \in {"openRow", "closeRow"} THEN 1 ELSE 0

CostInv ==
    /\ \A s \in Strategies : Drift(s) = unbooked[s] + Unfinished(s)
    /\ torn = 0 => \A s \in Strategies : unbooked[s] = 0
    /\ Cardinality(MissingRows) + Cardinality(MissingCloses) <= torn + Owed

\* The sets of missing rows are finite, so their sizes are numbers.
LEMMA MissingFinite ==
    /\ IsFiniteSet(MissingRows) /\ Cardinality(MissingRows) \in Nat
    /\ IsFiniteSet(MissingCloses) /\ Cardinality(MissingCloses) \in Nat
<1>1. MaxPositions \in Int /\ 1 \in Int
    BY LedgerAssumption
<1>2. IsFiniteSet(Ids)
    BY <1>1, FS_Interval DEF Ids
<1>3. MissingRows \subseteq Ids /\ MissingCloses \subseteq Ids
    BY DEF MissingRows, MissingCloses
<1>4. IsFiniteSet(MissingRows) /\ IsFiniteSet(MissingCloses)
    BY <1>2, <1>3, FS_Subset
<1> QED BY <1>4, FS_CardinalityType

\* One more missing row.
LEMMA OneMore ==
    ASSUME NEW S, IsFiniteSet(S), NEW x
    PROVE  Cardinality(S \cup {x}) \in Nat /\ Cardinality(S \cup {x}) <= Cardinality(S) + 1
<1>1. Cardinality(S) \in Nat
    BY FS_CardinalityType
<1>2. Cardinality(S \cup {x}) = IF x \in S THEN Cardinality(S) ELSE Cardinality(S) + 1
    BY FS_AddElement
<1> QED BY <1>1, <1>2

\* An empty ledger is short of nothing.
LEMMA CostInit == Init => CostInv
<1> SUFFICES ASSUME Init PROVE CostInv
    OBVIOUS
<1>1. \A s \in Strategies : Drift(s) = 0 /\ Unfinished(s) = 0 /\ unbooked[s] = 0
    BY LedgerAssumption DEF Init, Drift, Unfinished, InFlight
<1>2. MissingRows = {} /\ MissingCloses = {}
    BY DEF Init, MissingRows, MissingCloses
<1>3. Cardinality(MissingRows) = 0 /\ Cardinality(MissingCloses) = 0
    BY <1>2, FS_EmptySet
<1>4. torn = 0 /\ Owed = 0
    BY DEF Init, Owed
<1> QED BY <1>1, <1>3, <1>4 DEF CostInv

\* Commits that insert no row and no trade.
LEMMA CostSameRows ==
    ASSUME CostInv, UNCHANGED <<status, opens, closes, torn, unbooked>>, Owed' = Owed,
           \A s \in Strategies : Drift(s)' = unbooked[s] + Unfinished(s)'
    PROVE  CostInv'
<1>1. MissingRows' = MissingRows /\ MissingCloses' = MissingCloses
    BY DEF MissingRows, MissingCloses
<1> QED BY <1>1 DEF CostInv

\* The commits of an open: the row comes before its trade, and its trade after it.
LEMMA CostOpens ==
    ASSUME Inv, CostInv, (\E s \in Strategies : OpenWallet(s)) \/ OpenInsert \/ OpenRow
    PROVE  CostInv'
<1>0. torn \in Nat /\ Fee \in Nat /\ Balance \in Int
    BY LedgerAssumption DEF Inv, TypeOK
<1>1. ASSUME NEW s \in Strategies, OpenWallet(s) PROVE CostInv'
    <2>1. \A r \in Strategies : Drift(r)' = unbooked[r] + Unfinished(r)'
        BY <1>0, <1>1 DEF OpenWallet, Drift, Unfinished, InFlight, CostInv, Inv, TypeOK
    <2>2. UNCHANGED <<status, opens, closes, torn, unbooked>> /\ Owed' = Owed
        BY <1>1 DEF OpenWallet, Owed
    <2> QED BY <2>1, <2>2, CostSameRows
<1>2. CASE OpenInsert
    <2>1. /\ op.id \in Ids /\ status[op.id] = "none" /\ opens[op.id] = 0 /\ closes[op.id] = 0
          /\ status' = [status EXCEPT ![op.id] = "open"]
          /\ UNCHANGED <<opens, closes, torn, unbooked>>
        BY <1>2, LedgerAssumption DEF OpenInsert, Inv, Expected, RowsMatchIds, Ids
    <2>2. MissingRows' = MissingRows \cup {op.id} /\ MissingCloses' = MissingCloses
        BY <2>1 DEF MissingRows, MissingCloses, Inv, TypeOK
    <2>3. Cardinality(MissingRows') <= Cardinality(MissingRows) + 1
        BY <2>2, MissingFinite, OneMore
    <2>4. Owed = 0 /\ Owed' = 1
        BY <1>2 DEF OpenInsert, Owed
    <2>5. \A r \in Strategies : Drift(r)' = unbooked[r] + Unfinished(r)'
        BY <1>2, <2>1 DEF OpenInsert, Drift, Unfinished, InFlight, CostInv
    <2>6. Cardinality(MissingRows') \in Nat
        BY <2>2, MissingFinite, OneMore
    <2> QED BY <1>0, <2>1, <2>2, <2>3, <2>4, <2>5, <2>6, MissingFinite DEF CostInv
<1>3. CASE OpenRow
    <2>1. /\ op.id \in Ids /\ status[op.id] = "open" /\ opens[op.id] = 0
          /\ op.strategy \in Strategies /\ op.net \in Int
          /\ opens' = [opens EXCEPT ![op.id] = @ + 1]
          /\ UNCHANGED <<status, closes, torn, unbooked>>
        BY <1>0, <1>3 DEF OpenRow, Inv, Expected, OnlyOpen, InFlight
    <2>2. /\ MissingRows' = MissingRows \ {op.id} /\ op.id \in MissingRows
          /\ MissingCloses' = MissingCloses
        BY <2>1 DEF MissingRows, MissingCloses, Inv, TypeOK
    <2>3. Cardinality(MissingRows') = Cardinality(MissingRows) - 1
        BY <2>2, MissingFinite, FS_RemoveElement
    <2>4. Owed = 1 /\ Owed' = 0
        BY <1>3 DEF OpenRow, Owed
    <2>5. \A r \in Strategies : Drift(r)' = unbooked[r] + Unfinished(r)'
        BY <1>0, <1>3, <2>1 DEF OpenRow, Drift, Unfinished, InFlight, CostInv, Inv, TypeOK
    <2> QED BY <1>0, <2>1, <2>2, <2>3, <2>4, <2>5, MissingFinite DEF CostInv
<1> QED BY <1>1, <1>2, <1>3

\* The commits of a close.
LEMMA CostCloses ==
    ASSUME Inv, CostInv, (\E s \in Strategies : CloseWallet(s)) \/ CloseMark \/ CloseRow
    PROVE  CostInv'
<1>0. torn \in Nat /\ Nets \subseteq Int /\ Balance \in Int
    BY LedgerAssumption DEF Inv, TypeOK
<1>1. ASSUME NEW s \in Strategies, CloseWallet(s) PROVE CostInv'
    <2>0. PICK net \in Nets :
             /\ wallet' = [wallet EXCEPT ![s] = @ + net]
             /\ op' = [strategy |-> s, id |-> Newest(OpenIds(s)), net |-> net]
        BY <1>1 DEF CloseWallet
    <2>1. \A r \in Strategies : Drift(r)' = unbooked[r] + Unfinished(r)'
        BY <1>0, <1>1, <2>0 DEF CloseWallet, Drift, Unfinished, InFlight, CostInv, Inv, TypeOK
    <2>2. UNCHANGED <<status, opens, closes, torn, unbooked>> /\ Owed' = Owed
        BY <1>1 DEF CloseWallet, Owed
    <2> QED BY <2>1, <2>2, CostSameRows
<1>2. CASE CloseMark
    <2>1. /\ op.id \in Ids /\ status[op.id] = "open" /\ closes[op.id] = 0
          /\ status' = [status EXCEPT ![op.id] = "closed"]
          /\ UNCHANGED <<opens, closes, torn, unbooked>>
        BY <1>2 DEF CloseMark, Inv, Expected, OnlyOpen
    <2>2. MissingCloses' = MissingCloses \cup {op.id} /\ MissingRows' = MissingRows
        BY <2>1 DEF MissingRows, MissingCloses, Inv, TypeOK
    <2>3. /\ Cardinality(MissingCloses') <= Cardinality(MissingCloses) + 1
          /\ Cardinality(MissingCloses') \in Nat
        BY <2>2, MissingFinite, OneMore
    <2>4. Owed = 0 /\ Owed' = 1
        BY <1>2 DEF CloseMark, Owed
    <2>5. \A r \in Strategies : Drift(r)' = unbooked[r] + Unfinished(r)'
        BY <1>2, <2>1 DEF CloseMark, Drift, Unfinished, InFlight, CostInv
    <2> QED BY <1>0, <2>1, <2>2, <2>3, <2>4, <2>5, MissingFinite DEF CostInv
<1>3. CASE CloseRow
    <2>1. /\ op.id \in Ids /\ status[op.id] = "closed" /\ closes[op.id] = 0
          /\ op.strategy \in Strategies /\ op.net \in Int
          /\ closes' = [closes EXCEPT ![op.id] = @ + 1]
          /\ UNCHANGED <<status, opens, torn, unbooked>>
        BY <1>0, <1>3 DEF CloseRow, Inv, Expected, InFlight
    <2>2. /\ MissingCloses' = MissingCloses \ {op.id} /\ op.id \in MissingCloses
          /\ MissingRows' = MissingRows
        BY <2>1 DEF MissingRows, MissingCloses, Inv, TypeOK
    <2>3. Cardinality(MissingCloses') = Cardinality(MissingCloses) - 1
        BY <2>2, MissingFinite, FS_RemoveElement
    <2>4. Owed = 1 /\ Owed' = 0
        BY <1>3 DEF CloseRow, Owed
    <2>5. \A r \in Strategies : Drift(r)' = unbooked[r] + Unfinished(r)'
        BY <1>0, <1>3, <2>1 DEF CloseRow, Drift, Unfinished, InFlight, CostInv, Inv, TypeOK
    <2> QED BY <1>0, <2>1, <2>2, <2>3, <2>4, <2>5, MissingFinite DEF CostInv
<1> QED BY <1>1, <1>2, <1>3

\* A crash that takes the last commit of an operation with it is a torn one.
LEMMA CostCrashes ==
    ASSUME Inv, CostInv, Crash \/ Restart \/ UNCHANGED vars
    PROVE  CostInv'
<1>0. torn \in Nat /\ Owed \in {0, 1}
    BY DEF Inv, TypeOK, Owed
<1>1. /\ MissingRows' = MissingRows /\ MissingCloses' = MissingCloses
      /\ UNCHANGED <<wallet, booked>>
    BY DEF Crash, Restart, vars, ledger, MissingRows, MissingCloses
<1>2. \A s \in Strategies : Drift(s)' = Drift(s)
    BY <1>1 DEF Drift
<1>3. CASE Crash
    <2>1. Owed' = 0 /\ torn + Owed <= torn' /\ torn' \in Nat
        BY <1>0, <1>3 DEF Crash, Owed, InFlight
    <2>2. \A s \in Strategies :
              /\ unbooked'[s] = unbooked[s] + Unfinished(s) /\ Unfinished(s)' = 0
              /\ unbooked[s] \in Int /\ Unfinished(s) \in Int
        BY <1>3, LedgerAssumption DEF Crash, Unfinished, InFlight, Inv, Expected, TypeOK
    <2>3. /\ \A s \in Strategies : Drift(s)' = unbooked'[s] + Unfinished(s)'
          /\ torn' = 0 => \A s \in Strategies : unbooked'[s] = 0
        <3>1. \A s \in Strategies : Drift(s)' = unbooked'[s] + Unfinished(s)'
            BY <1>2, <2>2 DEF CostInv
        <3>2. torn' = 0 => ~InFlight /\ torn = 0
            BY <1>0, <1>3 DEF Crash
        <3>3. torn' = 0 => \A s \in Strategies : unbooked'[s] = 0
            BY <1>3, <3>2 DEF Crash, CostInv
        <3> QED BY <3>1, <3>3
    <2>4. Cardinality(MissingRows) + Cardinality(MissingCloses) <= torn' + 0
        BY <1>0, <2>1, MissingFinite DEF CostInv
    <2> QED BY <1>1, <2>1, <2>3, <2>4 DEF CostInv
<1>4. CASE Restart \/ UNCHANGED vars
    <2>1. UNCHANGED <<torn, unbooked>> /\ Owed' = Owed /\ \A s \in Strategies : Unfinished(s)' = Unfinished(s)
        BY <1>4 DEF Restart, vars, ledger, Owed, Unfinished, InFlight
    <2> QED BY <1>1, <1>2, <2>1 DEF CostInv
<1> QED BY <1>3, <1>4

\* A ledger that no crash has touched reconciles; every crash costs at most the one trade
\* row of the operation it cut short, and exactly the one amount that was to be booked.
THEOREM CrashesCost == Spec => []CrashCost
<1>1. Inv /\ CostInv /\ [Next]_vars => CostInv'
    BY CostOpens, CostCloses, CostCrashes DEF Next
<1>2. Inv /\ CostInv => CrashCost
    <2> SUFFICES ASSUME Inv, CostInv, ~InFlight
                 PROVE  /\ Cardinality(MissingRows) + Cardinality(MissingCloses) <= torn
                        /\ torn = 0 => /\ \A s \in Strategies : Drift(s) = 0
                                       /\ Outcomes = {i \in Ids : status[i] = "closed"}
                        /\ \A s \in Strategies : Drift(s) = unbooked[s]
        BY DEF CrashCost, WholeLedgerReconciles, OneRowPerCrash, OneAmountPerCrash
    <2>0. \A s \in Strategies : Drift(s) = unbooked[s]
        BY DEF CostInv, Unfinished, Inv, TypeOK
    <2>1. Owed = 0 /\ torn \in Nat
        BY DEF Owed, InFlight, Inv, TypeOK
    <2>2. Cardinality(MissingRows) + Cardinality(MissingCloses) <= torn
        BY <2>1 DEF CostInv
    <2>3. ASSUME torn = 0
          PROVE  /\ \A s \in Strategies : Drift(s) = 0
                 /\ Outcomes = {i \in Ids : status[i] = "closed"}
        <3>1. Cardinality(MissingRows) = 0 /\ Cardinality(MissingCloses) = 0
            BY <2>2, <2>3, MissingFinite
        <3>2. MissingRows = {} /\ MissingCloses = {}
            BY <3>1, MissingFinite, FS_EmptySet
        <3>3. \A i \in Ids : status[i] = "closed" => opens[i] # 0 /\ closes[i] # 0
            BY <3>2 DEF MissingRows, MissingCloses
        <3>4. \A i \in Ids : closes[i] > 0 => status[i] = "closed"
            BY DEF Inv, NeverRecordedTwice, TypeOK
        <3>5. \A i \in Ids : opens[i] \in Nat /\ closes[i] \in Nat
            BY DEF Inv, TypeOK
        <3> QED BY <2>0, <2>3, <3>3, <3>4, <3>5 DEF Outcomes, CostInv
    <2> QED BY <2>0, <2>2, <2>3
<1> QED BY <1>1, <1>2, CostInit, LedgerInvariant, PTL DEF Spec

------------------------------------------------------------------------------
(* The two ledgers: sums over the trades *)

\* The running sums of a sequence of numbers, and that there is one such function.
Sums(f, n, g) == f = [k \in 0 .. n |-> IF k = 0 THEN 0 ELSE f[k - 1] + g[k]]

LEMMA SumsExist ==
    ASSUME NEW n \in Nat, NEW g
    PROVE  \E f : Sums(f, n, g)
<1> DEFINE None == {m \in Nat : ~\E f : Sums(f, m, g)}
<1> SUFFICES ASSUME n \in None PROVE FALSE
    OBVIOUS
<1>1. PICK m \in None : \A y \in None : <<y, m>> \notin OpToRel(<, Nat)
    <2>1. None \subseteq Nat
        OBVIOUS
    <2> HIDE DEF None
    <2> QED BY <2>1, NatLessThanWellFounded, WFMin
<1>2. CASE m = 0
    <2>1. Sums([k \in 0 .. 0 |-> 0], 0, g)
        BY DEF Sums
    <2> QED BY <2>1, <1>2
<1>3. CASE m # 0
    <2>1. PICK p \in Nat : m = p + 1
        <3>1. m - 1 \in Nat /\ m = (m - 1) + 1
            BY <1>3
        <3> QED BY <3>1
    <2>2. p \notin None
        <3>1. p < m /\ p \in Nat /\ m \in Nat
            BY <2>1
        <3>2. <<p, m>> \in OpToRel(<, Nat)
            BY <3>1, Zenon DEF OpToRel
        <3> QED BY <3>2, <1>1
    <2>3. PICK f : Sums(f, p, g)
        BY <2>2
    <2> DEFINE h == [k \in 0 .. p + 1 |-> IF k = p + 1 THEN f[p] + g[p + 1] ELSE f[k]]
    <2>4. Sums(h, p + 1, g)
        <3>1. ASSUME NEW k \in 0 .. p + 1
              PROVE  h[k] = IF k = 0 THEN 0 ELSE h[k - 1] + g[k]
            <4>1. CASE k = p + 1
                BY <4>1
            <4>2. CASE k # p + 1
                <5>1. k \in 0 .. p /\ h[k] = f[k] /\ (k # 0 => k - 1 \in 0 .. p /\ h[k - 1] = f[k - 1])
                    BY <4>2
                <5> HIDE DEF h
                <5>2. f[k] = IF k = 0 THEN 0 ELSE f[k - 1] + g[k]
                    BY <5>1, <2>3 DEF Sums
                <5> QED BY <5>1, <5>2
            <4> QED BY <4>1, <4>2
        <3>2. h = [k \in 0 .. p + 1 |-> h[k]]
            OBVIOUS
        <3> HIDE DEF h
        <3> QED BY <3>1, <3>2 DEF Sums
    <2> QED BY <2>4, <2>1
<1> QED BY <1>2, <1>3

\* Two such functions agree as far as both go.
LEMMA SumsAgree ==
    ASSUME NEW n \in Nat, NEW g, NEW g2, NEW f, NEW f2, Sums(f, n, g), Sums(f2, n + 1, g2),
           \A k \in 1 .. n : g[k] = g2[k]
    PROVE  \A k \in 0 .. n : f[k] = f2[k]
<1> DEFINE Bad == {k \in 0 .. n : f[k] # f2[k]}
<1> SUFFICES ASSUME NEW b \in Bad PROVE FALSE
    OBVIOUS
<1>1. PICK m \in Bad : \A y \in Bad : <<y, m>> \notin OpToRel(<, Nat)
    <2>1. Bad \subseteq Nat
        OBVIOUS
    <2> HIDE DEF Bad
    <2> QED BY <2>1, NatLessThanWellFounded, WFMin
<1>2. m \in 0 .. n /\ f[m] # f2[m]
    BY <1>1
<1>3. /\ f[m] = IF m = 0 THEN 0 ELSE f[m - 1] + g[m]
      /\ f2[m] = IF m = 0 THEN 0 ELSE f2[m - 1] + g2[m]
    BY <1>2 DEF Sums
<1>4. m # 0
    BY <1>2, <1>3
<1>5. PICK p \in 0 .. n : p = m - 1 /\ m \in 1 .. n
    BY <1>2, <1>4
<1>6. f[p] = f2[p]
    <2>1. p < m /\ p \in Nat /\ m \in Nat
        BY <1>5
    <2>2. <<p, m>> \in OpToRel(<, Nat)
        BY <2>1, Zenon DEF OpToRel
    <2> QED BY <2>2, <1>1
<1> QED BY <1>2, <1>3, <1>4, <1>5, <1>6

\* What a strategy's trades add up to is such a sum.
LEMMA BookedIsSum ==
    ASSUME NEW t, NEW s, NEW n \in Nat, Len(t) = n
    PROVE  \E f : /\ Sums(f, n, [k \in 1 .. n |-> IF t[k].strategy = s THEN t[k].pnl ELSE 0])
                  /\ Booked(t, s) = f[n]
<1> DEFINE g == [k \in 1 .. n |-> IF t[k].strategy = s THEN t[k].pnl ELSE 0]
           F == CHOOSE f : f = [k \in 0 .. n |-> IF k = 0 THEN 0
                    ELSE f[k - 1] + (IF t[k].strategy = s THEN t[k].pnl ELSE 0)]
<1>1. PICK f : Sums(f, n, g)
    BY SumsExist
<1>2. Booked(t, s) = F[n]
    BY DEF Booked
<1>3. f = [k \in 0 .. n |-> IF k = 0 THEN 0
                    ELSE f[k - 1] + (IF t[k].strategy = s THEN t[k].pnl ELSE 0)]
    <2>1. f = [k \in 0 .. n |-> IF k = 0 THEN 0 ELSE f[k - 1] + g[k]]
        BY <1>1 DEF Sums
    <2>2. \A k \in 0 .. n : k # 0 => g[k] = IF t[k].strategy = s THEN t[k].pnl ELSE 0
        OBVIOUS
    <2> HIDE DEF g
    <2> QED BY <2>1, <2>2
<1>4. F = [k \in 0 .. n |-> IF k = 0 THEN 0
                    ELSE F[k - 1] + (IF t[k].strategy = s THEN t[k].pnl ELSE 0)]
    BY <1>3, Zenon
<1>5. Sums(F, n, g)
    <2> HIDE DEF F
    <2> QED BY <1>4 DEF Sums
<1> QED BY <1>2, <1>5

\* One trade more adds its pnl, to its own strategy.
LEMMA BookedAppend ==
    ASSUME NEW R, NEW t \in Seq(R), NEW r \in R, NEW s
    PROVE  r.pnl \in Int /\ Booked(t, s) \in Int =>
               Booked(Append(t, r), s) = Booked(t, s) + (IF r.strategy = s THEN r.pnl ELSE 0)
<1> DEFINE n == Len(t)
           u == Append(t, r)
           g == [k \in 1 .. n |-> IF t[k].strategy = s THEN t[k].pnl ELSE 0]
           h == [k \in 1 .. n + 1 |-> IF u[k].strategy = s THEN u[k].pnl ELSE 0]
<1>1. n \in Nat /\ Len(u) = n + 1 /\ u[n + 1] = r /\ \A k \in 1 .. n : u[k] = t[k]
    OBVIOUS
<1> HIDE DEF u, n
<1>2. PICK f : Sums(f, n, g) /\ Booked(t, s) = f[n]
    BY <1>1, BookedIsSum DEF n
<1>3. PICK f2 : Sums(f2, n + 1, h) /\ Booked(u, s) = f2[n + 1]
    <2>1. PICK m \in Nat : m = n + 1
        BY <1>1
    <2>2. \E f2 : /\ Sums(f2, m, [k \in 1 .. m |-> IF u[k].strategy = s THEN u[k].pnl ELSE 0])
                  /\ Booked(u, s) = f2[m]
        BY <1>1, <2>1, BookedIsSum
    <2> QED BY <2>1, <2>2
<1>4. \A k \in 1 .. n : g[k] = h[k]
    BY <1>1
<1>5. h[n + 1] = IF r.strategy = s THEN r.pnl ELSE 0
    BY <1>1
<1> HIDE DEF g, h
<1>6. f[n] = f2[n]
    BY <1>1, <1>2, <1>3, <1>4, SumsAgree
<1>7. f2[n + 1] = f2[n] + h[n + 1]
    <2>1. PICK m \in 0 .. n + 1 : m = n + 1
        BY <1>1
    <2>2. f2[m] = IF m = 0 THEN 0 ELSE f2[m - 1] + h[m]
        BY <1>3 DEF Sums
    <2>3. m # 0 /\ m - 1 = n
        BY <1>1, <2>1
    <2> QED BY <2>1, <2>2, <2>3
<1> QED BY <1>2, <1>3, <1>5, <1>6, <1>7 DEF u

\* No trades, nothing booked.
LEMMA BookedNone == \A s : Booked(<<>>, s) = 0
<1> SUFFICES ASSUME NEW s PROVE Booked(<<>>, s) = 0
    OBVIOUS
<1>1. Len(<<>>) = 0
    OBVIOUS
<1>2. PICK f, g : Sums(f, 0, g) /\ Booked(<<>>, s) = f[0]
    BY <1>1, BookedIsSum
<1> QED BY <1>2 DEF Sums

\* The trades of a position: one more, if the last one is of it.
TradesOf(t, action, id) == {k \in DOMAIN t : t[k].action = action /\ t[k].id = id}

LEMMA TradesAppend ==
    ASSUME NEW R, NEW t \in Seq(R), NEW r \in R, NEW action, NEW id
    PROVE  /\ Cardinality(TradesOf(t, action, id)) \in Nat
           /\ Cardinality(TradesOf(Append(t, r), action, id)) =
                  Cardinality(TradesOf(t, action, id))
                      + (IF r.action = action /\ r.id = id THEN 1 ELSE 0)
<1> DEFINE n == Len(t)
           u == Append(t, r)
           T == TradesOf(t, action, id)
           U == TradesOf(u, action, id)
<1>1. n \in Nat /\ DOMAIN t = 1 .. n /\ DOMAIN u = 1 .. n + 1 /\ u[n + 1] = r
    OBVIOUS
<1>2. \A k \in 1 .. n : u[k] = t[k]
    OBVIOUS
<1> HIDE DEF n, u
<1>3. IsFiniteSet(T) /\ n + 1 \notin T
    <2>1. IsFiniteSet(1 .. n) /\ n + 1 \notin 1 .. n
        BY <1>1, FS_Interval
    <2> QED BY <1>1, <2>1, FS_Subset DEF TradesOf
<1>4. U = IF r.action = action /\ r.id = id THEN T \cup {n + 1} ELSE T
    <2>1. 1 .. n + 1 = 1 .. n \cup {n + 1}
        BY <1>1
    <2> QED BY <1>1, <1>2, <2>1 DEF TradesOf
<1> HIDE DEF T, U
<1>5. Cardinality(T) \in Nat
    BY <1>3, FS_CardinalityType
<1>6. Cardinality(U) = Cardinality(T) + (IF r.action = action /\ r.id = id THEN 1 ELSE 0)
    <2>1. Cardinality(T \cup {n + 1}) = Cardinality(T) + 1
        BY <1>3, FS_AddElement
    <2> QED BY <1>4, <1>5, <2>1
<1> QED BY <1>5, <1>6 DEF T, U, u

------------------------------------------------------------------------------
(* The two ledgers, call by call *)

MemTrades == [strategy : Strategies, id : Ids, action : {"OPEN", "CLOSE"}, pnl : Int]

\* In a run no crash has cut short, in parts.
SameWallets == balances = wallet /\ memNextId = nextId
SameOpen == \A s \in Strategies : openBy[s] = IF OpenIds(s) = {} THEN 0 ELSE Newest(OpenIds(s))
SameRows ==
    \A i \in Ids : /\ opens[i] = Cardinality(TradesOf(memTrades, "OPEN", i))
                   /\ closes[i] = Cardinality(TradesOf(memTrades, "CLOSE", i))
SameSums == \A s \in Strategies : booked[s] = Booked(memTrades, s)

BooksInv ==
    /\ memTrades \in Seq(MemTrades) /\ openBy \in [Strategies -> Int] /\ memNextId \in Int
    /\ pc = "down" => crashes # 0
    /\ crashes = 0 => SameWallets /\ SameOpen /\ SameRows /\ SameSums

LEMMA BooksAgree == BooksInv => SameBooks
BY DEF BooksInv, SameBooks, SameWallets, SameOpen, SameRows, SameSums, TradesOf, MemRows, MemBooked

LEMMA BooksInit == BothInit => BooksInv
<1> SUFFICES ASSUME BothInit PROVE BooksInv
    OBVIOUS
<1> USE DEF BothInit, Init, MemInit, NewBalances, NewOpen
<1>1. /\ memTrades = <<>> /\ openBy = [s \in Strategies |-> 0] /\ pc = "idle"
      /\ memTrades \in Seq(MemTrades)
    OBVIOUS
<1>2. SameWallets
    BY DEF SameWallets
<1>3. SameOpen
    <2>1. \A s : OpenIds(s) = {}
        BY DEF OpenIds
    <2> QED BY <1>1, <2>1 DEF SameOpen
<1>4. SameRows
    <2>1. \A a, i : TradesOf(<<>>, a, i) = {}
        BY DEF TradesOf
    <2> QED BY <1>1, <2>1, FS_EmptySet DEF SameRows
<1>5. SameSums
    BY <1>1, BookedNone DEF SameSums
<1> QED BY <1>1, <1>2, <1>3, <1>4, <1>5 DEF BooksInv

\* The wallet: each ledger adds to what it holds.
LEMMA BooksWallets ==
    ASSUME Inv, BooksInv, NEW s \in Strategies, OpenWallet(s) \/ CloseWallet(s),
           MemBalance(s, balances[s] + op'.net)
    PROVE  BooksInv'
<1>1. /\ UNCHANGED <<status, owner, nextId, opens, closes, booked, crashes>>
      /\ UNCHANGED <<openBy, memNextId, memTrades>> /\ pc' # "down"
    BY DEF OpenWallet, CloseWallet, MemBalance
<1>2. wallet' = [wallet EXCEPT ![s] = wallet[s] + op'.net]
    <2>1. CASE OpenWallet(s)
        <3>1. op'.net = -Fee /\ wallet' = [wallet EXCEPT ![s] = wallet[s] - Fee]
            BY <2>1 DEF OpenWallet
        <3>2. wallet[s] \in Int /\ Fee \in Int
            BY LedgerAssumption DEF Inv, TypeOK
        <3> QED BY <3>1, <3>2
    <2>2. CASE CloseWallet(s)
        BY <2>2 DEF CloseWallet
    <2> QED BY <2>1, <2>2
<1>3. balances' = [balances EXCEPT ![s] = balances[s] + op'.net]
    BY DEF MemBalance
<1>4. crashes = 0 => SameWallets'
    BY <1>1, <1>2, <1>3 DEF BooksInv, SameWallets
<1>5. /\ SameOpen => SameOpen'
      /\ SameRows => SameRows'
      /\ SameSums => SameSums'
    BY <1>1 DEF SameOpen, SameRows, SameSums, OpenIds
<1> QED BY <1>1, <1>4, <1>5 DEF BooksInv

\* The position: the one the SQLite ledger inserts is the only open one of its strategy.
LEMMA BooksOpen ==
    ASSUME Inv, BooksInv, OpenInsert, MemOpen(op.strategy)
    PROVE  BooksInv'
<1>1. /\ UNCHANGED <<wallet, opens, closes, booked, crashes>> /\ pc' # "down"
      /\ UNCHANGED <<balances, memTrades>> /\ nextId' = nextId + 1 /\ memNextId' = memNextId + 1
      /\ openBy' = [openBy EXCEPT ![op.strategy] = memNextId]
    BY DEF OpenInsert, MemOpen
<1>2. PICK s \in Strategies, i \in Ids :
          s = op.strategy /\ i = op.id /\ i = nextId /\ OpenIds(s) = {}
    BY DEF OpenInsert, Inv, Expected, InFlight
<1>3. /\ status' = [status EXCEPT ![i] = "open"] /\ owner' = [owner EXCEPT ![i] = s]
      /\ status \in [Ids -> {"none", "open", "closed"}] /\ DOMAIN owner = Ids
      /\ status[i] = "none"
    BY <1>2 DEF OpenInsert, Inv, TypeOK, RowsMatchIds, Ids
<1>4. OpenIds(s)' = {i} /\ \A r \in Strategies : r # s => OpenIds(r)' = OpenIds(r)
    BY <1>2, <1>3 DEF OpenIds
<1>5. Newest({i}) = i
    BY <1>2 DEF Newest, Ids
<1>6. openBy' \in [Strategies -> Int] /\ (crashes = 0 => SameOpen')
    <2>1. memNextId \in Int /\ openBy \in [Strategies -> Int]
        BY DEF BooksInv
    <2>2. crashes = 0 => memNextId = i /\ SameOpen
        BY <1>2 DEF BooksInv, SameWallets
    <2>3. crashes = 0 => SameOpen'
        <3> SUFFICES ASSUME crashes = 0, NEW r \in Strategies
                     PROVE  openBy'[r] = IF OpenIds(r)' = {} THEN 0 ELSE Newest(OpenIds(r)')
            BY DEF SameOpen
        <3>1. CASE r = s
            BY <1>1, <1>2, <1>4, <1>5, <2>1, <2>2, <3>1
        <3>2. CASE r # s
            BY <1>1, <1>2, <1>4, <2>1, <2>2, <3>2 DEF SameOpen
        <3> QED BY <3>1, <3>2
    <2> QED BY <1>1, <2>1, <2>3
<1>7. /\ SameWallets => SameWallets'
      /\ SameRows => SameRows'
      /\ SameSums => SameSums'
    BY <1>1 DEF SameWallets, SameRows, SameSums
<1>8. memNextId' \in Int
    BY <1>1 DEF BooksInv
<1> QED BY <1>1, <1>6, <1>7, <1>8 DEF BooksInv

\* The position that is marked closed is the entry that goes, and nobody else's.
LEMMA BooksClose ==
    ASSUME Inv, BooksInv, CloseMark, MemClose(op.id)
    PROVE  BooksInv'
<1>1. /\ UNCHANGED <<wallet, owner, nextId, opens, closes, booked, crashes>> /\ pc' # "down"
      /\ UNCHANGED <<balances, memNextId, memTrades>>
      /\ openBy' = [s \in Strategies |-> IF openBy[s] = op.id THEN 0 ELSE openBy[s]]
    BY DEF CloseMark, MemClose
<1>2. PICK s \in Strategies, i \in Ids :
          s = op.strategy /\ i = op.id /\ status[i] = "open" /\ owner[i] = s
    BY DEF CloseMark, Inv, Expected, OnlyOpen, InFlight
<1>3. status' = [status EXCEPT ![i] = "closed"] /\ status \in [Ids -> {"none", "open", "closed"}]
    BY <1>2 DEF CloseMark, Inv, TypeOK
<1>4. OpenIds(s) = {i} /\ \A j \in Ids : j = i \/ ~(status[j] = "open" /\ owner[j] = s)
    BY <1>2 DEF OpenIds, Inv, NeverRecordedTwice
<1>5. OpenIds(s)' = {} /\ \A r \in Strategies : r # s => OpenIds(r)' = OpenIds(r) /\ i \notin OpenIds(r)
    BY <1>1, <1>2, <1>3, <1>4 DEF OpenIds
<1>6. \A r \in Strategies : OpenIds(r) # {} => Newest(OpenIds(r)) \in OpenIds(r)
    BY NewestIsOpen DEF OpenIds
<1>7. Newest(OpenIds(s)) = i /\ 0 # i
    BY <1>4, <1>6, <1>2 DEF Ids
<1>8. crashes = 0 => SameOpen'
    <2> SUFFICES ASSUME crashes = 0, NEW r \in Strategies
                 PROVE  openBy'[r] = IF OpenIds(r)' = {} THEN 0 ELSE Newest(OpenIds(r)')
        BY DEF SameOpen
    <2>1. openBy[r] = IF OpenIds(r) = {} THEN 0 ELSE Newest(OpenIds(r))
        BY DEF BooksInv, SameOpen
    <2>2. CASE r = s
        BY <1>1, <1>2, <1>4, <1>5, <1>7, <2>1, <2>2
    <2>3. CASE r # s
        BY <1>1, <1>2, <1>5, <1>6, <1>7, <2>1, <2>3
    <2> QED BY <2>2, <2>3
<1>9. /\ SameWallets => SameWallets'
      /\ SameRows => SameRows'
      /\ SameSums => SameSums'
    BY <1>1 DEF SameWallets, SameRows, SameSums
<1>10. openBy' \in [Strategies -> Int] /\ memNextId' \in Int
    BY <1>1 DEF BooksInv
<1> QED BY <1>1, <1>8, <1>9, <1>10 DEF BooksInv

\* The trade: one row and its pnl, in both.
LEMMA BooksRow ==
    ASSUME Inv, BooksInv, NEW action \in {"OPEN", "CLOSE"}, MemRecord(action, op.net),
           \/ action = "OPEN" /\ OpenRow
           \/ action = "CLOSE" /\ CloseRow
    PROVE  BooksInv'
<1>1. /\ UNCHANGED <<wallet, status, owner, nextId, crashes>> /\ pc' # "down"
      /\ UNCHANGED <<balances, openBy, memNextId>>
    BY DEF OpenRow, CloseRow, MemRecord
<1>2. PICK s \in Strategies, i \in Ids, net \in Int : s = op.strategy /\ i = op.id /\ net = op.net
    BY DEF OpenRow, CloseRow, Inv, Expected, OnlyOpen, InFlight, TypeOK
<1>3. PICK row \in MemTrades : row = [strategy |-> s, id |-> i, action |-> action, pnl |-> net]
    BY DEF MemTrades
<1>4. memTrades \in Seq(MemTrades) /\ memTrades' = Append(memTrades, row)
    BY <1>2, <1>3 DEF MemRecord, BooksInv
<1>5. row.strategy = s /\ row.id = i /\ row.action = action /\ row.pnl = net
    BY <1>3
<1>6. /\ booked' = [booked EXCEPT ![s] = booked[s] + net]
      /\ action = "OPEN" => opens' = [opens EXCEPT ![i] = opens[i] + 1] /\ closes' = closes
      /\ action = "CLOSE" => closes' = [closes EXCEPT ![i] = closes[i] + 1] /\ opens' = opens
      /\ booked \in [Strategies -> Int] /\ opens \in [Ids -> Nat] /\ closes \in [Ids -> Nat]
    BY <1>2 DEF OpenRow, CloseRow, Inv, TypeOK
<1>7. \A a, j : /\ Cardinality(TradesOf(memTrades, a, j)) \in Nat
                /\ Cardinality(TradesOf(memTrades', a, j)) =
                       Cardinality(TradesOf(memTrades, a, j)) + (IF action = a /\ i = j THEN 1 ELSE 0)
    BY <1>4, <1>5, TradesAppend
<1>8. SameRows => SameRows'
    <2> SUFFICES ASSUME SameRows, NEW j \in Ids
                 PROVE  /\ opens'[j] = Cardinality(TradesOf(memTrades', "OPEN", j))
                        /\ closes'[j] = Cardinality(TradesOf(memTrades', "CLOSE", j))
        BY DEF SameRows
    <2>1. /\ opens[j] = Cardinality(TradesOf(memTrades, "OPEN", j))
          /\ closes[j] = Cardinality(TradesOf(memTrades, "CLOSE", j))
        BY DEF SameRows
    <2>2. CASE action = "OPEN"
        BY <1>6, <1>7, <2>1, <2>2
    <2>3. CASE action = "CLOSE"
        BY <1>6, <1>7, <2>1, <2>3
    <2> QED BY <2>2, <2>3
<1>9. SameSums => SameSums'
    <2> SUFFICES ASSUME SameSums, NEW r \in Strategies PROVE booked'[r] = Booked(memTrades', r)
        BY DEF SameSums
    <2>1. booked[r] = Booked(memTrades, r) /\ booked[r] \in Int
        BY <1>6 DEF SameSums
    <2>2. Booked(memTrades', r) = Booked(memTrades, r) + (IF s = r THEN net ELSE 0)
        BY <1>2, <1>4, <1>5, <2>1, BookedAppend
    <2> QED BY <1>6, <2>1, <2>2
<1>10. (SameWallets => SameWallets') /\ (SameOpen => SameOpen')
    BY <1>1 DEF SameWallets, SameOpen, OpenIds
<1>11. memTrades' \in Seq(MemTrades) /\ openBy' \in [Strategies -> Int] /\ memNextId' \in Int
    BY <1>1, <1>4 DEF BooksInv
<1> QED BY <1>1, <1>8, <1>9, <1>10, <1>11 DEF BooksInv

\* After a crash nothing is claimed of the two, and a new backtest starts typed.
LEMMA BooksCrash ==
    ASSUME Inv, BooksInv, (Crash /\ UNCHANGED memory) \/ (Restart /\ MemNew) \/ UNCHANGED bothVars
    PROVE  BooksInv'
<1>1. crashes \in Nat
    BY DEF Inv, TypeOK
<1>2. CASE Crash /\ UNCHANGED memory
    BY <1>1, <1>2 DEF Crash, memory, BooksInv
<1>3. CASE Restart /\ MemNew
    BY <1>3 DEF Restart, MemNew, NewOpen, BooksInv
<1>4. CASE UNCHANGED bothVars
    BY <1>4 DEF bothVars, vars, ledger, memory, BooksInv, SameWallets, SameOpen, SameRows, SameSums,
                OpenIds
<1> QED BY <1>2, <1>3, <1>4

\* Over any sequence of opens and closes that no crash cuts short, the backtester's ledger
\* and the SQLite one say the same after every call (ledger.py against db.py).
THEOREM BooksStaySame == BothSpec => []SameBooks
<1>1. BothInit => Inv /\ BooksInv
    BY InvInit, BooksInit DEF BothInit
<1>2. Inv /\ [BothNext]_bothVars => Inv'
    BY InvOpens, InvCloses, InvCrashes DEF BothNext, bothVars
<1>3. Inv /\ BooksInv /\ [BothNext]_bothVars => BooksInv'
    <2> SUFFICES ASSUME Inv, BooksInv, [BothNext]_bothVars PROVE BooksInv'
        OBVIOUS
    <2>1. ASSUME NEW s \in Strategies, OpenWallet(s) \/ CloseWallet(s),
                 MemBalance(s, balances[s] + op'.net)
          PROVE  BooksInv'
        BY <2>1, BooksWallets
    <2>2. CASE OpenInsert /\ MemOpen(op.strategy)
        BY <2>2, BooksOpen
    <2>3. CASE CloseMark /\ MemClose(op.id)
        BY <2>3, BooksClose
    <2>4. CASE OpenRow /\ MemRecord("OPEN", op.net)
        BY <2>4, BooksRow
    <2>5. CASE CloseRow /\ MemRecord("CLOSE", op.net)
        BY <2>5, BooksRow
    <2>6. CASE (Crash /\ UNCHANGED memory) \/ (Restart /\ MemNew) \/ UNCHANGED bothVars
        BY <2>6, BooksCrash
    <2> QED BY <2>1, <2>2, <2>3, <2>4, <2>5, <2>6 DEF BothNext
<1>4. BooksInv => SameBooks
    BY BooksAgree
<1> QED BY <1>1, <1>2, <1>3, <1>4, PTL DEF BothSpec
==============================================================================
