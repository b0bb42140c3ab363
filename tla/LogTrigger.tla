------------------------------ MODULE LogTrigger ------------------------------
(***************************************************************************)
(* How `cre workflow simulate` gets the chain event that fires a log       *)
(* trigger: the listener that polls an EVM node for matching logs, and the *)
(* replay of one transaction (EVM and Solana).                             *)
(*                                                                         *)
(* A node may answer with an older height than another one behind the same *)
(* address, it shows the logs of a block some blocks after its header, and *)
(* the newest blocks may be replaced.  The listener scans the last blocks  *)
(* again and again and remembers what it has seen.                         *)
(***************************************************************************)
EXTENDS Integers, FiniteSets, Bags

CONSTANTS
    Logs,      \* the matching events, numbered as they come in a block
    MaxTip,    \* bound: the height of the chain
    MaxForks,  \* bound: how often the newest blocks are replaced
    Overlap,   \* rescanOverlapBlocks, 5 in the code
    Behind,    \* bound: how far a node's height may be behind
    Burst,     \* what the rate limiter lets through at a time
    Wishes     \* the flags a simulation may be started with

NoLog == 0

ASSUME LogAssumption ==
    /\ Logs \subseteq Nat \ {NoLog}
    /\ MaxTip \in Nat \ {0} /\ MaxForks \in Nat /\ Behind \in Nat
    /\ Overlap \in Nat \ {0} /\ Burst \in Nat
    /\ \A w \in Wishes : {w.listen, w.interactive, w.limited} \subseteq BOOLEAN

VARIABLES
    tip,       \* height of the chain
    forks,     \* how often it was reorganised
    mined,     \* the block of each event; height 0: in none
    visible,   \* the events whose block's logs the node answers with
    wish,      \* the flags of this simulation
    spot,      \* where it is
    fromBlock, \* the listener's next block
    latest,    \* the height it got for this scan
    seen,      \* logs that it has met, by block and index
    dropped,   \* those the rate limiter refused
    tokens,    \* what the limiter has left
    given,     \* history: the logs handed to the workflow
    since      \* history: the block the listener began at

chainVars == <<tip, forks, mined, visible>>
logVars   == <<chainVars, wish, spot, fromBlock, latest, seen, dropped, tokens, given, since>>

Heights == 0..MaxTip
Blocks  == [height : Heights, fork : 0..MaxForks]
Cursors == Logs \X Blocks

LogTypeOK ==
    /\ tip \in Heights /\ forks \in 0..MaxForks
    /\ mined \in [Logs -> Blocks] /\ visible \subseteq Logs
    /\ wish \in Wishes
    /\ spot \in {"resolve", "receipt", "new", "head", "filter", "run", "done", "error"}
    /\ {fromBlock, latest, since} \subseteq -Overlap..MaxTip
    /\ dropped \subseteq seen /\ seen \subseteq Cursors
    /\ tokens \in 0..Burst
    /\ BagToSet(given) \subseteq Cursors

Unmined == [height |-> 0, fork |-> 0]

LogInit ==
    /\ tip = 1 /\ forks = 0
    /\ mined = [l \in Logs |-> Unmined] /\ visible = {}
    /\ wish \in Wishes
    /\ spot = "resolve" /\ fromBlock = 0 /\ latest = 0 /\ since = 0
    /\ seen = {} /\ dropped = {} /\ tokens = Burst /\ given = EmptyBag

LogGoes(s) == spot' = s /\ UNCHANGED <<chainVars, wish>>
Listens    == UNCHANGED <<fromBlock, latest, seen, dropped, tokens, given, since>>

-----------------------------------------------------------------------------
(* The chain and the nodes.  The logs of a block are there at the latest   *)
(* when its header is Overlap blocks old.                                  *)

Chain(l) == <<l, mined[l]>>   \* logCursorKey
Mined    == {l \in Logs : mined[l].height # 0}

Mine ==
    /\ tip < MaxTip
    /\ \A l \in Mined : mined[l].height + Overlap <= tip + 1 => l \in visible
    /\ \E ls \in SUBSET (Logs \ Mined) :
         mined' = [l \in Logs |-> IF l \in ls THEN [height |-> tip + 1, fork |-> forks] ELSE mined[l]]
    /\ tip' = tip + 1
    /\ UNCHANGED <<forks, visible, wish, spot>> /\ Listens

Show ==
    /\ \E l \in Mined \ visible : visible' = visible \cup {l}
    /\ UNCHANGED <<tip, forks, mined, wish, spot>> /\ Listens

\* At most the Overlap newest blocks are replaced; their events come in other
\* blocks of the new fork, or in none.
Reorganise ==
    /\ forks < MaxForks
    /\ \E depth \in 1..Overlap :
         LET gone == {l \in Mined : mined[l].height > tip - depth} IN
         /\ depth < tip /\ gone # {}
         /\ \E h \in [gone -> {0} \cup (tip - depth + 1)..tip] :
              mined' = [l \in Logs |-> IF l \notin gone THEN mined[l]
                                       ELSE IF h[l] = 0 THEN Unmined
                                       ELSE [height |-> h[l], fork |-> forks + 1]]
         /\ visible' = visible \ gone
    /\ forks' = forks + 1
    /\ UNCHANGED <<tip, wish, spot>> /\ Listens

-----------------------------------------------------------------------------
(* ResolveTriggerData and NewTriggerListener.  A wish has the family of    *)
(* the chain, the transaction to replay and the index of its event (-1:    *)
(* not given), and whether limits are enforced.                            *)

Replays(w) == w.tx # NoLog

\* Solana replays only, and cannot --listen.
ResolveSolana(w) == IF w.listen \/ ~Replays(w) \/ w.index < 0 THEN "error" ELSE "receipt"

\* EVM replays or waits, and waits only for somebody or for --listen.
ResolveEVM(w) ==
    IF Replays(w) THEN IF w.listen \/ w.index < 0 THEN "error" ELSE "receipt"
    ELSE IF w.interactive \/ w.listen THEN "new" ELSE "error"

Resolve ==
    /\ spot = "resolve"
    /\ LogGoes(IF wish.family = "solana" THEN ResolveSolana(wish) ELSE ResolveEVM(wish))
    /\ Listens

Give(k) == given' = given (+) SetToBag({k})

\* Index 0 is the transaction's event that the filter of the trigger takes.
\* Another is out of range, or handed over (ManualTrigger) and refused there.
MatchesFilter(w) == w.index = 0

Replay(found) ==
    /\ spot = "receipt"
    /\ IF found /\ MatchesFilter(wish)
       THEN Give(Chain(wish.tx)) /\ LogGoes("done")
       ELSE given' = given /\ LogGoes("error")
    /\ UNCHANGED <<fromBlock, latest, seen, dropped, tokens, since>>

\* EVM asks every few seconds until the transaction is there, Solana once.
ReplayLog   == wish.family = "evm" /\ wish.tx \in Mined /\ Replay(TRUE)
ReplayEvent == wish.family = "solana" /\ Replay(wish.tx \in Mined)

\* Any other answer than "not found", or --evm-receipt-timeout.
ReceiptFails == spot = "receipt" /\ LogGoes("error") /\ Listens

-----------------------------------------------------------------------------
(* The listener.                                                           *)

Answers == (IF tip > Behind THEN tip - Behind ELSE 0)..tip

\* NewEVMLogTriggerListener begins at the height it is told.
NewListener ==
    /\ spot = "new"
    /\ \/ /\ \E h \in Answers : fromBlock' = h /\ since' = h
          /\ LogGoes("head")
          /\ UNCHANGED <<latest, seen, dropped, tokens, given>>
       \/ LogGoes("error") /\ Listens

\* scanOnce, up to FilterLogs; an error means another try after the interval.
GetHead ==
    /\ spot = "head"
    /\ \E h \in Answers :
         /\ latest' = h
         /\ LogGoes(IF h < fromBlock THEN "head" ELSE "filter")
    /\ UNCHANGED <<fromBlock, seen, dropped, tokens, given, since>>

\* Mutant: nothing is scanned twice.
AdvancePastHead(from, head) == IF head + 1 > from THEN head + 1 ELSE from

\* advanceFromBlock: the last blocks are scanned again.
AdvanceFromBlock(from, head) ==
    LET next == head - (Overlap - 1) IN IF next > from THEN next ELSE from

\* Unseen logs of the range, in the order of the node's answer.
Before(k, m) ==
    k[2].height < m[2].height \/ (k[2].height = m[2].height /\ k[1] < m[1])

Unseen == {Chain(l) : l \in {m \in Mined \cap visible : mined[m].height \in fromBlock..latest}} \ seen

FilterFails == spot = "filter" /\ LogGoes("head") /\ Listens

\* The next log that the limiter lets pass; those before it are dropped, and
\* not met again.  fromBlock stays: the rest of the range is for the next scan.
TakeLog ==
    /\ spot = "filter"
    /\ \E k \in Unseen :
         LET earlier == {m \in Unseen : Before(m, k)} IN
         /\ (wish.limited /\ tokens = 0) = (earlier # {})   \* it refills meanwhile
         /\ seen' = seen \cup {k} \cup earlier
         /\ dropped' = dropped \cup earlier
         /\ Give(k)
    /\ tokens' = IF wish.limited /\ tokens > 0 THEN tokens - 1 ELSE tokens
    /\ LogGoes("run")
    /\ UNCHANGED <<fromBlock, latest, since>>

\* Nothing (more) in the range.
ScanDone ==
    /\ spot = "filter"
    /\ Unseen # {} => (wish.limited /\ tokens = 0)
    /\ seen' = seen \cup Unseen
    /\ dropped' = dropped \cup Unseen
    /\ fromBlock' = AdvanceFromBlock(fromBlock, latest)
    /\ LogGoes("head")
    /\ UNCHANGED <<latest, tokens, given, since>>

Refill ==
    /\ wish.limited /\ tokens < Burst
    /\ tokens' = tokens + 1
    /\ UNCHANGED <<chainVars, wish, spot, fromBlock, latest, seen, dropped, given, since>>

\* --listen comes back for the next log when the execution is through.
NextLog == spot = "run" /\ LogGoes(IF wish.listen THEN "head" ELSE "done") /\ Listens

StopListening == spot \in {"receipt", "head", "filter", "run"} /\ LogGoes("error") /\ Listens

LogNext ==
    \/ Mine \/ Show \/ Reorganise
    \/ Resolve \/ ReplayLog \/ ReplayEvent \/ ReceiptFails
    \/ NewListener \/ GetHead \/ FilterFails \/ TakeLog \/ ScanDone \/ Refill
    \/ NextLog \/ StopListening

-----------------------------------------------------------------------------
\* The listener passes over no log: what the chain has between the block it
\* began at and its next one it has met, whatever the nodes showed when and
\* whichever blocks were replaced; and no log of a block is handed out twice.
\* Only the limiter drops any.  A command that does not listen gets one.
TriggersOnce ==
    /\ \A l \in Mined : mined[l].height >= since /\ mined[l].height < fromBlock => Chain(l) \in seen
    /\ \A k \in BagToSet(given) : given[k] = 1
    /\ seen # {} => seen = BagToSet(given) \cup dropped
    /\ dropped \cap BagToSet(given) = {} /\ (dropped # {} => wish.limited)
    /\ spot = "done" => \E k \in BagToSet(given) : given = SetToBag({k})
=============================================================================
