-------------------------- MODULE RpcVerification --------------------------
(***************************************************************************)
(* The verification helpers (scripts/monero_verification.py): checks that  *)
(* are made of JSON-RPC calls, each repeated until it is answered.  Some   *)
(* calls have an effect, and an answer may be lost after it: then the      *)
(* repetition meets a wallet that exists, a chain that has grown, or a     *)
(* payment that has been made.                                             *)
(***************************************************************************)
EXTENDS Integers

CONSTANTS
    CallAttempts,  \* max_attempts
    NodeAttempts,  \* attempts of each call of a check of two nodes
    NumBlocks,     \* num_blocks
    MaxDiff,       \* max_height_diff
    MaxCallFaults, \* bound: calls that fail, answers that are lost
    MaxGrowth      \* bound: the height that blocks of others reach

ASSUME VerificationAssumption ==
    /\ {CallAttempts, NodeAttempts, NumBlocks} \subseteq Nat \ {0}
    /\ {MaxDiff, MaxCallFaults, MaxGrowth} \subseteq Nat

Nodes == {"one", "two"}

VARIABLES
    task,    \* the check
    method,  \* the call under way, or "returned"
    nth,     \* its attempt
    round,   \* the attempt of a check of two nodes
    account, \* the wallet, and whether its error for a name that is taken is known
    net,     \* of each node: its top block, and whether it lists the other
    heard,   \* what the check has read of each node
    paid,    \* payments made
    outcome, \* what the check returns
    bad,     \* calls that failed
    unheard  \* effects the check was not told of

verifying == <<task, method, nth, round, account, net, heard, paid, outcome, bad, unheard>>

FirstCall ==
    [create |-> "open_wallet", open |-> "open_wallet", blocks |-> "get_info",
     payment |-> "get_balance", sync |-> "first", p2p |-> "first"]

Unread == [branch |-> 0, height |-> 0, linked |-> FALSE]

Tops == {[branch |-> b, height |-> h, linked |-> FALSE] : b \in {1, 2}, h \in {1, 2}}
Links == {[branch |-> 1, height |-> 1, linked |-> l] : l \in BOOLEAN}

VerificationInit ==
    /\ task \in DOMAIN FirstCall
    /\ method = FirstCall[task] /\ nth = 1 /\ round = 1
    /\ account \in [exists : BOOLEAN, open : {FALSE}, funded : BOOLEAN,
                    known : IF task = "create" THEN BOOLEAN ELSE {TRUE}]
    /\ net \in [Nodes -> IF task = "p2p" THEN Links ELSE Tops]
    /\ heard = [n \in Nodes |-> Unread]
    /\ paid = 0 /\ outcome = FALSE /\ bad = 0 /\ unheard = 0

-----------------------------------------------------------------------------
(* The nodes change what the check looks at. *)

Change(n, what) ==
    /\ method # "returned"
    /\ net' = [net EXCEPT ![n] = what]
    /\ UNCHANGED <<task, method, nth, round, account, heard, paid, outcome, bad, unheard>>

\* A block of others, on the node's branch.
Grow(n) ==
    /\ task # "p2p" /\ net[n].height < MaxGrowth
    /\ Change(n, [net[n] EXCEPT !.height = @ + 1])

\* A node gives up its branch for the other's.
Reorganises(n) ==
    \E m \in Nodes \ {n} :
        /\ task # "p2p" /\ net[m].branch # net[n].branch /\ net[m].height >= net[n].height
        /\ Change(n, net[m])

\* The node finds the other, or drops it.
Meet(n) == task = "p2p" /\ Change(n, [net[n] EXCEPT !.linked = ~@])

BugRecovers == FALSE

\* create_wallet answers -1 and "already exists": open_wallet.  With another code,
\* or other words, it is an error like any.
Recovers == method = "create_wallet" /\ account.exists /\ account.known

\* Whether the check gets what it asks of the node.
CanDo ==
    CASE method = "open_wallet"   -> account.exists
      [] method = "create_wallet" -> ~account.exists \/ Recovers
      [] method = "get_address"   -> account.open
      [] method = "transfer"      -> account.funded
      [] OTHER -> TRUE

Effect ==
    /\ account' = IF method \in {"open_wallet", "create_wallet"}
                  THEN [account EXCEPT !.exists = TRUE, !.open = TRUE] ELSE account
    /\ net' = IF method = "generateblocks" THEN [net EXCEPT !["one"].height = @ + NumBlocks]
              ELSE net
    /\ paid' = IF method = "transfer" THEN paid + 1 ELSE paid

-----------------------------------------------------------------------------
(* The checks: what follows a call, "answered" or given up. *)

Return(answer) == method' = "returned" /\ outcome' = answer

Proceed(next) == method' = next /\ UNCHANGED outcome

\* verify_wallet_created
CreateAfter(answered) ==
    IF method = "open_wallet" /\ ~answered THEN Proceed("create_wallet") ELSE Return(answered)

\* verify_wallet_open: an address that is not told is no failure.
OpenAfter(answered) ==
    IF method = "open_wallet" /\ answered THEN Proceed("get_address")
    ELSE Return(answered \/ method = "get_address")

\* verify_block_generation
Grown == net["one"].height >= heard["one"].height + NumBlocks

BlocksAfter(answered) ==
    CASE ~answered -> Return(FALSE)
      [] answered /\ method = "get_info" -> Proceed("generateblocks")
      [] answered /\ method = "generateblocks" -> Proceed("last_info")
      [] answered /\ method = "last_info" -> Return(Grown)

\* verify_transaction: a wallet without the funds is not asked to pay.
PaymentAfter(answered) ==
    IF answered /\ method = "get_balance" /\ account.funded THEN Proceed("transfer")
    ELSE Return(answered /\ method = "transfer")

\* verify_network_sync: near, and equal tops or equal heights.
InSync(one, two) ==
    /\ one.height - two.height \in -MaxDiff..MaxDiff
    /\ one = two \/ one.height = two.height

\* verify_p2p_connectivity: each lists the other.
Connected(one, two) == one.linked /\ two.linked

\* Both nodes have been asked; one that has not answered costs a round.
Compare(one, two) ==
    IF /\ Unread \notin {one, two}
       /\ IF task = "sync" THEN InSync(one, two) ELSE Connected(one, two)
    THEN Return(TRUE) /\ UNCHANGED round
    ELSE IF round < CallAttempts THEN Proceed("first") /\ round' = round + 1
    ELSE Return(FALSE) /\ UNCHANGED round

PairAfter(one, two) ==
    IF method = "first" THEN Proceed("second") /\ UNCHANGED round ELSE Compare(one, two)

AfterCall(answered) ==
    LET told(n) == IF answered THEN net[n] ELSE Unread
    IN  /\ nth' = 1
        /\ heard' = CASE method \in {"get_info", "first"} -> [heard EXCEPT !["one"] = told("one")]
                      [] method = "second" -> [heard EXCEPT !["two"] = told("two")]
                      [] OTHER -> heard
        /\ CASE task = "create"  -> CreateAfter(answered) /\ UNCHANGED round
             [] task = "open"    -> OpenAfter(answered) /\ UNCHANGED round
             [] task = "blocks"  -> BlocksAfter(answered) /\ UNCHANGED round
             [] task = "payment" -> PaymentAfter(answered) /\ UNCHANGED round
             [] task \in {"sync", "p2p"} -> PairAfter(heard["one"], told("two"))

-----------------------------------------------------------------------------
(* _call_rpc_with_retry *)

Limit == IF task \in {"sync", "p2p"} THEN NodeAttempts ELSE CallAttempts

Unanswered ==
    \/ /\ nth < Limit
       /\ nth' = nth + 1
       /\ UNCHANGED <<method, outcome, round, heard>>
    \/ nth = Limit /\ AfterCall(FALSE)

Succeed ==
    /\ method # "returned" /\ CanDo
    /\ Effect /\ AfterCall(TRUE)
    /\ UNCHANGED <<task, bad, unheard>>

\* A payment that is made and answered, but without a hash: the check ends.
Hashless ==
    /\ method = "transfer" /\ CanDo
    /\ unheard' = unheard + 1
    /\ Effect /\ nth' = 1 /\ Return(FALSE)
    /\ UNCHANGED <<task, round, heard, bad>>

\* The node answers with an error.
Refuse ==
    /\ method # "returned" /\ ~CanDo
    /\ Unanswered
    /\ UNCHANGED <<task, account, net, paid, bad, unheard>>

\* The node is not reached, or has an error of its own.
Miss ==
    /\ method # "returned" /\ bad < MaxCallFaults
    /\ bad' = bad + 1
    /\ Unanswered
    /\ UNCHANGED <<task, account, net, paid, unheard>>

\* The node does it, and the answer is lost.
Lose ==
    /\ method # "returned" /\ CanDo /\ bad < MaxCallFaults
    /\ bad' = bad + 1
    /\ unheard' = IF method \in {"generateblocks", "transfer"} THEN unheard + 1 ELSE unheard
    /\ Effect /\ Unanswered
    /\ UNCHANGED task

VerificationNext ==
    \/ Succeed \/ Hashless \/ Refuse \/ Miss \/ Lose
    \/ \E n \in Nodes : Grow(n) \/ Reorganises(n) \/ Meet(n)

VerificationSpec == VerificationInit /\ [][VerificationNext]_verifying

-----------------------------------------------------------------------------
(* Properties. *)

\* A check that succeeds is right: the wallet is open, the chain has grown by
\* as much as was asked, the payment has been made, and whatever was repeated
\* has been done once more for every answer that was lost, not oftener.  A
\* check that fails has cause to.  A creation never fails of itself, and where
\* the error of the wallet is known, only by as many failures as a call has
\* attempts; otherwise one lost answer is enough.  A payment that was not
\* confirmed may have been made as often as an answer was lost or had no hash.
VerdictIsEarned ==
    /\ method = "returned" /\ outcome =>
           /\ task \in {"create", "open"} => account.open
           /\ task = "blocks" => Grown
           /\ task = "payment" => paid = 1 + unheard
    /\ method = "returned" /\ ~outcome =>
           /\ task = "create" => bad >= IF account.known THEN CallAttempts ELSE 1
           /\ task = "payment" => paid = unheard

=============================================================================
