------------------------------- MODULE Wallets -------------------------------
(***************************************************************************)
(* WalletService: the wallets of the customers, written by requests that   *)
(* check what they read and write it in later calls, with no transaction.  *)
(* Rows of the table Wallet are abstracted to what decides a check or a    *)
(* property: the type is ETH or another one, and an address only counts    *)
(* where an input is refused for it, so rows have none.  The resolver      *)
(* admits a request for a customer when it comes from that customer or an  *)
(* admin, so a request stands for the customer it names.  A request whose  *)
(* first read already refuses it changes nothing and takes no step; it can *)
(* be abandoned at any later call.                                         *)
(***************************************************************************)
EXTENDS Naturals

CONSTANTS
  Customers,
  Requests,
  NoWallet, NoJob,
  MaxWallets   \* bound: wallets ever created

ASSUME ConstantsAssumption == MaxWallets \in Nat

VARIABLES
  wallets,    \* table Wallet, by walletId
  created,    \* the last walletId given out
  pc, job,    \* per request: next step, arguments and what it has read
  overlapped  \* history: requests whose customer's wallets another request has
              \* written since they first read them

vars == <<wallets, created, pc, job, overlapped>>

Ids == 1..MaxWallets
Types == {"ETH", "OTHER"}
Keep == "keep"   \* an optional input that is omitted

Wallet == [customer : Customers, type : Types, isDefault : BOOLEAN]
Job == [op : {"create", "update", "setDefault", "delete"},
        customer : Customers, id : Ids \union {0}, wasEth : BOOLEAN,
        type : Types \union {Keep},
        badAddress : BOOLEAN,  \* an address is given that isAddress refuses
        isDefault : {"true", "false", Keep}]

ASSUME AbsentAssumption == NoWallet \notin Wallet /\ NoJob \notin Job

Init ==
  /\ wallets = [w \in Ids |-> NoWallet]
  /\ created = 0
  /\ pc = [p \in Requests |-> "idle"]
  /\ job = [p \in Requests |-> NoJob]
  /\ overlapped = {}

Owned(c) == {w \in Ids : wallets[w] # NoWallet /\ wallets[w].customer = c}
EthWallets(c) == {w \in Owned(c) : wallets[w].type = "ETH"}

Start(p, step, j) ==
  /\ pc[p] = "idle"
  /\ pc' = [pc EXCEPT ![p] = step]
  /\ job' = [job EXCEPT ![p] = j]
  /\ UNCHANGED <<wallets, created, overlapped>>

Release(p) ==
  /\ pc' = [pc EXCEPT ![p] = "idle"]
  /\ job' = [job EXCEPT ![p] = NoJob]

Reject(p) ==
  /\ Release(p)
  /\ overlapped' = overlapped \ {p}
  /\ UNCHANGED <<wallets, created>>

\* p has written wallets of its customer: whoever works on them has been overtaken.
Overtake(p) ==
  {q \in Requests \ {p} : pc[q] # "idle" /\ job[q].customer = job[p].customer}

-----------------------------------------------------------------------------

\* An input with an address that is refused, or with a type that is, takes no step.
CreateWallet(p) ==
  \E c \in Customers, x \in Types, d \in BOOLEAN :
    /\ EthWallets(c) # {} \/ x = "ETH"
    /\ Start(p, "create",
             [op |-> "create", customer |-> c, id |-> 0, wasEth |-> FALSE,
              type |-> x, badAddress |-> FALSE,
              isDefault |-> IF d \/ Owned(c) = {} THEN "true" ELSE "false"])

WriteCreate(p) ==
  /\ pc[p] = "create"
  /\ created < MaxWallets
  /\ created' = created + 1
  /\ wallets' = [wallets EXCEPT ![created + 1] =
                   [customer |-> job[p].customer, type |-> job[p].type,
                    isDefault |-> job[p].isDefault = "true"]]
  /\ Release(p)
  /\ overlapped' = (overlapped \ {p}) \union Overtake(p)

\* The inputs of updateWallet, setDefaultWallet and deleteWallet, with what they find.
Arguments(c, w) ==
  LET wasEth == wallets[w].type = "ETH" IN
  [op : {"update"}, customer : {c}, id : {w}, wasEth : {wasEth}, type : Types \union {Keep},
   badAddress : BOOLEAN, isDefault : {"true", "false", Keep}]
  \union
  [op : {"setDefault", "delete"}, customer : {c}, id : {w}, wasEth : {wasEth},
   type : {Keep}, badAddress : {FALSE}, isDefault : {Keep}]

\* Mutant of FindWallet: the owner of the wallet is not compared with the input.
FindAnyWallet(p) ==
  \E c \in Customers, w \in Ids :
    /\ wallets[w] # NoWallet
    /\ \E j \in Arguments(c, w) :
         Start(p, IF j.op = "setDefault" THEN "clear" ELSE "others", j)

\* findUnique and the check of the owner, the first step of all three.
FindWallet(p) ==
  \E c \in Customers, w \in Ids :
    /\ w \in Owned(c)
    /\ \E j \in Arguments(c, w) :
         Start(p, IF j.op = "setDefault" THEN "clear" ELSE "others", j)

\* Whether the request takes an ETH wallet away, judged by the row it found.
DropsEth(j) == j.wasEth /\ (j.op = "delete" \/ j.type \notin {"ETH", Keep})

InvalidAddress(j) == j.type = "ETH" /\ j.badAddress

\* Mutant of CheckOthers: the wallet itself is counted among the others.
CheckAll(p) ==
  LET j == job[p] IN
  /\ pc[p] = "others"
  /\ IF (DropsEth(j) /\ EthWallets(j.customer) = {}) \/ InvalidAddress(j)
       THEN Reject(p)
       ELSE /\ pc' = [pc EXCEPT ![p] = j.op]
            /\ UNCHANGED <<wallets, created, job, overlapped>>

CheckOthers(p) ==
  LET j == job[p] IN
  /\ pc[p] = "others"
  /\ IF (DropsEth(j) /\ EthWallets(j.customer) \ {j.id} = {}) \/ InvalidAddress(j)
       THEN Reject(p)
       ELSE /\ pc' = [pc EXCEPT ![p] = j.op]
            /\ UNCHANGED <<wallets, created, job, overlapped>>

\* Prisma leaves a column alone when its input is undefined.
Merge(old, new) == IF new = Keep THEN old ELSE new

Updated(row, j) ==
  [row EXCEPT !.type = Merge(@, j.type),
              !.isDefault = IF j.isDefault = Keep THEN @ ELSE j.isDefault = "true"]

\* The write rejects when the wallet has been deleted since it was found.
Write(p, row) ==
  IF wallets[job[p].id] = NoWallet
    THEN Reject(p)
    ELSE /\ wallets' = [wallets EXCEPT ![job[p].id] = row]
         /\ Release(p)
         /\ overlapped' = (overlapped \ {p}) \union Overtake(p)
         /\ UNCHANGED created

\* Mutant of WriteUpdate: an omitted type is written too.
WriteUpdateInput(p) ==
  /\ pc[p] = "update"
  /\ Write(p, [Updated(wallets[job[p].id], job[p]) EXCEPT !.type = job[p].type])

WriteUpdate(p) ==
  /\ pc[p] = "update"
  /\ Write(p, Updated(wallets[job[p].id], job[p]))

WriteDelete(p) ==
  /\ pc[p] = "delete"
  /\ Write(p, NoWallet)

\* Mutant of ClearDefaults: only the chosen wallet is cleared.
ClearChosen(p) ==
  /\ pc[p] = "clear"
  /\ wallets' = [w \in Ids |-> IF w \in Owned(job[p].customer) /\ w = job[p].id
                                 THEN [wallets[w] EXCEPT !.isDefault = FALSE]
                                 ELSE wallets[w]]
  /\ pc' = [pc EXCEPT ![p] = "set"]
  /\ overlapped' = overlapped \union Overtake(p)
  /\ UNCHANGED <<created, job>>

\* setDefaultWallet: updateMany over the customer's wallets, then one update.
ClearDefaults(p) ==
  /\ pc[p] = "clear"
  /\ wallets' = [w \in Ids |-> IF w \in Owned(job[p].customer)
                                 THEN [wallets[w] EXCEPT !.isDefault = FALSE]
                                 ELSE wallets[w]]
  /\ pc' = [pc EXCEPT ![p] = "set"]
  /\ overlapped' = overlapped \union Overtake(p)
  /\ UNCHANGED <<created, job>>

SetDefault(p) ==
  /\ pc[p] = "set"
  /\ Write(p, [wallets[job[p].id] EXCEPT !.isDefault = TRUE])

\* An awaited call rejects, or the process stops.
Abandon(p) ==
  /\ pc[p] # "idle"
  /\ Reject(p)

Next ==
  \E p \in Requests :
    \/ CreateWallet(p) \/ WriteCreate(p)
    \/ FindWallet(p) \/ CheckOthers(p)
    \/ WriteUpdate(p) \/ WriteDelete(p)
    \/ ClearDefaults(p) \/ SetDefault(p)
    \/ Abandon(p)

Spec == Init /\ [][Next]_vars

-----------------------------------------------------------------------------

TypeOK ==
  /\ wallets \in [Ids -> Wallet \union {NoWallet}]
  /\ created \in 0..MaxWallets
  /\ pc \in [Requests -> {"idle", "create", "others", "update", "delete", "clear", "set"}]
  /\ job \in [Requests -> Job \union {NoJob}]
  /\ overlapped \subseteq Requests

\* A wallet is created, changed and deleted only by a request for its owner, although
\* it is written one or two calls after the owner was checked.
OnlyOwnWalletsChange ==
  [][\A w \in Ids : wallets'[w] # wallets[w] =>
       \E p \in Requests :
         /\ pc'[p] # pc[p]
         /\ wallets[w] # NoWallet => wallets[w].customer = job[p].customer
         /\ wallets'[w] # NoWallet => wallets'[w].customer = job[p].customer]_vars

\* A customer loses the last ETH wallet only when two requests overlap: to a request
\* whose wallets another one has written since it read them (73-93, 148-161).
LastEthLostOnlyByOverlap ==
  [][\A c \in Customers : EthWallets(c) # {} /\ EthWallets(c)' = {} =>
       \E p \in overlapped : pc'[p] # pc[p] /\ job[p].customer = c]_vars

Defaults(c) == {w \in Owned(c) : wallets[w].isDefault}

\* Without overlap setDefaultWallet leaves the chosen wallet as the only default,
\* by two writes that are not one transaction (123-131).
SetDefaultLeavesOne ==
  [][\A p \in Requests, c \in Customers :
       /\ pc[p] = "set" /\ pc'[p] = "idle" /\ job[p].customer = c
       /\ p \notin overlapped /\ wallets' # wallets
       => Defaults(c)' = {job[p].id}]_vars

\* error-messages.constant.ts:34 "You must have at least one ETH wallet": whoever has a
\* wallet has an ETH wallet.
EthWalletRequired == \A c \in Customers : Owned(c) # {} => EthWallets(c) # {}
=============================================================================
