---------------------------- MODULE Wallets_proofs ----------------------------
(***************************************************************************)
(* Theorems about Wallets for any customers, requests and number of        *)
(* wallets.  The invariant says what a request still knows when it writes: *)
(* the owner for good, the rest only while nobody has overtaken it.        *)
(***************************************************************************)
EXTENDS Wallets, TLAPS

Chosen == {"others", "update", "delete", "clear", "set"}

\* What holds of a request's arguments whatever the others do.
JobOK ==
  /\ \A p \in Requests :
       /\ pc[p] # "idle" => job[p] \in Job
       /\ pc[p] = "create" => job[p].type # Keep /\ job[p].isDefault # Keep
       /\ pc[p] \in Chosen =>
            /\ job[p].id \in 1..created
            /\ wallets[job[p].id] # NoWallet
               => wallets[job[p].id].customer = job[p].customer
       /\ pc[p] = "others" => job[p].op \in {"update", "delete"}
       /\ pc[p] \in {"update", "delete"} => job[p].op = pc[p]
  /\ \A w \in Ids : w > created => wallets[w] = NoWallet

\* What holds only of a request nobody has overtaken.
Fresh(p, c) ==
  p \notin overlapped /\ pc[p] \in Chosen /\ job[p].customer = c =>
    /\ wallets[job[p].id] # NoWallet
    /\ job[p].wasEth <=> wallets[job[p].id].type = "ETH"
    /\ pc[p] \in {"update", "delete"} /\ DropsEth(job[p])
       => EthWallets(c) \ {job[p].id} # {}
    /\ pc[p] = "set" => Defaults(c) = {}

FreshOK == \A p \in Requests, c \in Customers : Fresh(p, c)

Inv == TypeOK /\ JobOK /\ FreshOK

LEMMA InitInv == Init => Inv
BY ConstantsAssumption DEF Init, Inv, TypeOK, JobOK, FreshOK, Fresh, Chosen, Ids

LEMMA ArgumentsType ==
  ASSUME Inv, NEW c \in Customers, NEW w \in Owned(c), NEW j \in Arguments(c, w)
  PROVE  /\ j \in Job /\ j.customer = c /\ j.id = w /\ w \in 1..created
         /\ j.wasEth <=> wallets[w].type = "ETH"
         /\ j.op \in {"update", "setDefault", "delete"}
         /\ wallets[w] \in Wallet /\ wallets[w].customer = c
<1>1. w \in Ids /\ wallets[w] # NoWallet /\ wallets[w].customer = c
  BY DEF Owned
<1>2. wallets[w] \in Wallet /\ created \in Nat
  BY <1>1, ConstantsAssumption DEF Inv, TypeOK
<1>3. w \in 1..created
  BY <1>1, <1>2, ConstantsAssumption DEF Inv, JobOK, Ids
<1>4. /\ j \in Job /\ j.customer = c /\ j.id = w
      /\ j.wasEth <=> wallets[w].type = "ETH"
      /\ j.op \in {"update", "setDefault", "delete"}
  BY <1>1 DEF Arguments, Job, Wallet
<1>5. QED
  BY <1>1, <1>2, <1>3, <1>4

LEMMA CreateInv == ASSUME Inv, NEW p \in Requests, CreateWallet(p) PROVE Inv'
BY AbsentAssumption DEF Inv, CreateWallet, Start, TypeOK, JobOK, FreshOK, Fresh, Job, Owned, EthWallets, Defaults,
   Chosen, DropsEth, Keep, Types

LEMMA FindInv == ASSUME Inv, NEW p \in Requests, FindWallet(p) PROVE Inv'
<1>1. PICK c \in Customers, w \in Ids :
        /\ w \in Owned(c)
        /\ \E j \in Arguments(c, w) :
             Start(p, IF j.op = "setDefault" THEN "clear" ELSE "others", j)
  BY DEF FindWallet
<1>2. PICK j \in Arguments(c, w) :
             Start(p, IF j.op = "setDefault" THEN "clear" ELSE "others", j)
  BY <1>1
<1> DEFINE Found == /\ j \in Job /\ j.customer = c /\ j.id = w /\ w \in 1..created
                    /\ j.wasEth <=> wallets[w].type = "ETH"
                    /\ j.op \in {"update", "setDefault", "delete"}
                    /\ wallets[w] \in Wallet /\ wallets[w].customer = c /\ wallets[w] # NoWallet
<1>a. Found
  BY <1>1, ArgumentsType DEF Owned
<1> HIDE DEF Found
<1>3. TypeOK'
  BY <1>2, <1>a DEF Found, Inv, TypeOK, Start
<1>4. JobOK'
  BY <1>2, <1>a DEF Found, Inv, TypeOK, JobOK, Start, Chosen
<1>5. FreshOK'
  BY <1>2, <1>a DEF Found, Inv, TypeOK, FreshOK, Fresh, Start, Chosen, EthWallets, Owned, Defaults
<1>6. QED
  BY <1>3, <1>4, <1>5 DEF Inv

LEMMA RejectInv == ASSUME Inv, NEW p \in Requests, Reject(p) PROVE Inv'
BY DEF Inv, Reject, Release, TypeOK, JobOK, FreshOK, Fresh, Chosen, EthWallets, Owned, Defaults

LEMMA CheckInv == ASSUME Inv, NEW p \in Requests, CheckOthers(p) PROVE Inv'
<1>1. CASE Reject(p)
  BY <1>1, RejectInv
<1>2. CASE /\ ~(DropsEth(job[p]) /\ EthWallets(job[p].customer) \ {job[p].id} = {})
           /\ pc[p] = "others"
           /\ pc' = [pc EXCEPT ![p] = job[p].op]
           /\ UNCHANGED <<wallets, created, job, overlapped>>
  <2>1. job[p].op \in {"update", "delete"}
    BY <1>2 DEF Inv, JobOK
  <2>2. TypeOK' /\ JobOK'
    BY <1>2, <2>1 DEF Inv, TypeOK, JobOK, Chosen
  <2>3. FreshOK'
    BY <1>2, <2>1 DEF Inv, TypeOK, FreshOK, Fresh, Chosen, EthWallets, Owned, Defaults
  <2>4. QED
    BY <2>2, <2>3 DEF Inv
<1>3. QED
  BY <1>1, <1>2 DEF CheckOthers

\* A request that writes only wallets of its customer disturbs the requests it
\* overtakes and no other.
OwnWrites(p) ==
  \A w \in Ids : wallets'[w] # wallets[w] =>
    /\ wallets[w] # NoWallet => wallets[w].customer = job[p].customer
    /\ wallets'[w] # NoWallet => wallets'[w].customer = job[p].customer

LEMMA OthersFresh ==
  ASSUME Inv, NEW p \in Requests, OwnWrites(p),
         \A q \in Requests \ {p} : pc'[q] = pc[q] /\ job'[q] = job[q],
         (overlapped \ {p}) \union Overtake(p) \subseteq overlapped',
         \A c \in Customers : Fresh(p, c)'
  PROVE  FreshOK'
<1> SUFFICES ASSUME NEW q \in Requests, NEW c \in Customers, q # p,
                    q \notin overlapped', pc[q] \in Chosen, job[q].customer = c
             PROVE  /\ wallets'[job[q].id] # NoWallet
                    /\ job[q].wasEth <=> wallets'[job[q].id].type = "ETH"
                    /\ pc[q] \in {"update", "delete"} /\ DropsEth(job[q])
                       => EthWallets(c)' \ {job[q].id} # {}
                    /\ pc[q] = "set" => Defaults(c)' = {}
  BY DEF FreshOK, Fresh, DropsEth
<1>1. q \notin overlapped /\ job[p].customer # c
  BY DEF Overtake, Chosen
<1>2. Owned(c)' = Owned(c) /\ \A w \in Owned(c) : wallets'[w] = wallets[w]
  BY <1>1 DEF Owned, OwnWrites
<1>3. job[q].id \in Ids /\ wallets[job[q].id] # NoWallet /\ wallets[job[q].id].customer = c
  BY <1>1, ConstantsAssumption DEF Inv, TypeOK, JobOK, FreshOK, Fresh, Ids
<1>4. EthWallets(c)' = EthWallets(c) /\ Defaults(c)' = Defaults(c)
  BY <1>2 DEF EthWallets, Defaults
<1>5. wallets'[job[q].id] = wallets[job[q].id]
  BY <1>2, <1>3 DEF Owned
<1>6. QED
  BY <1>1, <1>4, <1>5 DEF Inv, FreshOK, Fresh

LEMMA WriteCreateInv ==
  ASSUME Inv, NEW p \in Requests, WriteCreate(p)
  PROVE  Inv' /\ OwnWrites(p)
<1> DEFINE new == [customer |-> job[p].customer, type |-> job[p].type,
                   isDefault |-> job[p].isDefault = "true"]
<1>1. job[p] \in Job /\ new \in Wallet /\ new.customer = job[p].customer
  BY DEF WriteCreate, Inv, JobOK, Job, Wallet, Keep
<1>2. /\ created + 1 \in Ids /\ created \in Nat /\ created + 1 <= MaxWallets
      /\ wallets' = [wallets EXCEPT ![created + 1] = new] /\ created' = created + 1
      /\ wallets[created + 1] = NoWallet
  BY ConstantsAssumption DEF WriteCreate, Inv, TypeOK, JobOK, Ids
<1>3. /\ pc' = [pc EXCEPT ![p] = "idle"] /\ job' = [job EXCEPT ![p] = NoJob]
      /\ overlapped' = (overlapped \ {p}) \union Overtake(p)
  BY DEF WriteCreate, Release
<1> HIDE DEF new
<1>4. TypeOK'
  BY <1>1, <1>2, <1>3, ConstantsAssumption DEF Inv, TypeOK, Overtake
<1>5. \A w \in 1..created : wallets'[w] = wallets[w]
  BY <1>2 DEF Inv, TypeOK, Ids
<1>6. JobOK'
  BY <1>2, <1>3, <1>5 DEF Inv, TypeOK, JobOK, Chosen, Ids
<1>7. OwnWrites(p)
  BY <1>1, <1>2 DEF OwnWrites, Inv, TypeOK
<1>8. FreshOK'
  <2>1. \A c \in Customers : Fresh(p, c)'
    BY <1>3 DEF Fresh, Inv, TypeOK, Chosen
  <2>2. \A q \in Requests \ {p} : pc'[q] = pc[q] /\ job'[q] = job[q]
    BY <1>3 DEF Inv, TypeOK
  <2>3. QED
    BY <1>3, <1>7, <2>1, <2>2, OthersFresh
<1>9. QED
  BY <1>4, <1>6, <1>7, <1>8 DEF Inv

\* A write to the chosen wallet that ends the request.
LEMMA WriteInv ==
  ASSUME Inv, NEW p \in Requests, pc[p] \in Chosen, NEW row, Write(p, row),
         wallets[job[p].id] # NoWallet =>
           row = NoWallet \/ (row \in Wallet /\ row.customer = job[p].customer)
  PROVE  Inv' /\ (Reject(p) \/ OwnWrites(p))
<1>1. CASE Reject(p)
  BY <1>1, RejectInv
<1>2. CASE ~Reject(p)
  <2> DEFINE w == job[p].id
  <2>1. /\ wallets[w] # NoWallet /\ wallets' = [wallets EXCEPT ![w] = row]
        /\ created' = created
        /\ pc' = [pc EXCEPT ![p] = "idle"] /\ job' = [job EXCEPT ![p] = NoJob]
        /\ overlapped' = (overlapped \ {p}) \union Overtake(p)
    BY <1>2 DEF Write, Release
  <2>2. w \in Ids /\ w \in 1..created /\ wallets[w].customer = job[p].customer
    BY <2>1, ConstantsAssumption DEF Inv, TypeOK, JobOK, Ids
  <2> HIDE DEF w
  <2>3. row = NoWallet \/ (row \in Wallet /\ row.customer = job[p].customer)
    BY <2>1 DEF w
  <2>4. TypeOK'
    BY <2>1, <2>2, <2>3 DEF Inv, TypeOK, Overtake
  <2>5. OwnWrites(p)
    BY <2>1, <2>2, <2>3 DEF OwnWrites, Inv, TypeOK
  <2>6. JobOK'
    <3>1. \A v \in Ids : wallets'[v] # NoWallet =>
            wallets[v] # NoWallet /\ wallets'[v].customer = wallets[v].customer
      BY <2>1, <2>2, <2>3 DEF Inv, TypeOK
    <3>2. 1..created \subseteq Ids
      BY ConstantsAssumption DEF Inv, TypeOK, Ids
    <3>3. QED
      BY <2>1, <3>1, <3>2 DEF Inv, TypeOK, JobOK, Chosen
  <2>7. FreshOK'
    <3>1. \A c \in Customers : Fresh(p, c)'
      BY <2>1 DEF Fresh, Inv, TypeOK, Chosen
    <3>2. \A q \in Requests \ {p} : pc'[q] = pc[q] /\ job'[q] = job[q]
      BY <2>1 DEF Inv, TypeOK
    <3>3. QED
      BY <2>1, <2>5, <3>1, <3>2, OthersFresh
  <2>8. QED
    BY <2>4, <2>5, <2>6, <2>7 DEF Inv
<1>3. QED
  BY <1>1, <1>2

LEMMA UpdatedType ==
  ASSUME NEW row \in Wallet, NEW j \in Job
  PROVE  /\ Updated(row, j) \in Wallet /\ Updated(row, j).customer = row.customer
         /\ Updated(row, j).type = Merge(row.type, j.type)
BY DEF Updated, Merge, Wallet, Job, Keep

LEMMA WriteUpdateInv ==
  ASSUME Inv, NEW p \in Requests, WriteUpdate(p)
  PROVE  Inv' /\ (Reject(p) \/ OwnWrites(p))
<1> DEFINE row == wallets[job[p].id]
<1>1. pc[p] \in Chosen /\ Write(p, Updated(row, job[p]))
  BY DEF WriteUpdate, Chosen
<1>2. ASSUME row # NoWallet
      PROVE  row \in Wallet /\ row.customer = job[p].customer /\ job[p] \in Job
  BY <1>1, <1>2, ConstantsAssumption DEF Inv, TypeOK, JobOK, Ids, Chosen
<1>3. row # NoWallet => /\ Updated(row, job[p]) \in Wallet
                       /\ Updated(row, job[p]).customer = job[p].customer
  BY <1>2, UpdatedType
<1>4. QED
  BY <1>1, <1>3, WriteInv

LEMMA WriteDeleteInv ==
  ASSUME Inv, NEW p \in Requests, WriteDelete(p)
  PROVE  Inv' /\ (Reject(p) \/ OwnWrites(p))
BY WriteInv DEF WriteDelete, Chosen

LEMMA SetDefaultInv ==
  ASSUME Inv, NEW p \in Requests, SetDefault(p)
  PROVE  Inv' /\ (Reject(p) \/ OwnWrites(p))
<1> DEFINE row == wallets[job[p].id]
           set == [row EXCEPT !.isDefault = TRUE]
<1>1. pc[p] \in Chosen /\ Write(p, set)
  BY DEF SetDefault, Chosen
<1>2. ASSUME row # NoWallet
      PROVE  row \in Wallet /\ row.customer = job[p].customer
  BY <1>1, <1>2, ConstantsAssumption DEF Inv, TypeOK, JobOK, Ids, Chosen
<1>3. row # NoWallet => set \in Wallet /\ set.customer = job[p].customer
  BY <1>2 DEF Wallet
<1>4. QED
  BY <1>1, <1>3, WriteInv

\* updateMany clears the defaults of one customer and nothing else.
LEMMA ClearedWallets ==
  ASSUME Inv, NEW p \in Requests, ClearDefaults(p)
  PROVE  \A w \in Ids :
           /\ wallets'[w] = NoWallet <=> wallets[w] = NoWallet
           /\ wallets'[w] \in Wallet \union {NoWallet}
           /\ wallets[w] # NoWallet => /\ wallets'[w].customer = wallets[w].customer
                                      /\ wallets'[w].type = wallets[w].type
           /\ w \in Owned(job[p].customer) => wallets'[w].isDefault = FALSE
           /\ w \notin Owned(job[p].customer) => wallets'[w] = wallets[w]
<1> SUFFICES ASSUME NEW w \in Ids
             PROVE  /\ wallets'[w] = NoWallet <=> wallets[w] = NoWallet
                    /\ wallets'[w] \in Wallet \union {NoWallet}
                    /\ wallets[w] # NoWallet => /\ wallets'[w].customer = wallets[w].customer
                                               /\ wallets'[w].type = wallets[w].type
                    /\ w \in Owned(job[p].customer) => wallets'[w].isDefault = FALSE
                    /\ w \notin Owned(job[p].customer) => wallets'[w] = wallets[w]
  OBVIOUS
<1>1. wallets[w] \in Wallet \union {NoWallet}
  BY DEF Inv, TypeOK
<1>2. CASE w \in Owned(job[p].customer)
  <2>1. wallets[w] \in Wallet /\ wallets'[w] = [wallets[w] EXCEPT !.isDefault = FALSE]
    BY <1>1, <1>2 DEF ClearDefaults, Owned
  <2>2. wallets'[w] \in Wallet /\ wallets'[w].isDefault = FALSE
        /\ wallets'[w].customer = wallets[w].customer /\ wallets'[w].type = wallets[w].type
    BY <2>1 DEF Wallet
  <2>3. QED
    BY <1>2, <2>1, <2>2, AbsentAssumption
<1>3. CASE w \notin Owned(job[p].customer)
  BY <1>1, <1>3 DEF ClearDefaults
<1>4. QED
  BY <1>2, <1>3

LEMMA ClearInv ==
  ASSUME Inv, NEW p \in Requests, ClearDefaults(p)
  PROVE  Inv' /\ OwnWrites(p)
<1>1. /\ pc[p] = "clear" /\ pc' = [pc EXCEPT ![p] = "set"]
      /\ overlapped' = overlapped \union Overtake(p) /\ created' = created /\ job' = job
  BY DEF ClearDefaults
<1>2. OwnWrites(p)
  <2>1. \A w \in Ids : wallets'[w] # wallets[w] =>
          w \in Owned(job[p].customer) /\ wallets'[w].customer = wallets[w].customer
    BY ClearedWallets DEF Owned
  <2>2. QED
    BY <2>1 DEF OwnWrites, Owned
<1>3. TypeOK'
  <2>1. wallets' \in [Ids -> Wallet \union {NoWallet}]
    <3>1. wallets' = [w \in Ids |-> wallets'[w]]
      BY DEF ClearDefaults
    <3>2. QED
      BY <3>1, ClearedWallets
  <2>2. QED
    BY <1>1, <2>1 DEF Inv, TypeOK, Overtake
<1>4. JobOK'
  <2>1. 1..created \subseteq Ids
    BY ConstantsAssumption DEF Inv, TypeOK, Ids
  <2>2. \A w \in Ids :
          /\ wallets'[w] = NoWallet <=> wallets[w] = NoWallet
          /\ wallets[w] # NoWallet => wallets'[w].customer = wallets[w].customer
    BY ClearedWallets
  <2>3. \A q \in Requests : pc'[q] = pc[q] \/ (q = p /\ pc'[q] = "set" /\ pc[q] = "clear")
    BY <1>1 DEF Inv, TypeOK
  <2>4. \A q \in Requests : pc[q] \in Chosen =>
          /\ job[q].id \in Ids /\ job[q].id \in 1..created
          /\ wallets[job[q].id] # NoWallet => wallets[job[q].id].customer = job[q].customer
    BY <2>1 DEF Inv, JobOK
  <2>5. \A q \in Requests : pc'[q] \in Chosen <=> pc[q] \in Chosen
    BY <2>3 DEF Chosen
  <2>6. \A q \in Requests : pc'[q] \in Chosen =>
          /\ job'[q].id \in 1..created'
          /\ wallets'[job'[q].id] # NoWallet => wallets'[job'[q].id].customer = job'[q].customer
    <3>1. job' = job /\ created' = created
      BY <1>1
    <3>2. SUFFICES ASSUME NEW q \in Requests, pc'[q] \in Chosen
                   PROVE  /\ job[q].id \in 1..created
                          /\ wallets'[job[q].id] # NoWallet
                             => wallets'[job[q].id].customer = job[q].customer
      BY <3>1
    <3>3. /\ job[q].id \in Ids /\ job[q].id \in 1..created
          /\ wallets[job[q].id] # NoWallet => wallets[job[q].id].customer = job[q].customer
      BY <2>4, <2>5, <3>2
    <3>4. QED
      BY <2>2, <3>3
  <2>7. \A w \in Ids : w > created' => wallets'[w] = NoWallet
    <3>1. \A w \in Ids : w > created => wallets[w] = NoWallet
      BY DEF Inv, JobOK
    <3>2. created' = created
      BY <1>1
    <3>3. QED
      BY <2>2, <3>1, <3>2
  <2>8. \A q \in Requests :
          /\ pc'[q] # "idle" => job'[q] \in Job
          /\ pc'[q] = "create" => /\ job'[q].type # Keep
                                 /\ job'[q].isDefault # Keep
          /\ pc'[q] = "others" => job'[q].op \in {"update", "delete"}
          /\ pc'[q] \in {"update", "delete"} => job'[q].op = pc'[q]
    BY <1>1, <2>3 DEF Inv, JobOK
  <2>9. QED
    BY <2>6, <2>7, <2>8 DEF JobOK
<1>5. FreshOK'
  <2>1. ASSUME NEW c \in Customers PROVE Fresh(p, c)'
    <3> SUFFICES ASSUME p \notin overlapped, job[p].customer = c
                 PROVE  /\ wallets'[job[p].id] # NoWallet
                        /\ job[p].wasEth <=> wallets'[job[p].id].type = "ETH"
                        /\ Defaults(c)' = {}
      BY <1>1 DEF Fresh, Inv, TypeOK
    <3>1. /\ job[p].id \in Ids /\ wallets[job[p].id] # NoWallet
          /\ job[p].wasEth <=> wallets[job[p].id].type = "ETH"
      BY <1>1, ConstantsAssumption DEF Inv, TypeOK, JobOK, FreshOK, Fresh, Chosen, Ids
    <3>2. Defaults(c)' = {}
      BY ClearedWallets DEF Defaults, Owned
    <3>3. QED
      BY <3>1, <3>2, ClearedWallets
  <2>2. \A q \in Requests \ {p} : pc'[q] = pc[q] /\ job'[q] = job[q]
    BY <1>1 DEF Inv, TypeOK
  <2>3. QED
    BY <1>1, <1>2, <2>1, <2>2, OthersFresh
<1>6. QED
  BY <1>2, <1>3, <1>4, <1>5 DEF Inv

LEMMA NextInv == Inv /\ [Next]_vars => Inv'
<1> SUFFICES ASSUME Inv, [Next]_vars PROVE Inv'
  OBVIOUS
<1>1. ASSUME NEW p \in Requests,
             \/ CreateWallet(p) \/ WriteCreate(p) \/ FindWallet(p) \/ CheckOthers(p)
             \/ WriteUpdate(p) \/ WriteDelete(p) \/ ClearDefaults(p) \/ SetDefault(p)
             \/ Abandon(p)
      PROVE  Inv'
  BY <1>1, CreateInv, WriteCreateInv, FindInv, CheckInv, WriteUpdateInv, WriteDeleteInv,
     ClearInv, SetDefaultInv, RejectInv DEF Abandon
<1>2. CASE UNCHANGED vars
  BY <1>2 DEF vars, Inv, TypeOK, JobOK, FreshOK, Fresh, Chosen, Owned, EthWallets, Defaults
<1>3. QED
  BY <1>1, <1>2 DEF Next

LEMMA SpecInv == Spec => []Inv
BY InitInv, NextInv, PTL DEF Spec

\* The table and the requests have their types.
THEOREM TypeCorrect == Spec => []TypeOK
<1>1. Inv => TypeOK
  BY DEF Inv
<1>2. QED
  BY <1>1, SpecInv, PTL

\* Whoever changes a row works for the owner of the row.
LEMMA OwnStep ==
  ASSUME Inv, [Next]_vars, wallets' # wallets
  PROVE  \E p \in Requests : pc'[p] # pc[p] /\ OwnWrites(p) /\ ~Reject(p)
<1>1. PICK p \in Requests :
        WriteCreate(p) \/ WriteUpdate(p) \/ WriteDelete(p) \/ ClearDefaults(p) \/ SetDefault(p)
  BY DEF Next, vars, CreateWallet, FindWallet, CheckOthers, Abandon, Start, Reject
<1>2. ~Reject(p)
  BY DEF Reject
<1>3. OwnWrites(p)
  BY <1>1, <1>2, WriteCreateInv, WriteUpdateInv, WriteDeleteInv, SetDefaultInv, ClearInv
<1>4. pc'[p] # pc[p]
  BY <1>1, <1>2 DEF WriteCreate, WriteUpdate, WriteDelete, SetDefault, Write, ClearDefaults,
     Release, Inv, TypeOK
<1>5. QED
  BY <1>2, <1>3, <1>4

\* Wallets change only on behalf of their owner.
THEOREM WalletsChangeForOwner == Spec => OnlyOwnWalletsChange
<1>1. Inv /\ [Next]_vars =>
        [\A w \in Ids : wallets'[w] # wallets[w] =>
           \E p \in Requests :
             /\ pc'[p] # pc[p]
             /\ wallets[w] # NoWallet => wallets[w].customer = job[p].customer
             /\ wallets'[w] # NoWallet => wallets'[w].customer = job[p].customer]_vars
  BY OwnStep DEF OwnWrites, vars
<1>2. QED
  BY <1>1, SpecInv, PTL DEF Spec, OnlyOwnWalletsChange

\* A request that has not been overtaken leaves another ETH wallet behind.
LEMMA EthStep ==
  ASSUME Inv, [Next]_vars, NEW c \in Customers, EthWallets(c) # {}, EthWallets(c)' = {}
  PROVE  \E p \in overlapped : pc'[p] # pc[p] /\ job[p].customer = c
<1>1. wallets' # wallets
  BY DEF EthWallets, Owned
<1>2. PICK w \in EthWallets(c) : TRUE
  OBVIOUS
<1>3. w \in Ids /\ wallets[w] # NoWallet /\ wallets[w].customer = c /\ wallets[w].type = "ETH"
      /\ wallets[w] \in Wallet
  BY DEF EthWallets, Owned, Inv, TypeOK
<1>4. wallets'[w] = NoWallet \/ wallets'[w].customer # c \/ wallets'[w].type # "ETH"
  BY <1>3 DEF EthWallets, Owned
<1>5. PICK p \in Requests : WriteUpdate(p) \/ WriteDelete(p)
  <2>1. ASSUME NEW q \in Requests, WriteCreate(q) PROVE FALSE
    BY <2>1, <1>3, <1>4, ConstantsAssumption DEF WriteCreate, Inv, TypeOK, JobOK
  <2>2. ASSUME NEW q \in Requests, ClearDefaults(q) PROVE FALSE
    BY <2>2, <1>3, <1>4, ClearedWallets
  <2>3. ASSUME NEW q \in Requests, SetDefault(q) PROVE FALSE
    <3>1. wallets' = [wallets EXCEPT ![job[q].id] = [wallets[job[q].id] EXCEPT !.isDefault = TRUE]]
      BY <2>3, <1>1 DEF SetDefault, Write, Reject
    <3>2. CASE job[q].id = w
      <4>1. wallets'[w] = [wallets[w] EXCEPT !.isDefault = TRUE]
        BY <3>1, <3>2, <1>3 DEF Inv, TypeOK
      <4>2. wallets'[w] \in Wallet /\ wallets'[w].customer = c /\ wallets'[w].type = "ETH"
        BY <4>1, <1>3 DEF Wallet
      <4>3. QED
        BY <4>2, <1>4, AbsentAssumption
    <3>3. CASE job[q].id # w
      BY <3>1, <3>3, <1>3, <1>4 DEF Inv, TypeOK
    <3>4. QED
      BY <3>2, <3>3
  <2>4. QED
    BY <1>1, <2>1, <2>2, <2>3
    DEF Next, vars, CreateWallet, FindWallet, CheckOthers, Abandon, Start, Reject
<1> DEFINE v == job[p].id
           row == IF pc[p] = "update" THEN Updated(wallets[v], job[p]) ELSE NoWallet
<1>6. /\ pc[p] \in {"update", "delete"} /\ wallets[v] # NoWallet
      /\ wallets' = [wallets EXCEPT ![v] = row] /\ pc' = [pc EXCEPT ![p] = "idle"]
  BY <1>1, <1>5 DEF WriteUpdate, WriteDelete, Write, Reject, Release
<1>7. /\ v \in Ids /\ wallets[v] \in Wallet /\ wallets[v].customer = job[p].customer
      /\ job[p] \in Job /\ job[p].op = pc[p]
  BY <1>6, ConstantsAssumption DEF Inv, TypeOK, JobOK, Chosen, Ids
<1>8. \A x \in Ids : x # v => wallets'[x] = wallets[x]
  BY <1>6, <1>7 DEF Inv, TypeOK
<1>9. w = v /\ job[p].customer = c
  BY <1>3, <1>4, <1>7, <1>8
<1>10. EthWallets(c) \ {v} = {}
  BY <1>8 DEF EthWallets, Owned
<1>11. DropsEth(job[p]) \/ ~job[p].wasEth
  <2>1. wallets'[w] = row
    BY <1>6, <1>7, <1>9 DEF Inv, TypeOK
  <2>2. CASE pc[p] = "delete"
    BY <2>2, <1>7 DEF DropsEth
  <2>3. CASE pc[p] = "update"
    <3>1. row \in Wallet /\ row.customer = c /\ row.type = Merge(wallets[v].type, job[p].type)
      BY <2>3, <1>7, <1>9, UpdatedType
    <3>2. job[p].type \notin {"ETH", Keep}
      BY <2>1, <3>1, <1>3, <1>4, <1>9, AbsentAssumption DEF Merge
    <3>3. QED
      BY <3>2 DEF DropsEth
  <2>4. QED
    BY <1>6, <2>2, <2>3
<1>12. p \in overlapped
  <2> SUFFICES ASSUME p \notin overlapped PROVE FALSE
    OBVIOUS
  <2>1. Fresh(p, c)
    BY DEF Inv, FreshOK
  <2>2. job[p].wasEth
    BY <2>1, <1>3, <1>6, <1>9 DEF Fresh, Chosen
  <2>3. QED
    BY <2>1, <2>2, <1>6, <1>9, <1>10, <1>11 DEF Fresh, Chosen
<1>13. QED
  BY <1>6, <1>9, <1>12 DEF Inv, TypeOK

\* The last ETH wallet is never lost to a request that nobody has overtaken.
THEOREM LastEthKeptWithoutOverlap == Spec => LastEthLostOnlyByOverlap
<1>1. Inv /\ [Next]_vars =>
        [\A c \in Customers : EthWallets(c) # {} /\ EthWallets(c)' = {} =>
           \E p \in overlapped : pc'[p] # pc[p] /\ job[p].customer = c]_vars
  BY EthStep DEF vars
<1>2. QED
  BY <1>1, SpecInv, PTL DEF Spec, LastEthLostOnlyByOverlap

LEMMA DefaultStep ==
  ASSUME Inv, [Next]_vars, NEW p \in Requests, NEW c \in Customers,
         pc[p] = "set" /\ pc'[p] = "idle" /\ job[p].customer = c,
         p \notin overlapped, wallets' # wallets
  PROVE  Defaults(c)' = {job[p].id}
<1>1. SetDefault(p)
  BY DEF Next, vars, CreateWallet, WriteCreate, FindWallet, CheckOthers, WriteUpdate,
     WriteDelete, ClearDefaults, SetDefault, Write, Abandon, Start, Reject, Release, Inv, TypeOK
<1> DEFINE v == job[p].id
<1>2. v \in Ids /\ wallets[v] \in Wallet /\ wallets[v].customer = c /\ Defaults(c) = {}
      /\ wallets[v] # NoWallet
  BY ConstantsAssumption DEF Inv, TypeOK, JobOK, FreshOK, Fresh, Chosen, Ids
<1>3. wallets' = [wallets EXCEPT ![v] = [wallets[v] EXCEPT !.isDefault = TRUE]]
  BY <1>1 DEF SetDefault, Write, Reject
<1> HIDE DEF v
<1>4. /\ wallets'[v] \in Wallet /\ wallets'[v].isDefault /\ wallets'[v].customer = c
      /\ \A w \in Ids : w # v => wallets'[w] = wallets[w]
  BY <1>2, <1>3 DEF Inv, TypeOK, Wallet
<1>5. wallets'[v] # NoWallet
  BY <1>4, AbsentAssumption
<1>6. QED
  BY <1>2, <1>4, <1>5 DEF Defaults, Owned, v

\* setDefaultWallet that is not overtaken leaves one default.
THEOREM OneDefaultWithoutOverlap == Spec => SetDefaultLeavesOne
<1>1. Inv /\ [Next]_vars =>
        [\A p \in Requests, c \in Customers :
           /\ pc[p] = "set" /\ pc'[p] = "idle" /\ job[p].customer = c
           /\ p \notin overlapped /\ wallets' # wallets
           => Defaults(c)' = {job[p].id}]_vars
  BY DefaultStep DEF vars
<1>2. QED
  BY <1>1, SpecInv, PTL DEF Spec, SetDefaultLeavesOne
-----------------------------------------------------------------------------
(* One request at a time keeps the rule of the error message.               *)

\* A wallet about to be created leaves its owner with an ETH wallet.
CreateOK ==
  \A p \in Requests, c \in Customers : pc[p] = "create" /\ job[p].customer = c =>
    job[p].type = "ETH" \/ EthWallets(c) # {}

Alone == EthWalletRequired /\ CreateOK /\ overlapped = {}

\* Only WriteCreate adds a row to those of a customer.
LEMMA NoNewRow ==
  ASSUME Inv, [Next]_vars, \A p \in Requests : ~WriteCreate(p), NEW c \in Customers
  PROVE  Owned(c)' \subseteq Owned(c)
<1> SUFFICES ASSUME NEW w \in Ids, wallets'[w] # NoWallet, wallets'[w].customer = c
             PROVE  wallets[w] # NoWallet /\ wallets[w].customer = c
  BY DEF Owned
<1>1. CASE wallets'[w] = wallets[w]
  BY <1>1
<1>2. CASE wallets'[w] # wallets[w]
  <2>1. PICK p \in Requests : OwnWrites(p)
    BY <1>2, OwnStep
  <2>2. wallets[w] # NoWallet
    <3>1. PICK q \in Requests :
            WriteUpdate(q) \/ WriteDelete(q) \/ SetDefault(q) \/ ClearDefaults(q)
      BY <1>2 DEF Next, vars, CreateWallet, FindWallet, CheckOthers, Abandon, Start, Reject
    <3>2. CASE ClearDefaults(q)
      BY <3>2, ClearedWallets
    <3>3. CASE WriteUpdate(q) \/ WriteDelete(q) \/ SetDefault(q)
      <4>1. wallets[job[q].id] # NoWallet
        BY <1>2, <3>3 DEF WriteUpdate, WriteDelete, SetDefault, Write, Reject
      <4>2. \A x \in Ids : x # job[q].id => wallets'[x] = wallets[x]
        BY <1>2, <3>3 DEF WriteUpdate, WriteDelete, SetDefault, Write, Reject, Inv, TypeOK
      <4>3. QED
        BY <1>2, <4>1, <4>2
    <3>4. QED
      BY <3>1, <3>2, <3>3
  <2>3. QED
    BY <1>2, <2>1, <2>2 DEF OwnWrites
<1>3. QED
  BY <1>1, <1>2

LEMMA AloneStep ==
  ASSUME \A p, q \in Requests : p = q, Inv, Alone, [Next]_vars
  PROVE  Alone'
<1>1. overlapped' = {}
  BY DEF Alone, Next, vars, CreateWallet, WriteCreate, FindWallet, CheckOthers, WriteUpdate,
     WriteDelete, ClearDefaults, SetDefault, Write, Abandon, Start, Reject, Overtake
<1>2. \A c \in Customers : EthWallets(c) # {} => EthWallets(c)' # {}
  BY EthStep DEF Alone
<1>3. EthWalletRequired'
  <2> SUFFICES ASSUME NEW c \in Customers, Owned(c)' # {} PROVE EthWallets(c)' # {}
    BY DEF EthWalletRequired
  <2>1. CASE Owned(c) # {}
    BY <2>1, <1>2 DEF Alone, EthWalletRequired
  <2>2. CASE Owned(c) = {}
    <3>1. PICK p \in Requests : WriteCreate(p)
      BY <2>2, NoNewRow
    <3>2. /\ created + 1 \in Ids /\ pc[p] = "create" /\ job[p].type \in Types
          /\ wallets'[created + 1] = [customer |-> job[p].customer, type |-> job[p].type,
                                      isDefault |-> job[p].isDefault = "true"]
          /\ \A w \in Ids : w # created + 1 => wallets'[w] = wallets[w]
      BY <3>1, ConstantsAssumption DEF WriteCreate, Inv, TypeOK, JobOK, Ids, Job
    <3>3. job[p].customer = c
      BY <2>2, <3>2 DEF Owned
    <3>4. EthWallets(c) = {}
      BY <2>2 DEF EthWallets
    <3>5. job[p].type = "ETH"
      BY <3>2, <3>3, <3>4 DEF Alone, CreateOK
    <3>6. wallets'[created + 1] # NoWallet
      <4>1. [customer |-> job[p].customer, type |-> job[p].type,
             isDefault |-> job[p].isDefault = "true"] \in Wallet
        BY <3>2, <3>3 DEF Wallet
      <4>2. QED
        BY <3>2, <4>1, AbsentAssumption
    <3>7. QED
      BY <3>2, <3>3, <3>5, <3>6 DEF EthWallets, Owned
  <2>3. QED
    BY <2>1, <2>2
<1>4. CreateOK'
  <2> SUFFICES ASSUME NEW p \in Requests, NEW c \in Customers, pc'[p] = "create",
                      job'[p].customer = c
               PROVE  job'[p].type = "ETH" \/ EthWallets(c)' # {}
    BY DEF CreateOK
  <2>1. CASE UNCHANGED vars
    BY <2>1, <1>2 DEF vars, Alone, CreateOK
  <2>2. CASE CreateWallet(p)
    BY <2>2, <1>2 DEF CreateWallet, Start, Inv, TypeOK
  <2>3. CASE ~CreateWallet(p) /\ ~UNCHANGED vars
    <3>1. \/ WriteCreate(p) \/ FindWallet(p) \/ CheckOthers(p) \/ WriteUpdate(p)
          \/ WriteDelete(p) \/ ClearDefaults(p) \/ SetDefault(p) \/ Abandon(p)
      BY <2>3 DEF Next
    <3>2. job[p].op # "create" \/ ~CheckOthers(p)
      BY DEF CheckOthers, Inv, JobOK
    <3>3. FALSE
      BY <3>1, <3>2 DEF WriteCreate, FindWallet, CheckOthers, WriteUpdate, WriteDelete,
         ClearDefaults, SetDefault, Abandon, Start, Write, Reject, Release, Inv, TypeOK
    <3>4. QED
      BY <3>3
  <2>4. QED
    BY <2>1, <2>2, <2>3
<1>5. QED
  BY <1>1, <1>3, <1>4 DEF Alone

\* Where requests do not overlap, whoever has a wallet has an ETH wallet: the checks
\* of WalletService are complete, and what breaks the rule is that they are not atomic.
THEOREM OneRequestKeepsEth ==
  ASSUME \A p, q \in Requests : p = q
  PROVE  Spec => []EthWalletRequired
<1>1. Init => Alone
  BY DEF Init, Alone, EthWalletRequired, CreateOK, Owned
<1>2. Inv /\ Alone /\ [Next]_vars => Alone'
  BY AloneStep
<1>3. Alone => EthWalletRequired
  BY DEF Alone
<1>4. QED
  BY <1>1, <1>2, <1>3, SpecInv, PTL DEF Spec
=============================================================================
