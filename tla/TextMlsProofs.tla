---------------------------- MODULE TextMlsProofs ----------------------------
(***************************************************************************)
(* The safety of module TextMls for any devices, failures, crashes and     *)
(* kicks, when every operation runs under the per-channel mutex.           *)
(*                                                                         *)
(* MergedIsAccepted: the invariant says where the group of a device stands *)
(* in the server's log while an operation runs: a commit to be posted      *)
(* extends the state it was built on, and a commit to be merged was        *)
(* accepted right after it.                                                *)
(*                                                                         *)
(* SendIsCurrent and HalfJoinIsNoticed: a second invariant on top of it    *)
(* says what the epoch mlsStore records, the group in the WASM store and   *)
(* the phase of the operation say of each other.                           *)
(*                                                                         *)
(* The mutex itself, module ChannelMutex, is proved at the end.            *)
(***************************************************************************)
EXTENDS TextMls, ChannelMutex, TLAPS

Bases == Devices \cup {None}
Commit == [kind : {"join", "remove"}, of : Devices, by : Clients, base : Bases]
Pending == [kind : {"join", "remove"}, of : Devices, by : Clients, base : Bases, epoch : Nat]
MlsState == [status : {"none", "joining", "joined", "evicted"}, base : Bases, epoch : Nat, pend : Bases]
GroupInfo == [base : Bases, epoch : Nat]
Message == [by : Clients, base : Bases, epoch : Nat, head : Nat]
Phases == {"end", "look", "use", "check", "process", "fetch", "replay", "record", "recordNext",
           "create", "join", "build", "post", "merge", "put"}
Operation == [do : {"idle", "send", "recv", "commit", "remove", "catchup"}, at : Phases, back : {"end", "use", "check"},
              retry : BOOLEAN, arg : Nat \cup Bases \cup GroupInfo, todo : Seq(Nat \cup Pending), head : Nat]

Typed ==
  /\ established \in SUBSET Devices
  /\ log \in Seq(Commit)
  /\ info \in GroupInfo \cup {None}
  /\ msg \in Message \cup {None}
  /\ stored \in [Clients -> Nat \cup {None}]
  /\ mls \in [Clients -> MlsState]
  /\ op \in [Clients -> [Workers -> Operation]]

\* The first e commits of the log are commits of group b.
Chain(b, e) == e <= Len(log) /\ \A i \in 1..e : log[i].base = b

Queue(c) == op[c]["queue"]

\* What an operation relies on, by its phase.
AtProcess(c) == Queue(c).at = "process" => Queue(c).arg \in 1..Len(log)
AtReplay(c) ==
  Queue(c).at \in {"replay", "recordNext"} =>
    /\ Queue(c).todo \in Seq(Nat)
    /\ \A j \in 1..Len(Queue(c).todo) : Queue(c).todo[j] \in 1..Len(log)
AtPost(c) ==
  Queue(c).at = "post" =>
    /\ Queue(c).todo # <<>>
    /\ Head(Queue(c).todo) \in Pending
    /\ Head(Queue(c).todo).base = mls[c].base
    /\ Head(Queue(c).todo).epoch = mls[c].epoch + 1
    /\ mls[c].status # "none"
AtMerge(c) == Queue(c).at = "merge" => Chain(mls[c].base, mls[c].epoch + 1)
AtPut(c) == Queue(c).at = "put" => mls[c].status # "none"

OnChain(c) == mls[c].status # "none" => Chain(mls[c].base, mls[c].epoch)
ClientInv(c) ==
  /\ op[c]["export"] = Idle
  /\ OnChain(c)
  /\ AtProcess(c) /\ AtReplay(c) /\ AtPost(c) /\ AtMerge(c) /\ AtPut(c)

IInv ==
  /\ Typed
  /\ info # None => Chain(info.base, info.epoch)
  /\ \A c \in Clients : ClientInv(c)

-----------------------------------------------------------------------------
\* The log only grows.
LogGrows == log' = log \/ \E r \in Commit : log' = Append(log, r)

\* A prefix of the log stays a prefix.
LEMMA ChainStable ==
  ASSUME log \in Seq(Commit), LogGrows, NEW b, NEW e \in Nat, Chain(b, e)
  PROVE  Chain(b, e)'
<1>1. CASE log' = log
  BY <1>1 DEF Chain
<1>2. CASE \E r \in Commit : log' = Append(log, r)
  <2>1. PICK r \in Commit : log' = Append(log, r)
    BY <1>2
  <2>2. Len(log') = Len(log) + 1 /\ \A i \in 1..Len(log) : log'[i] = log[i]
    BY <2>1
  <2>3. e <= Len(log) /\ Len(log) \in Nat
    BY DEF Chain
  <2>4. \A i \in 1..e : log'[i].base = b
    BY <2>2, <2>3 DEF Chain
  <2> QED
    BY <2>2, <2>3, <2>4 DEF Chain
<1> QED
  BY <1>1, <1>2 DEF LogGrows

\* A device that takes no part in a step keeps its invariant.
LEMMA Bystander ==
  ASSUME IInv, LogGrows, NEW d \in Clients, mls'[d] = mls[d], op'[d] = op[d]
  PROVE  ClientInv(d)'
<1>1. /\ log \in Seq(Commit) /\ mls[d] \in MlsState /\ op[d]["queue"] \in Operation
      /\ ClientInv(d)
  BY DEF IInv, Typed, Workers
<1>2. mls[d].epoch \in Nat /\ mls[d].epoch + 1 \in Nat
  BY <1>1 DEF MlsState
<1>3. Len(log) \in Nat /\ Len(log') \in Nat /\ Len(log) <= Len(log')
  <2>1. CASE log' = log
    BY <1>1, <2>1
  <2>2. CASE \E r \in Commit : log' = Append(log, r)
    BY <1>1, <2>2
  <2> QED
    BY <2>1, <2>2 DEF LogGrows
<1>4. OnChain(d)'
  BY <1>1, <1>2, ChainStable DEF ClientInv, OnChain
<1>5. AtMerge(d)'
  BY <1>1, <1>2, ChainStable DEF ClientInv, AtMerge, Queue
<1>6. AtProcess(d)' /\ AtReplay(d)'
  BY <1>1, <1>3 DEF ClientInv, AtProcess, AtReplay, Queue
<1>7. AtPost(d)' /\ AtPut(d)' /\ (op[d]["export"] = Idle)'
  BY <1>1 DEF ClientInv, AtPost, AtPut, Queue
<1> QED
  BY <1>4, <1>5, <1>6, <1>7 DEF ClientInv

\* So a step of client c need only be looked at for c and the server.
LEMMA OneClient ==
  ASSUME IInv, LogGrows, NEW c \in Clients, Typed', ClientInv(c)',
         (info # None => Chain(info.base, info.epoch))',
         \A d \in Clients \ {c} : mls'[d] = mls[d] /\ op'[d] = op[d]
  PROVE  IInv'
<1>1. \A d \in Clients \ {c} : ClientInv(d)'
  BY Bystander
<1> QED
  BY <1>1 DEF IInv

\* The GroupInfo is one of the chain as long as it is left alone.
LEMMA InfoStable ==
  ASSUME IInv, LogGrows, info' = info
  PROVE  (info # None => Chain(info.base, info.epoch))'
<1>1. CASE info = None
  BY <1>1
<1>2. CASE info # None
  <2>1. info.epoch \in Nat /\ Chain(info.base, info.epoch) /\ log \in Seq(Commit)
    BY <1>2 DEF IInv, Typed, GroupInfo
  <2> QED
    BY <2>1, ChainStable
<1> QED
  BY <1>1, <1>2

-----------------------------------------------------------------------------
(* The operation of the "queue" worker.                                     *)

\* Phases that rely on nothing.
Calm == Phases \ {"process", "replay", "recordNext", "post", "merge", "put"}

LEMMA IdleOperation == Idle \in Operation /\ Idle.at \in Calm /\ Idle.do = "idle"
<1>1. None \in Bases /\ <<>> \in Seq(Nat \cup Pending)
  BY DEF Bases
<1> QED
  BY <1>1 DEF Idle, Operation, Calm, Phases

\* Subroutines return to, and exceptions end in, a phase that relies on nothing.
LEMMA Operations ==
  ASSUME NEW o \in Operation
  PROVE  /\ Idle \in Operation /\ Idle.at \in Calm
         /\ Returned(o) \in Operation /\ Returned(o).at \in Calm
         /\ Threw(o) \in Operation /\ Threw(o).at \in Calm
         /\ \A p \in Phases : Goto(o, p) \in Operation /\ Goto(o, p).at = p
                              /\ Goto(o, p).todo = o.todo
         /\ [o EXCEPT !.todo = <<>>] \in Operation /\ [o EXCEPT !.todo = <<>>].at = o.at
<1>1. Idle \in Operation /\ Idle.at \in Calm
  BY IdleOperation
<1>2. \A p \in Phases : Goto(o, p) \in Operation /\ Goto(o, p).at = p /\ Goto(o, p).todo = o.todo
  BY DEF Goto, Operation
<1>3. Returned(o) \in Operation /\ Returned(o).at \in Calm
  <2>1. o.back \in {"end", "use", "check"}
    BY DEF Operation
  <2>2. {"end", "use", "check"} \subseteq Phases /\ {"end", "use", "check"} \subseteq Calm
    BY DEF Phases, Calm
  <2>3. Returned(o) = Idle \/ Returned(o) = Goto(o, o.back)
    BY DEF Returned
  <2> QED
    BY <1>1, <1>2, <2>1, <2>2, <2>3
<1>4. Threw(o) \in Operation /\ Threw(o).at \in Calm
  <2>1. "fetch" \in Phases /\ "fetch" \in Calm
    BY DEF Phases, Calm
  <2>2. CASE o.do \in {"recv", "commit"} /\ ~o.retry
    <3> DEFINE b == IF o.do = "recv" THEN "check" ELSE "end"
               t == [o EXCEPT !.at = "fetch", !.back = b, !.retry = TRUE]
    <3>1. b \in {"end", "use", "check"} /\ TRUE \in BOOLEAN
      OBVIOUS
    <3>2. Threw(o) = t
      BY <2>2 DEF Threw
    <3> HIDE DEF b
    <3>3. t \in Operation /\ t.at = "fetch"
      BY <2>1, <3>1 DEF Operation
    <3> QED
      BY <2>1, <3>2, <3>3
  <2>3. CASE ~(o.do \in {"recv", "commit"} /\ ~o.retry)
    BY <1>1, <2>3 DEF Threw
  <2> QED
    BY <2>2, <2>3
<1>5. [o EXCEPT !.todo = <<>>] \in Operation /\ [o EXCEPT !.todo = <<>>].at = o.at
  <2>1. <<>> \in Seq(Nat \cup Pending)
    OBVIOUS
  <2> QED
    BY <2>1 DEF Operation
<1> QED
  BY <1>1, <1>2, <1>3, <1>4, <1>5

LEMMA Beginnings ==
  ASSUME NEW do \in {"send", "recv", "commit", "remove", "catchup"}, NEW at \in Phases,
         NEW back \in {"end", "use", "check"}, NEW arg \in Nat \cup Bases \cup GroupInfo,
         log \in Seq(Commit)
  PROVE  Begin(do, at, back, arg) \in Operation /\ Begin(do, at, back, arg).at = at
         /\ Begin(do, at, back, arg).arg = arg
<1>1. Idle \in Operation
  BY IdleOperation
<1>2. Len(log) \in Nat /\ do \in {"idle", "send", "recv", "commit", "remove", "catchup"}
  OBVIOUS
<1> QED
  BY <1>1, <1>2 DEF Begin, Operation

\* The types at client c, and where the operation stands.
LEMMA Here ==
  ASSUME IInv, NEW c \in Clients
  PROVE  /\ op[c]["queue"] \in Operation /\ op[c]["export"] = Idle
         /\ mls[c] \in MlsState /\ stored[c] \in Nat \cup {None}
         /\ log \in Seq(Commit) /\ Len(log) \in Nat
         /\ \A w \in Workers, p \in Phases : At(c, w, p) => w = "queue" /\ Queue(c).at = p
<1>1. /\ op[c]["queue"] \in Operation /\ op[c]["export"] = Idle
      /\ mls[c] \in MlsState /\ stored[c] \in Nat \cup {None}
      /\ log \in Seq(Commit) /\ Len(log) \in Nat
  BY DEF IInv, Typed, Workers, ClientInv
<1> QED
  BY <1>1, IdleOperation DEF Workers, At, Queue

LEMMA QueueOnly ==
  ASSUME IInv, NEW c \in Clients, NEW o \in Operation, Becomes(c, "queue", o)
  PROVE  /\ op' \in [Clients -> [Workers -> Operation]]
         /\ op'[c]["queue"] = o /\ op'[c]["export"] = Idle
         /\ \A d \in Clients \ {c} : op'[d] = op[d]
BY DEF IInv, Typed, Workers, ClientInv, Becomes

\* A step that changes the operation of c and no group: the new phase may
\* only rely on the log.
LEMMA OpStep ==
  ASSUME IInv, NEW c \in Clients, NEW o \in Operation, Becomes(c, "queue", o),
         UNCHANGED <<server, mls>>,
         stored' \in [Clients -> Nat \cup {None}], msg' \in Message \cup {None},
         o.at \notin {"post", "merge", "put"},
         o.at = "process" => o.arg \in 1..Len(log),
         o.at \in {"replay", "recordNext"} =>
           o.todo \in Seq(Nat) /\ \A j \in 1..Len(o.todo) : o.todo[j] \in 1..Len(log)
  PROVE  IInv'
<1>1. LogGrows
  BY DEF server, LogGrows
<1>2. Typed'
  BY QueueOnly DEF IInv, Typed, server
<1>3. (info # None => Chain(info.base, info.epoch))'
  BY DEF IInv, server, Chain
<1>4. OnChain(c)'
  BY DEF IInv, ClientInv, OnChain, Chain, server
<1>5. ClientInv(c)'
  BY <1>4, QueueOnly DEF server, ClientInv, AtProcess, AtReplay, AtPost, AtMerge, AtPut, Queue
<1> QED
  BY <1>1, <1>2, <1>3, <1>5, QueueOnly, OneClient

\* A step that changes the group of c as well.
LEMMA GroupStep ==
  ASSUME IInv, NEW c \in Clients, NEW o \in Operation, Becomes(c, "queue", o),
         UNCHANGED <<server, stored, msg>>, NEW g \in MlsState, mls' = [mls EXCEPT ![c] = g],
         g.status # "none" => Chain(g.base, g.epoch),
         o.at \notin {"process", "merge"},
         o.at \in {"replay", "recordNext"} =>
           o.todo \in Seq(Nat) /\ \A j \in 1..Len(o.todo) : o.todo[j] \in 1..Len(log),
         o.at = "post" =>
           /\ o.todo # <<>> /\ Head(o.todo) \in Pending
           /\ Head(o.todo).base = g.base /\ Head(o.todo).epoch = g.epoch + 1,
         o.at \in {"post", "put"} => g.status # "none"
  PROVE  IInv'
<1>1. LogGrows
  BY DEF server, LogGrows
<1>0. mls \in [Clients -> MlsState]
  BY DEF IInv, Typed
<1>2. mls'[c] = g /\ mls' \in [Clients -> MlsState] /\ \A d \in Clients \ {c} : mls'[d] = mls[d]
  BY <1>0
<1>3. Typed'
  BY <1>2, QueueOnly DEF IInv, Typed, server
<1>4. (info # None => Chain(info.base, info.epoch))'
  BY DEF IInv, server, Chain
<1>5. OnChain(c)'
  BY <1>2 DEF OnChain, Chain, server
<1>6. AtProcess(c)' /\ AtReplay(c)' /\ AtPost(c)' /\ AtMerge(c)' /\ AtPut(c)'
  BY <1>2, QueueOnly DEF server, AtProcess, AtReplay, AtPost, AtMerge, AtPut, Queue
<1>7. ClientInv(c)'
  BY <1>5, <1>6, QueueOnly DEF ClientInv
<1> QED
  BY <1>1, <1>2, <1>3, <1>4, <1>7, QueueOnly, OneClient

-----------------------------------------------------------------------------
(* The actions, one lemma for each kind.                                    *)

\* An operation begins.
LEMMA Callers ==
  ASSUME IInv, Exporters = {}, NEW c \in Clients,
         \/ EncryptForChannel(c)
         \/ \E i \in 1..Len(log) : OnCommit(c, i)
         \/ \E d \in Leavers : OnAddRequest(c, d)
         \/ \E w \in Workers : Decrypt(c, w)
  PROVE  IInv'
<1>1. log \in Seq(Commit) /\ stored \in [Clients -> Nat \cup {None}] /\ msg \in Message \cup {None}
  BY DEF IInv, Typed
<1>2. ASSUME NEW do \in {"send", "recv", "commit", "remove", "catchup"}, NEW at \in {"look", "use", "fetch", "build"},
             NEW back \in {"end", "use"}, NEW arg \in Nat \cup Bases \cup GroupInfo,
             Start(c, "queue", Begin(do, at, back, arg))
      PROVE  IInv'
  <2>1. at \in Phases /\ back \in {"end", "use", "check"}
    BY DEF Phases
  <2>2. Begin(do, at, back, arg) \in Operation /\ Begin(do, at, back, arg).at = at
    BY <1>1, <2>1, Beginnings
  <2> QED
    BY <1>1, <1>2, <2>2, OpStep DEF Start, device
<1>3. None \in Bases
  BY DEF Bases
<1>4. CASE EncryptForChannel(c)
  <2>1. CASE stored[c] = None
    BY <1>2, <1>3, <1>4, <2>1 DEF EncryptForChannel, EncryptStart
  <2>2. CASE stored[c] # None
    BY <1>2, <1>3, <1>4, <2>2 DEF EncryptForChannel, EncryptStart
  <2> QED
    BY <2>1, <2>2
<1>5. ASSUME NEW i \in 1..Len(log), OnCommit(c, i)
      PROVE  IInv'
  <2>1. Begin("commit", "process", "end", i) \in Operation
        /\ Begin("commit", "process", "end", i).at = "process"
        /\ Begin("commit", "process", "end", i).arg = i
    BY <1>1, Beginnings DEF Phases
  <2> QED
    BY <1>1, <1>5, <2>1, OpStep DEF OnCommit, Start, device
<1>6. ASSUME NEW d \in Leavers, OnAddRequest(c, d)
      PROVE  IInv'
  <2>1. d \in Bases
    BY ConstantsOK DEF Bases, Devices
  <2>2. PICK legacy \in Legacy : Start(c, "queue", IF legacy THEN Begin("catchup", "fetch", "end", None)
                                                   ELSE Begin("remove", "build", "end", d))
    BY <1>6 DEF OnAddRequest
  <2>3. CASE legacy
    BY <1>2, <1>3, <2>2, <2>3
  <2>4. CASE ~legacy
    BY <1>2, <2>1, <2>2, <2>4
  <2> QED
    BY <2>3, <2>4
<1>7. ASSUME NEW w \in Workers, Decrypt(c, w)
      PROVE  IInv'
  <2>1. w = "queue" /\ msg \in Message
    BY <1>1, <1>7 DEF Decrypt, Workers
  <2> DEFINE arg == [base |-> msg.base, epoch |-> msg.epoch]
  <2>2. arg \in GroupInfo
    BY <2>1 DEF Message, GroupInfo
  <2>3. Start(c, "queue", Begin("recv", IF stored[c] = None THEN "look" ELSE "use", "use", arg))
    BY <1>7, <2>1 DEF Decrypt, DecryptStart
  <2> HIDE DEF arg
  <2>4. CASE stored[c] = None
    BY <1>2, <2>2, <2>3, <2>4
  <2>5. CASE stored[c] # None
    BY <1>2, <2>2, <2>3, <2>5
  <2> QED
    BY <2>4, <2>5
<1> QED
  BY <1>4, <1>5, <1>6, <1>7

\* Steps that change the operation and no group.
LEMMA OpSteps ==
  ASSUME IInv, NEW c \in Clients, NEW w \in Workers,
         \/ Fetch(c, w) \/ Record(c, w) \/ Look(c, w)
         \/ Encrypt(c, w) \/ DecryptMessage(c, w) \/ Check(c, w)
  PROVE  IInv'
<1> DEFINE o == Queue(c)
<1>1. /\ w = "queue" /\ o \in Operation /\ o = op[c]["queue"]
      /\ log \in Seq(Commit) /\ Len(log) \in Nat
      /\ stored[c] \in Nat \cup {None} /\ mls[c] \in MlsState
      /\ stored \in [Clients -> Nat \cup {None}] /\ msg \in Message \cup {None}
      /\ ClientInv(c)
  <2>1. \A p \in Phases : At(c, w, p) => w = "queue"
    BY Here
  <2>2. {"fetch", "record", "recordNext", "look", "use", "check"} \subseteq Phases
    BY DEF Phases
  <2>3. w = "queue"
    BY <2>1, <2>2 DEF Fetch, Record, Look, Encrypt, DecryptMessage, Check
  <2> QED
    BY <2>3, Here DEF Queue, IInv, Typed
<1>2. ASSUME NEW n \in Operation, Becomes(c, "queue", n), n.at \in Calm, UNCHANGED <<server, mls>>,
             stored' \in [Clients -> Nat \cup {None}], msg' \in Message \cup {None}
      PROVE  IInv'
  <2>1. n.at \notin {"process", "replay", "recordNext", "post", "merge", "put"}
    BY <1>2 DEF Calm
  <2> QED
    BY <1>2, <2>1, OpStep
<1>3. ASSUME Breaks(c, w), UNCHANGED <<server, mls, stored, msg>>
      PROVE  IInv'
  <2>1. Becomes(c, "queue", Threw(o)) /\ Threw(o) \in Operation /\ Threw(o).at \in Calm
    BY <1>1, <1>3, Operations DEF Breaks
  <2> QED
    BY <1>1, <1>2, <1>3, <2>1
<1>4. CASE Fetch(c, w)
  <2> DEFINE n == Since(c)
             last == IF n + Limit < Len(log) THEN n + Limit ELSE Len(log)
             size == IF last > n THEN last - n ELSE 0
             todo == [i \in 1..size |-> n + i]
             next == [o EXCEPT !.at = "replay", !.todo = todo]
  <2>0. Becomes(c, w, next) \/ Breaks(c, w)
    BY <1>1, <1>4 DEF Fetch
  <2>1. n \in Nat /\ Limit \in Nat
    BY <1>1, ConstantsOK DEF Since
  <2>2. last \in Nat /\ last <= Len(log)
    BY <1>1, <2>1
  <2>3. size \in Nat /\ \A i \in 1..size : n + i \in 1..Len(log)
    BY <1>1, <2>1, <2>2
  <2>4. /\ todo \in Seq(Nat) /\ todo \in Seq(Nat \cup Pending)
        /\ \A j \in 1..Len(todo) : todo[j] \in 1..Len(log)
    <3> HIDE DEF n, size
    <3> QED
      BY <2>1, <2>3
  <2>5. CASE Becomes(c, w, next)
    <3>1. "replay" \in Phases
      BY DEF Phases
    <3> HIDE DEF todo
    <3>2. next \in Operation /\ next.at = "replay" /\ next.todo = todo
      BY <1>1, <2>4, <3>1 DEF Operation
    <3> QED
      BY <1>1, <1>4, <2>4, <2>5, <3>2, OpStep DEF Fetch, device
  <2>6. CASE Breaks(c, w)
    BY <1>3, <1>4, <2>6 DEF Fetch, device
  <2> QED
    BY <2>0, <2>5, <2>6
<1>5. CASE Record(c, w)
  <2>1. stored' \in [Clients -> Nat \cup {None}]
    BY <1>1, <1>5 DEF Record, MlsState
  <2>2. CASE o.at = "record"
    <3>1. Returned(o) \in Operation /\ Returned(o).at \in Calm /\ Becomes(c, "queue", Returned(o))
      BY <1>1, <1>5, <2>2, Operations DEF Record
    <3> QED
      BY <1>1, <1>2, <1>5, <2>1, <3>1 DEF Record
  <2>3. CASE o.at # "record"
    <3>1. o.at = "recordNext" /\ Becomes(c, "queue", Goto(o, "replay"))
      BY <1>1, <1>5, <2>3 DEF Record, At
    <3>2. Goto(o, "replay") \in Operation /\ Goto(o, "replay").at = "replay" /\ Goto(o, "replay").todo = o.todo
      BY <1>1, Operations DEF Phases
    <3>3. o.todo \in Seq(Nat) /\ \A j \in 1..Len(o.todo) : o.todo[j] \in 1..Len(log)
      BY <1>1, <3>1 DEF ClientInv, AtReplay
    <3> QED
      BY <1>1, <1>5, <2>1, <3>1, <3>2, <3>3, OpStep DEF Record
  <2> QED
    BY <2>2, <2>3
<1>6. CASE Look(c, w)
  <2>1. CASE Breaks(c, w)
    BY <1>3, <1>6, <2>1 DEF Look, device
  <2>2. CASE ~Breaks(c, w)
    <3>1. PICK p \in {"create", "join"} : Becomes(c, "queue", Goto(o, p))
      <4>1. Becomes(c, "queue", Goto(o, IF info = None THEN "create" ELSE "join"))
        BY <1>1, <1>6, <2>2 DEF Look
      <4> QED
        BY <4>1
    <3>2. p \in Phases /\ p \in Calm
      BY DEF Phases, Calm
    <3>3. Goto(o, p) \in Operation /\ Goto(o, p).at \in Calm
      BY <1>1, <3>2, Operations
    <3> QED
      BY <1>1, <1>2, <1>6, <3>1, <3>3 DEF Look, device
  <2> QED
    BY <2>1, <2>2
<1>7. CASE Encrypt(c, w)
  <2>1. Idle \in Operation /\ Idle.at \in Calm
    BY IdleOperation
  <2>2. CASE mls[c].status = "joined"
    <3> DEFINE new == [by |-> c, base |-> mls[c].base, epoch |-> mls[c].epoch, head |-> o.head]
    <3>1. new \in Message
      BY <1>1 DEF Message, MlsState, Operation
    <3>2. Becomes(c, "queue", Idle) /\ msg' = new /\ UNCHANGED <<server, mls, stored>>
      BY <1>1, <1>7, <2>2 DEF Encrypt
    <3> QED
      BY <1>1, <1>2, <2>1, <3>1, <3>2
  <2>3. CASE mls[c].status # "joined" /\ mls[c].status = "none" /\ ~o.retry
    <3> DEFINE next == [o EXCEPT !.at = "look", !.retry = TRUE]
    <3>1. "look" \in Phases /\ "look" \in Calm /\ TRUE \in BOOLEAN
      BY DEF Phases, Calm
    <3>2. next \in Operation /\ next.at \in Calm
      BY <1>1, <3>1 DEF Operation
    <3>3. Becomes(c, "queue", next) /\ stored' = [stored EXCEPT ![c] = None] /\ UNCHANGED <<server, mls, msg>>
      BY <1>1, <1>7, <2>3 DEF Encrypt
    <3> QED
      BY <1>1, <1>2, <3>2, <3>3
  <2>4. CASE mls[c].status # "joined" /\ ~(mls[c].status = "none" /\ ~o.retry)
    <3>1. Becomes(c, "queue", Idle) /\ UNCHANGED <<server, mls, stored, msg>>
      BY <1>1, <1>7, <2>4 DEF Encrypt
    <3> QED
      BY <1>1, <1>2, <2>1, <3>1
  <2> QED
    BY <2>2, <2>3, <2>4
<1>8. CASE DecryptMessage(c, w)
  <2>1. PICK n \in {Idle, Threw(o)} : Becomes(c, "queue", n)
    BY <1>1, <1>8 DEF DecryptMessage
  <2>2. n \in Operation /\ n.at \in Calm
    BY <1>1, <2>1, IdleOperation, Operations
  <2> QED
    BY <1>1, <1>2, <1>8, <2>1, <2>2 DEF DecryptMessage, device
<1>9. CASE Check(c, w)
  <2>1. PICK p \in {"look", "use"} : Becomes(c, "queue", [o EXCEPT !.at = p, !.back = "use"])
    BY <1>1, <1>9 DEF Check
  <2>2. p \in Phases /\ p \in Calm /\ "use" \in {"end", "use", "check"}
    BY DEF Phases, Calm
  <2>3. [o EXCEPT !.at = p, !.back = "use"] \in Operation /\ [o EXCEPT !.at = p, !.back = "use"].at \in Calm
    BY <1>1, <2>2 DEF Operation
  <2> QED
    BY <1>1, <1>2, <1>9, <2>1, <2>3 DEF Check, device
<1> QED
  BY <1>4, <1>5, <1>6, <1>7, <1>8, <1>9

\* A group that processes a commit of the log stays on the log.
LEMMA CommitKeepsChain ==
  ASSUME IInv, NEW c \in Clients, NEW i \in 1..Len(log), Fits(c, i)
  PROVE  /\ AfterCommit(c, i) \in MlsState
         /\ Chain(AfterCommit(c, i).base, AfterCommit(c, i).epoch)
<1>1. mls[c] \in MlsState /\ log \in Seq(Commit) /\ Len(log) \in Nat
  BY Here
<1>2. Chain(mls[c].base, mls[c].epoch)
  BY DEF IInv, ClientInv, OnChain, Fits
<1>3. i \in Nat /\ i = mls[c].epoch + 1 /\ log[i].base = mls[c].base /\ i <= Len(log)
  BY <1>1 DEF Fits
<1>4. Chain(mls[c].base, i)
  BY <1>1, <1>2, <1>3 DEF Chain, MlsState
<1>5. None \in Bases
  BY DEF Bases
<1>6. /\ AfterCommit(c, i) \in MlsState
      /\ AfterCommit(c, i).base = mls[c].base /\ AfterCommit(c, i).epoch = i
  BY <1>1, <1>3, <1>5 DEF AfterCommit, Group, MlsState
<1> QED
  BY <1>4, <1>6

\* Steps that may change the group of c and leave the server alone.
LEMMA GroupSteps ==
  ASSUME IInv, NEW c \in Clients, NEW w \in Workers,
         \/ ProcessFrame(c, w) \/ Replay(c, w) \/ Create(c, w)
         \/ Join(c, w) \/ BuildRemoval(c, w) \/ Merge(c, w)
  PROVE  IInv'
<1> DEFINE o == Queue(c)
<1>1. /\ w = "queue" /\ o \in Operation /\ o = op[c]["queue"]
      /\ log \in Seq(Commit) /\ Len(log) \in Nat
      /\ stored[c] \in Nat \cup {None} /\ mls[c] \in MlsState
      /\ stored \in [Clients -> Nat \cup {None}] /\ msg \in Message \cup {None}
      /\ ClientInv(c) /\ None \in Bases /\ c \in Bases /\ c \in Devices
      /\ info \in GroupInfo \cup {None} /\ (info # None => Chain(info.base, info.epoch))
  <2>1. \A p \in Phases : At(c, w, p) => w = "queue"
    BY Here
  <2>2. {"process", "replay", "create", "join", "build", "merge"} \subseteq Phases
    BY DEF Phases
  <2>3. w = "queue"
    BY <2>1, <2>2 DEF ProcessFrame, Replay, Create, Join, BuildRemoval, Merge
  <2> QED
    BY <2>3, Here DEF Queue, IInv, Typed, Bases, Devices
<1>2. ASSUME NEW n \in Operation, Becomes(c, "queue", n), n.at \in Calm, UNCHANGED <<server, mls, stored, msg>>
      PROVE  IInv'
  <2>1. n.at \notin {"process", "replay", "recordNext", "post", "merge", "put"}
    BY <1>2 DEF Calm
  <2> QED
    BY <1>1, <1>2, <2>1, OpStep
<1>3. ASSUME NEW n \in Operation, Becomes(c, "queue", n), n.at \in {"record", "put"}, UNCHANGED <<server, stored, msg>>,
             NEW g \in MlsState, mls' = [mls EXCEPT ![c] = g], Chain(g.base, g.epoch), g.status # "none"
      PROVE  IInv'
  BY <1>3, GroupStep
<1>4. ASSUME NEW r \in Pending, Becomes(c, "queue", [o EXCEPT !.at = "post", !.todo = <<r>>]),
             UNCHANGED <<server, stored, msg>>,
             NEW g \in MlsState, mls' = [mls EXCEPT ![c] = g], Chain(g.base, g.epoch), g.status # "none",
             r.base = g.base, r.epoch = g.epoch + 1
      PROVE  IInv'
  <2> DEFINE next == [o EXCEPT !.at = "post", !.todo = <<r>>]
  <2>1. "post" \in Phases /\ <<r>> \in Seq(Nat \cup Pending) /\ <<r>> # <<>> /\ Head(<<r>>) = r
    BY DEF Phases
  <2>2. next \in Operation /\ next.at = "post" /\ next.todo = <<r>>
    BY <1>1, <2>1 DEF Operation
  <2> HIDE DEF next
  <2> QED
    BY <1>4, <2>1, <2>2, GroupStep DEF next
<1>5. CASE ProcessFrame(c, w)
  <2> DEFINE i == o.arg
  <2>1. i \in 1..Len(log)
    BY <1>1, <1>5 DEF ProcessFrame, At, ClientInv, AtProcess
  <2>2. CASE Fits(c, i)
    <3>1. AfterCommit(c, i) \in MlsState /\ Chain(AfterCommit(c, i).base, AfterCommit(c, i).epoch)
      BY <2>1, <2>2, CommitKeepsChain
    <3>2. AfterCommit(c, i).status # "none"
      BY DEF AfterCommit, Group
    <3>3. Goto(o, "record") \in Operation /\ Goto(o, "record").at = "record"
      BY <1>1, Operations DEF Phases
    <3> QED
      BY <1>1, <1>3, <1>5, <2>2, <3>1, <3>2, <3>3 DEF ProcessFrame
  <2>3. CASE ~Fits(c, i)
    <3>1. Threw(o) \in Operation /\ Threw(o).at \in Calm
      BY <1>1, Operations
    <3> QED
      BY <1>1, <1>2, <1>5, <2>3, <3>1 DEF ProcessFrame
  <2> QED
    BY <2>2, <2>3
<1>6. CASE Replay(c, w)
  <2>1. o.todo \in Seq(Nat) /\ \A j \in 1..Len(o.todo) : o.todo[j] \in 1..Len(log)
    BY <1>1, <1>6 DEF Replay, At, ClientInv, AtReplay
  <2>2. CASE o.todo = <<>>
    <3>1. Returned(o) \in Operation /\ Returned(o).at \in Calm
      BY <1>1, Operations
    <3> QED
      BY <1>1, <1>2, <1>6, <2>2, <3>1 DEF Replay
  <2>3. CASE o.todo # <<>> /\ Fits(c, Head(o.todo))
    <3> DEFINE i == Head(o.todo)
               g == AfterCommit(c, i)
               next == [o EXCEPT !.at = "recordNext", !.todo = Tail(o.todo)]
    <3>1. i \in 1..Len(log)
      BY <2>1, <2>3
    <3>2. g \in MlsState /\ Chain(g.base, g.epoch)
      BY <2>3, <3>1, CommitKeepsChain
    <3>3. /\ Tail(o.todo) \in Seq(Nat) /\ Tail(o.todo) \in Seq(Nat \cup Pending)
          /\ \A j \in 1..Len(Tail(o.todo)) : Tail(o.todo)[j] \in 1..Len(log)
      BY <2>1, <2>3
    <3>4. "recordNext" \in Phases
      BY DEF Phases
    <3>5. next \in Operation /\ next.at = "recordNext" /\ next.todo = Tail(o.todo)
      BY <1>1, <3>3, <3>4 DEF Operation
    <3>6. Becomes(c, "queue", next) /\ mls' = [mls EXCEPT ![c] = g] /\ UNCHANGED <<server, stored, msg>>
      BY <1>1, <1>6, <2>3 DEF Replay
    <3> HIDE DEF next, g
    <3> QED
      BY <3>2, <3>3, <3>5, <3>6, GroupStep
  <2>4. CASE o.todo # <<>> /\ ~Fits(c, Head(o.todo))
    <3> DEFINE next == [o EXCEPT !.at = "join", !.todo = <<>>]
    <3>1. "join" \in Phases /\ "join" \in Calm /\ <<>> \in Seq(Nat \cup Pending)
      BY DEF Phases, Calm
    <3>2. next \in Operation /\ next.at \in Calm
      BY <1>1, <3>1 DEF Operation
    <3>3. Becomes(c, "queue", next) /\ UNCHANGED <<server, mls, stored, msg>>
      BY <1>1, <1>6, <2>4 DEF Replay
    <3> QED
      BY <1>2, <3>2, <3>3
  <2> QED
    BY <2>2, <2>3, <2>4
<1>7. CASE Create(c, w)
  <2>1. CASE mls[c].status = "none"
    <3>1. Goto(o, "put") \in Operation /\ Goto(o, "put").at = "put"
      BY <1>1, Operations DEF Phases
    <3>2. Group(c, 0) \in MlsState /\ Group(c, 0).status # "none" /\ Chain(Group(c, 0).base, Group(c, 0).epoch)
      BY <1>1 DEF Group, MlsState, Chain
    <3> QED
      BY <1>1, <1>3, <1>7, <2>1, <3>1, <3>2 DEF Create
  <2>2. CASE mls[c].status # "none"
    <3>1. Returned(o) \in Operation /\ Returned(o).at \in Calm
      BY <1>1, Operations
    <3> QED
      BY <1>1, <1>2, <1>7, <2>2, <3>1 DEF Create
  <2> QED
    BY <2>1, <2>2
<1>8. CASE Join(c, w)
  <2> DEFINE g == [status |-> "joining", base |-> info.base, epoch |-> info.epoch, pend |-> c]
             r == [kind |-> "join", of |-> c, by |-> c, base |-> info.base, epoch |-> info.epoch + 1]
  <2>1. CASE info # None /\ Becomes(c, w, [o EXCEPT !.at = "post", !.todo = <<r>>]) /\ mls' = [mls EXCEPT ![c] = g]
    <3>1. info.base \in Bases /\ info.epoch \in Nat /\ Chain(info.base, info.epoch)
      BY <1>1, <2>1 DEF GroupInfo
    <3>2. g \in MlsState /\ g.status # "none" /\ g.base = info.base /\ g.epoch = info.epoch
      BY <1>1, <3>1 DEF MlsState
    <3>3. r \in Pending /\ r.base = info.base /\ r.epoch = info.epoch + 1
      BY <1>1, <3>1 DEF Pending
    <3>4. UNCHANGED <<server, stored, msg>>
      BY <1>8 DEF Join
    <3> HIDE DEF g, r
    <3> QED
      BY <1>1, <1>4, <2>1, <3>1, <3>2, <3>3, <3>4
  <2>2. CASE Becomes(c, w, Returned(o)) /\ mls' = mls
    <3>1. Returned(o) \in Operation /\ Returned(o).at \in Calm
      BY <1>1, Operations
    <3> QED
      BY <1>1, <1>2, <1>8, <2>2, <3>1 DEF Join
  <2>3. CASE Breaks(c, w) /\ mls' = mls
    <3>1. Becomes(c, "queue", Threw(o)) /\ Threw(o) \in Operation /\ Threw(o).at \in Calm
      BY <1>1, <2>3, Operations DEF Breaks
    <3> QED
      BY <1>1, <1>2, <1>8, <2>3, <3>1 DEF Join
  <2> QED
    BY <1>1, <1>8, <2>1, <2>2, <2>3 DEF Join
<1>9. CASE BuildRemoval(c, w)
  <2> DEFINE g == [mls[c] EXCEPT !.pend = o.arg]
             r == [kind |-> "remove", of |-> o.arg, by |-> c, base |-> mls[c].base, epoch |-> mls[c].epoch + 1]
  <2>1. CASE mls[c].status = "joined" /\ mls[c].pend = None /\ o.arg \in Roster(mls[c].base, mls[c].epoch)
    <3>1. o.arg \in Devices /\ o.arg \in Bases
      BY <2>1 DEF Roster, Bases
    <3>2. g \in MlsState /\ g.status # "none" /\ g.base = mls[c].base /\ g.epoch = mls[c].epoch
      BY <1>1, <2>1, <3>1 DEF MlsState
    <3>3. r \in Pending /\ r.base = mls[c].base /\ r.epoch = mls[c].epoch + 1
      BY <1>1, <3>1 DEF Pending, MlsState
    <3>4. Chain(mls[c].base, mls[c].epoch)
      BY <1>1, <2>1 DEF ClientInv, OnChain
    <3>5. mls \in [Clients -> MlsState]
      BY DEF IInv, Typed
    <3>6. /\ Becomes(c, "queue", [o EXCEPT !.at = "post", !.todo = <<r>>])
          /\ mls' = [mls EXCEPT ![c] = g] /\ UNCHANGED <<server, stored, msg>>
      BY <1>1, <1>9, <2>1, <3>5 DEF BuildRemoval
    <3> HIDE DEF g, r
    <3> QED
      BY <1>4, <3>2, <3>3, <3>4, <3>6
  <2>2. CASE ~(mls[c].status = "joined" /\ mls[c].pend = None /\ o.arg \in Roster(mls[c].base, mls[c].epoch))
    <3>1. Threw(o) \in Operation /\ Threw(o).at \in Calm
      BY <1>1, Operations
    <3> QED
      BY <1>1, <1>2, <1>9, <2>2, <3>1 DEF BuildRemoval
  <2> QED
    BY <2>1, <2>2
<1>10. CASE Merge(c, w)
  <2>1. CASE mls[c].pend # None
    <3> DEFINE g == Group(mls[c].base, mls[c].epoch + 1)
    <3>1. Chain(mls[c].base, mls[c].epoch + 1)
      BY <1>1, <1>10 DEF Merge, At, ClientInv, AtMerge
    <3>2. g \in MlsState /\ g.status # "none" /\ Chain(g.base, g.epoch)
      BY <1>1, <3>1 DEF Group, MlsState
    <3>3. PICK p \in {"record", "put"} : Becomes(c, "queue", Goto(o, p))
      <4>1. Becomes(c, "queue", Goto(o, IF o.do = "remove" THEN "record" ELSE "put"))
        BY <1>1, <1>10, <2>1 DEF Merge
      <4> QED
        BY <4>1
    <3>4. p \in Phases
      BY DEF Phases
    <3>5. Goto(o, p) \in Operation /\ Goto(o, p).at = p
      BY <1>1, <3>4, Operations
    <3>6. mls' = [mls EXCEPT ![c] = g] /\ UNCHANGED <<server, stored, msg>>
      BY <1>1, <1>10, <2>1 DEF Merge
    <3> HIDE DEF g
    <3> QED
      BY <1>3, <3>2, <3>3, <3>5, <3>6
  <2>2. CASE mls[c].pend = None
    <3>1. Threw(o) \in Operation /\ Threw(o).at \in Calm
      BY <1>1, Operations
    <3> QED
      BY <1>1, <1>2, <1>10, <2>2, <3>1 DEF Merge
  <2> QED
    BY <2>1, <2>2
<1> QED
  BY <1>5, <1>6, <1>7, <1>8, <1>9, <1>10

\* The server accepts a commit, or refuses it, or the request is lost; the
\* GroupInfo of a created or joined group is published.
LEMMA ServerSteps ==
  ASSUME IInv, NEW c \in Clients, NEW w \in Workers, Post(c, w) \/ Put(c, w)
  PROVE  IInv'
<1> DEFINE o == Queue(c)
<1>1. /\ w = "queue" /\ o \in Operation /\ o = op[c]["queue"]
      /\ log \in Seq(Commit) /\ Len(log) \in Nat /\ mls[c] \in MlsState
      /\ ClientInv(c) /\ Typed /\ info \in GroupInfo \cup {None}
  <2>1. \A p \in Phases : At(c, w, p) => w = "queue"
    BY Here
  <2>2. {"post", "put"} \subseteq Phases
    BY DEF Phases
  <2>3. w = "queue"
    BY <2>1, <2>2 DEF Post, Put
  <2> QED
    BY <2>3, Here DEF Queue, IInv, Typed
<1>2. ASSUME NEW n \in Operation, Becomes(c, "queue", n), n.at \in Calm, UNCHANGED <<server, mls, stored, msg>>
      PROVE  IInv'
  <2>1. n.at \notin {"process", "replay", "recordNext", "post", "merge", "put"}
    BY <1>2 DEF Calm
  <2> QED
    BY <1>1, <1>2, <2>1, OpStep DEF Typed
<1>3. Threw(o) \in Operation /\ Threw(o).at \in Calm
  BY <1>1, Operations
<1>4. Breaks(c, w) => Becomes(c, "queue", Threw(o))
  BY <1>1 DEF Breaks
<1>5. CASE Put(c, w)
  <2>1. Chain(mls[c].base, mls[c].epoch) /\ [base |-> mls[c].base, epoch |-> mls[c].epoch] \in GroupInfo
    BY <1>1, <1>5 DEF Put, At, ClientInv, AtPut, OnChain, GroupInfo, MlsState
  <2>2. UNCHANGED <<established, log, mls, stored, msg>>
    BY <1>5 DEF Put, device
  <2>3. info' = info \/ info' = [base |-> mls[c].base, epoch |-> mls[c].epoch]
    BY <1>5 DEF Put
  <2>4. (info # None => Chain(info.base, info.epoch))' /\ info' \in GroupInfo \cup {None}
    BY <1>1, <2>1, <2>2, <2>3 DEF Chain, IInv
  <2>5. PICK n \in {Goto(o, "record"), Threw(o)} : Becomes(c, "queue", n)
    BY <1>1, <1>4, <1>5 DEF Put
  <2>6. n \in Operation /\ n.at \notin {"process", "replay", "recordNext", "post", "merge", "put"}
    <3>1. Goto(o, "record") \in Operation /\ Goto(o, "record").at = "record"
      BY <1>1, Operations DEF Phases
    <3> QED
      BY <1>3, <3>1 DEF Calm
  <2>7. Typed'
    BY <1>1, <2>2, <2>4, <2>5, <2>6, QueueOnly DEF Typed
  <2>8. OnChain(c)'
    BY <1>1, <2>2 DEF ClientInv, OnChain, Chain
  <2>9. ClientInv(c)'
    BY <2>5, <2>6, <2>8, QueueOnly DEF ClientInv, AtProcess, AtReplay, AtPost, AtMerge, AtPut, Queue
  <2>10. LogGrows
    BY <2>2 DEF LogGrows
  <2> QED
    BY <2>2, <2>4, <2>5, <2>6, <2>7, <2>9, <2>10, QueueOnly, OneClient
<1>6. CASE Post(c, w)
  <2> DEFINE r == Head(o.todo)
             entry == [kind |-> r.kind, of |-> r.of, by |-> r.by, base |-> r.base]
             empty == [Threw(o) EXCEPT !.todo = <<>>]
  <2>1. /\ r \in Pending /\ r.base = mls[c].base /\ r.epoch = mls[c].epoch + 1
        /\ mls[c].epoch \in Nat /\ Chain(mls[c].base, mls[c].epoch)
    BY <1>1, <1>6 DEF Post, At, ClientInv, AtPost, OnChain, MlsState
  <2>2. UNCHANGED <<established, mls, stored, msg>>
    BY <1>6 DEF Post, device
  <2>3. CASE /\ Accepted(r)
             /\ log' = Append(log, entry) /\ info' = [base |-> r.base, epoch |-> r.epoch]
             /\ \/ Becomes(c, w, [o EXCEPT !.at = "merge", !.todo = <<>>])
                \/ Breaks(c, w)
    <3>1. entry \in Commit /\ entry.base = mls[c].base
      BY <2>1 DEF Commit, Pending
    <3>2. LogGrows /\ log' \in Seq(Commit)
      <4> HIDE DEF entry
      <4> QED
        BY <1>1, <2>3, <3>1 DEF LogGrows
    <3>3. mls[c].epoch = Len(log)
      BY <1>1, <2>1, <2>3 DEF Accepted
    <3>4. Chain(mls[c].base, mls[c].epoch + 1)'
      <4> HIDE DEF entry
      <4>1. /\ Len(log') = Len(log) + 1 /\ log'[Len(log) + 1] = entry
            /\ \A j \in 1..Len(log) : log'[j] = log[j]
        BY <1>1, <2>3, <3>1
      <4>2. \A j \in 1..(Len(log) + 1) : log'[j].base = mls[c].base
        BY <1>1, <2>1, <3>1, <3>3, <4>1 DEF Chain
      <4> QED
        BY <1>1, <2>2, <3>3, <4>1, <4>2 DEF Chain
    <3>5. (info # None => Chain(info.base, info.epoch))' /\ info' \in GroupInfo \cup {None}
      <4>1. info' \in GroupInfo /\ info'.base = mls'[c].base /\ info'.epoch = mls'[c].epoch + 1
        BY <2>1, <2>2, <2>3 DEF GroupInfo, Pending
      <4> QED
        BY <3>4, <4>1
    <3>6. PICK n \in {[o EXCEPT !.at = "merge", !.todo = <<>>], Threw(o)} : Becomes(c, "queue", n)
      BY <1>1, <1>4, <2>3
    <3>7. n \in Operation /\ n.at \notin {"process", "replay", "recordNext", "post", "put"}
      <4>1. "merge" \in Phases /\ <<>> \in Seq(Nat \cup Pending)
        BY DEF Phases
      <4>2. [o EXCEPT !.at = "merge", !.todo = <<>>] \in Operation
            /\ [o EXCEPT !.at = "merge", !.todo = <<>>].at = "merge"
        BY <1>1, <4>1 DEF Operation
      <4> QED
        BY <1>3, <4>2 DEF Calm
    <3>8. Typed'
      BY <1>1, <2>2, <3>2, <3>5, <3>6, <3>7, QueueOnly DEF Typed
    <3>9. OnChain(c)'
      <4>1. Chain(mls[c].base, mls[c].epoch)'
        BY <1>1, <2>1, <2>2, <3>2, ChainStable
      <4> QED
        BY <4>1 DEF OnChain
    <3>10. ClientInv(c)'
      BY <3>4, <3>6, <3>7, <3>9, QueueOnly DEF ClientInv, AtProcess, AtReplay, AtPost, AtMerge, AtPut, Queue
    <3> QED
      BY <2>2, <3>2, <3>5, <3>6, <3>7, <3>8, <3>10, QueueOnly, OneClient
  <2>4. CASE Becomes(c, w, empty) /\ UNCHANGED server
    <3>1. empty \in Operation /\ empty.at \in Calm
      BY <1>3, Operations
    <3> QED
      BY <1>1, <1>2, <2>2, <2>4, <3>1 DEF server
  <2>5. CASE Breaks(c, w) /\ UNCHANGED server
    BY <1>1, <1>2, <1>3, <1>4, <2>2, <2>5
  <2> QED
    BY <1>1, <1>6, <2>3, <2>4, <2>5 DEF Post
<1> QED
  BY <1>5, <1>6

\* Departures, kicks and crashes.
LEMMA Environment ==
  ASSUME IInv, \/ \E d \in Leavers : Leaves(d)
               \/ \E c \in Clients : CleansUp(c) \/ Crash(c)
  PROVE  IInv'
<1>1. CASE \E d \in Leavers : Leaves(d)
  BY <1>1 DEF Leaves, server, device, IInv, Typed, Chain, ClientInv, OnChain, AtProcess, AtReplay, AtPost, AtMerge, AtPut, Queue
<1>2. ASSUME NEW c \in Clients, CleansUp(c)
      PROVE  IInv'
  <2>1. stored' \in [Clients -> Nat \cup {None}] /\ UNCHANGED <<established, log, info, mls, op, msg>>
    BY <1>2 DEF CleansUp, server, IInv, Typed
  <2>2. Typed'
    BY <2>1 DEF IInv, Typed
  <2> QED
    BY <2>1, <2>2 DEF IInv, Chain, ClientInv, OnChain, AtProcess, AtReplay, AtPost, AtMerge, AtPut, Queue
<1>3. ASSUME NEW c \in Clients, Crash(c)
      PROVE  IInv'
  <2>1. op' = [op EXCEPT ![c] = [w \in Workers |-> Idle]] /\ UNCHANGED <<established, log, info, mls, stored, msg>>
    BY <1>3 DEF Crash, server, device
  <2>2. [w \in Workers |-> Idle] \in [Workers -> Operation] /\ Idle.at \in Calm
    BY IdleOperation
  <2>3. op \in [Clients -> [Workers -> Operation]]
    BY DEF IInv, Typed
  <2>4. /\ op' \in [Clients -> [Workers -> Operation]]
        /\ op'[c]["queue"] = Idle /\ op'[c]["export"] = Idle
        /\ \A d \in Clients \ {c} : op'[d] = op[d]
    BY <2>1, <2>2, <2>3 DEF Workers
  <2>5. Typed'
    BY <2>1, <2>4 DEF IInv, Typed
  <2>6. OnChain(c)' /\ (info # None => Chain(info.base, info.epoch))'
    BY <2>1 DEF IInv, ClientInv, OnChain, Chain
  <2>7. ClientInv(c)'
    BY <2>2, <2>4, <2>6 DEF Calm, ClientInv, AtProcess, AtReplay, AtPost, AtMerge, AtPut, Queue
  <2>8. LogGrows
    BY <2>1 DEF LogGrows
  <2> QED
    BY <2>1, <2>4, <2>5, <2>6, <2>7, <2>8, OneClient
<1> QED
  BY <1>1, <1>2, <1>3

-----------------------------------------------------------------------------
(* The theorem.                                                             *)

LEMMA InitInv == Init => IInv
<1> SUFFICES ASSUME Init
             PROVE  IInv
  OBVIOUS
<1>1. established \subseteq Devices
  BY ConstantsOK DEF Init, Devices
<1>2. Founder \in Bases
  BY <1>1 DEF Founder, Bases
<1>3. Idle \in Operation /\ Idle.at \in Calm
  BY IdleOperation
<1>4. log = <<>> /\ log \in Seq(Commit) /\ Len(log) = 0
  BY DEF Init
<1>5. info \in GroupInfo \cup {None} /\ (info # None => Chain(info.base, info.epoch))
  BY <1>2, <1>4 DEF Init, GroupInfo, Chain
<1>6. Group(Founder, 0) \in MlsState /\ NoGroup \in MlsState /\ Group(Founder, 0).epoch = 0 /\ NoGroup.status = "none"
  BY <1>2 DEF Group, NoGroup, MlsState, Bases
<1>7. mls \in [Clients -> MlsState] /\ \A c \in Clients : mls[c] \in {Group(Founder, 0), NoGroup}
  BY <1>6 DEF Init
<1>8. op \in [Clients -> [Workers -> Operation]] /\ \A c \in Clients : op[c]["queue"] = Idle /\ op[c]["export"] = Idle
  BY <1>3 DEF Init, Workers
<1>9. Typed
  BY <1>1, <1>4, <1>5, <1>7, <1>8 DEF Init, Typed
<1>10. ASSUME NEW c \in Clients
       PROVE  ClientInv(c)
  <2>1. OnChain(c)
    BY <1>4, <1>6, <1>7 DEF OnChain, Chain
  <2> QED
    BY <1>3, <1>8, <2>1 DEF Calm, ClientInv, AtProcess, AtReplay, AtPost, AtMerge, AtPut, Queue
<1> QED
  BY <1>5, <1>9, <1>10 DEF IInv

LEMMA StepInv ==
  ASSUME Exporters = {}, IInv, [Next]_vars
  PROVE  IInv'
<1>1. CASE UNCHANGED vars
  BY <1>1 DEF vars, IInv, Typed, Chain, ClientInv, OnChain, AtProcess, AtReplay, AtPost, AtMerge, AtPut, Queue
<1>2. ASSUME NEW c \in Clients, NEW w \in Workers, Step(c, w)
      PROVE  IInv'
  BY <1>2, OpSteps, GroupSteps, ServerSteps DEF Step
<1>3. CASE Next
  BY <1>2, <1>3, Callers, Environment DEF Next
<1> QED
  BY <1>1, <1>3

\* However many devices there are and however often requests fail, devices
\* crash or commits are refused: as long as every operation holds the
\* per-channel mutex (no link export), the group of a device is a prefix of
\* the server's log (the order of POST and merge, lib/mlsGroup.js).
THEOREM MutexKeepsOneHistory ==
  ASSUME Exporters = {}
  PROVE  Spec => []MergedIsAccepted
<1>1. Init => IInv
  BY InitInv
<1>2. IInv /\ [Next]_vars => IInv'
  BY StepInv
<1>3. IInv => MergedIsAccepted
  BY DEF IInv, ClientInv, OnChain, Chain, MergedIsAccepted
<1> QED
  BY <1>1, <1>2, <1>3, PTL DEF Spec

-----------------------------------------------------------------------------
(* SendIsCurrent and HalfJoinIsNoticed: what the recorded epoch (s), the     *)
(* group (g) and the operation (o) of a device say of each other.           *)

\* A page of getMLSCommitsSinceEpoch holds every commit there can be.
Whole == MaxLog <= Limit

\* The recorded epoch is one the server reached, not beyond a joined group's
\* own; a group that is only being joined is recorded as behind.
Recorded(g, s) ==
  s # None =>
    /\ s <= Len(log)
    /\ g.status = "joined" => s <= g.epoch
    /\ g.status = "joining" => s < Len(log)

\* Commits that were fetched follow one another, and the next one follows
\* what was recorded last.
Consecutive(todo) == \A j \in 1..Len(todo) : todo[j] = todo[1] + (j - 1)
ByPhase(o, g, s) ==
  /\ o.at \in {"look", "create"} => s = None
  /\ o.at = "join" => info # None /\ (s # None => s < Len(log))
  /\ o.at \in {"replay", "recordNext"} => Consecutive(o.todo)
  /\ (o.at = "replay" /\ o.todo # <<>> /\ s # None) => o.todo[1] = s + 1
  /\ (o.at = "recordNext" /\ o.todo # <<>>) => o.todo[1] = g.epoch + 1
  /\ o.at \in {"record", "recordNext", "put"} => g.status \in {"joined", "evicted"}
  /\ (o.at = "merge" /\ s # None) => s <= g.epoch + 1

\* A sender's group has reached the epoch the log had when the send began, or
\* what the sender does next takes it there.
Current(o, g) == g.status = "joined" => o.head <= g.epoch
Sending(o, g) ==
  /\ o.at \notin {"process", "build"}
  /\ o.at \in {"use", "check", "put", "record"} => Current(o, g)
  /\ o.at = "create" => o.head = 0
  /\ o.at = "merge" => o.head <= g.epoch + 1
  /\ (o.at \in {"replay", "recordNext"} /\ o.todo = <<>>) => Current(o, g)
  /\ (o.at \in {"replay", "recordNext"} /\ o.todo # <<>>) => o.head <= o.todo[Len(o.todo)]

Follows(o, g, s) ==
  /\ o.head <= Len(log)
  /\ Recorded(g, s)
  /\ ByPhase(o, g, s)
  /\ (Whole /\ o.do = "send") => Sending(o, g)

SentCurrent == (Whole /\ msg # None) => msg.head <= msg.epoch /\ Chain(msg.base, msg.epoch)

JInv ==
  /\ Len(log) <= MaxLog
  /\ info = None => Len(log) = 0
  /\ SentCurrent
  /\ \A c \in Clients : Follows(Queue(c), mls[c], stored[c])

\* The server is never without a GroupInfo again.
Grows == LogGrows /\ (info # None => info' # None)

LEMMA GrowsFacts ==
  ASSUME log \in Seq(Commit), LogGrows
  PROVE  Len(log) \in Nat /\ Len(log') \in Nat /\ Len(log) <= Len(log') /\ log' \in Seq(Commit)
BY DEF LogGrows

\* What a device relies on is not disturbed by the log growing.
LEMMA FollowsStable ==
  ASSUME log \in Seq(Commit), Grows, NEW o \in Operation, NEW g \in MlsState, NEW s \in Nat \cup {None},
         Follows(o, g, s)
  PROVE  Follows(o, g, s)'
<1>1. Len(log) \in Nat /\ Len(log') \in Nat /\ Len(log) <= Len(log')
  BY GrowsFacts DEF Grows
<1>2. o.head \in Nat
  BY DEF Operation
<1>3. Recorded(g, s)'
  BY <1>1 DEF Follows, Recorded
<1>4. ByPhase(o, g, s)'
  BY <1>1 DEF Follows, ByPhase, Grows, Consecutive
<1>5. Whole' = Whole /\ Sending(o, g)' = Sending(o, g)
  BY DEF Whole, Sending, Current
<1> QED
  BY <1>1, <1>2, <1>3, <1>4, <1>5 DEF Follows

\* A step of client c need only be looked at for c and the server.
LEMMA OneFollower ==
  ASSUME IInv, JInv, Grows, NEW c \in Clients,
         NEW n \in Operation, NEW g \in MlsState, NEW s \in Nat \cup {None},
         Becomes(c, "queue", n), mls' = [mls EXCEPT ![c] = g], stored' = [stored EXCEPT ![c] = s],
         Follows(n, g, s)', SentCurrent', (Len(log) <= MaxLog)', (info = None => Len(log) = 0)'
  PROVE  JInv'
<1>1. /\ mls \in [Clients -> MlsState] /\ stored \in [Clients -> Nat \cup {None}]
      /\ op \in [Clients -> [Workers -> Operation]] /\ log \in Seq(Commit)
  BY DEF IInv, Typed
<1>2. op'[c]["queue"] = n /\ mls'[c] = g /\ stored'[c] = s
  BY <1>1, QueueOnly
<1>3. ASSUME NEW d \in Clients, d # c
      PROVE  Follows(Queue(d), mls[d], stored[d])'
  <2>1. op'[d]["queue"] = op[d]["queue"] /\ mls'[d] = mls[d] /\ stored'[d] = stored[d]
    BY <1>1, <1>3, QueueOnly
  <2>2. op[d]["queue"] \in Operation /\ mls[d] \in MlsState /\ stored[d] \in Nat \cup {None}
    BY Here
  <2>3. Follows(op[d]["queue"], mls[d], stored[d])
    BY DEF JInv, Queue
  <2>4. ASSUME NEW oo \in Operation, NEW gg \in MlsState, NEW ss \in Nat \cup {None}, Follows(oo, gg, ss)
        PROVE  Follows(oo, gg, ss)'
    BY <1>1, <2>4, FollowsStable
  <2> QED
    BY <2>1, <2>2, <2>3, <2>4 DEF Queue
<1> QED
  BY <1>2, <1>3 DEF JInv, Queue

\* A step of client c that leaves the server alone.
LEMMA Moves ==
  ASSUME IInv, JInv, NEW c \in Clients,
         NEW n \in Operation, NEW g \in MlsState, NEW s \in Nat \cup {None},
         Becomes(c, "queue", n),
         mls' = [mls EXCEPT ![c] = g] \/ (mls' = mls /\ g = mls[c]),
         stored' = [stored EXCEPT ![c] = s] \/ (stored' = stored /\ s = stored[c]),
         UNCHANGED server, Follows(n, g, s), SentCurrent'
  PROVE  JInv'
<1>1. log' = log /\ info' = info /\ log \in Seq(Commit)
  BY DEF server, IInv, Typed
<1>2. Grows
  BY <1>1 DEF Grows, LogGrows
<1>3. Follows(n, g, s)'
  BY <1>1, <1>2, FollowsStable
<1>4. (Len(log) <= MaxLog)' /\ (info = None => Len(log) = 0)'
  BY <1>1 DEF JInv
<1>5. mls' = [mls EXCEPT ![c] = g] /\ stored' = [stored EXCEPT ![c] = s]
  BY DEF IInv, Typed
<1> QED
  BY <1>2, <1>3, <1>4, <1>5, OneFollower

\* The message that was sent stays on the log.
LEMMA SentStable ==
  ASSUME IInv, JInv, LogGrows, msg' = msg
  PROVE  SentCurrent'
<1>1. log \in Seq(Commit) /\ msg \in Message \cup {None}
  BY DEF IInv, Typed
<1>2. Whole' = Whole
  BY DEF Whole
<1>3. SUFFICES ASSUME Whole, msg # None
               PROVE  msg.head <= msg.epoch /\ Chain(msg.base, msg.epoch)'
  BY <1>2 DEF SentCurrent
<1>4. msg.epoch \in Nat /\ msg.head <= msg.epoch /\ Chain(msg.base, msg.epoch)
  BY <1>1, <1>3 DEF JInv, SentCurrent, Message
<1> QED
  BY <1>1, <1>4, ChainStable

\* Ends and returns ask for no more than what was recorded.
LEMMA FollowsEnd ==
  ASSUME log \in Seq(Commit), NEW g, NEW s, Recorded(g, s), NEW o \in Operation, o.head <= Len(log)
  PROVE  /\ Follows(Idle, g, s) /\ Follows(Threw(o), g, s)
         /\ Follows([Threw(o) EXCEPT !.todo = <<>>], g, s)
         /\ (Whole /\ o.do = "send" => Current(o, g)) => Follows(Returned(o), g, s)
<1>1. Len(log) \in Nat
  OBVIOUS
<1>2. Idle.do = "idle" /\ Idle.at = "end" /\ Idle.head = 0
  BY DEF Idle
<1>3. Follows(Idle, g, s)
  BY <1>1, <1>2 DEF Follows, ByPhase
<1>4. ASSUME NEW t \in Operation, t = Idle \/ (t.at = "fetch" /\ t.do # "send" /\ t.head = o.head)
      PROVE  Follows(t, g, s)
  <2>1. CASE t = Idle
    BY <1>3, <2>1
  <2>2. CASE t.at = "fetch" /\ t.do # "send" /\ t.head = o.head
    BY <2>2 DEF Follows, ByPhase
  <2> QED
    BY <1>4, <2>1, <2>2
<1>5. Threw(o) \in Operation
  BY Operations
<1>6. /\ Threw(o) \in Operation
      /\ Threw(o) = Idle \/ (Threw(o).at = "fetch" /\ Threw(o).do # "send" /\ Threw(o).head = o.head)
  <2>1. CASE o.do \in {"recv", "commit"} /\ ~o.retry
    <3> DEFINE b == IF o.do = "recv" THEN "check" ELSE "end"
    <3>1. Threw(o) = [o EXCEPT !.at = "fetch", !.back = b, !.retry = TRUE]
      BY <2>1 DEF Threw
    <3> HIDE DEF b
    <3>2. Threw(o).at = "fetch" /\ Threw(o).do = o.do /\ Threw(o).head = o.head
      BY <3>1 DEF Operation
    <3> QED
      BY <2>1, <3>2, <1>5
  <2>2. CASE ~(o.do \in {"recv", "commit"} /\ ~o.retry)
    BY <2>2, <1>5 DEF Threw
  <2> QED
    BY <2>1, <2>2
<1>7. Follows(Threw(o), g, s)
  BY <1>4, <1>6
<1>8. Follows([Threw(o) EXCEPT !.todo = <<>>], g, s)
  <2> DEFINE t == Threw(o)
             e == [t EXCEPT !.todo = <<>>]
  <2>1. t \in Operation /\ <<>> \in Seq(Nat \cup Pending)
    BY <1>6
  <2> HIDE DEF t
  <2>2. e \in Operation /\ e.at = t.at /\ e.do = t.do /\ e.head = t.head
    BY <2>1 DEF Operation
  <2>3. e.do # "send" /\ e.at \in {"end", "fetch"} /\ e.head <= Len(log)
    BY <1>2, <1>6, <1>1, <2>2 DEF t
  <2> HIDE DEF e
  <2>4. Follows(e, g, s)
    BY <2>3 DEF Follows, ByPhase
  <2> QED
    BY <2>4 DEF e, t
<1>9. ASSUME Whole /\ o.do = "send" => Current(o, g)
      PROVE  Follows(Returned(o), g, s)
  <2>1. CASE o.back = "end"
    BY <1>3, <2>1 DEF Returned
  <2>2. CASE o.back # "end"
    <3> DEFINE r == Goto(o, o.back)
    <3>1. r.at \in {"use", "check"} /\ r.do = o.do /\ r.head = o.head
      BY <2>2 DEF Goto, Operation
    <3> HIDE DEF r
    <3>2. Follows(r, g, s)
      BY <1>9, <3>1 DEF Follows, ByPhase, Sending, Current
    <3> QED
      BY <2>2, <3>2 DEF Returned, r
  <2> QED
    BY <2>1, <2>2
<1> QED
  BY <1>3, <1>7, <1>8, <1>9

-----------------------------------------------------------------------------
\* What a step of client c may use.
LEMMA Facts ==
  ASSUME IInv, JInv, NEW c \in Clients
  PROVE  /\ Queue(c) \in Operation /\ mls[c] \in MlsState /\ stored[c] \in Nat \cup {None}
         /\ log \in Seq(Commit) /\ Len(log) \in Nat /\ msg \in Message \cup {None}
         /\ ClientInv(c) /\ Follows(Queue(c), mls[c], stored[c])
         /\ Recorded(mls[c], stored[c]) /\ Queue(c).head <= Len(log)
         /\ Queue(c).head \in Nat /\ mls[c].epoch \in Nat
<1>1. Queue(c) \in Operation /\ mls[c] \in MlsState /\ stored[c] \in Nat \cup {None}
      /\ log \in Seq(Commit) /\ Len(log) \in Nat
  BY Here DEF Queue
<1>2. ClientInv(c) /\ msg \in Message \cup {None} /\ Follows(Queue(c), mls[c], stored[c])
  BY DEF IInv, JInv, Typed
<1> QED
  BY <1>1, <1>2 DEF Follows, Operation, MlsState

\* An operation begins at the epoch the log has.
LEMMA CallersFollow ==
  ASSUME IInv, JInv, Exporters = {}, NEW c \in Clients,
         \/ EncryptForChannel(c)
         \/ \E i \in 1..Len(log) : OnCommit(c, i)
         \/ \E d \in Leavers : OnAddRequest(c, d)
         \/ \E w \in Workers : Decrypt(c, w)
  PROVE  JInv'
<1>1. /\ mls[c] \in MlsState /\ stored[c] \in Nat \cup {None} /\ log \in Seq(Commit) /\ Len(log) \in Nat
      /\ msg \in Message \cup {None} /\ Recorded(mls[c], stored[c])
  BY Facts
<1>2. ASSUME NEW do \in {"send", "recv", "commit", "remove", "catchup"},
             NEW at \in {"look", "use", "fetch", "build", "process"},
             NEW back \in {"end", "use"}, NEW arg \in Nat \cup Bases \cup GroupInfo,
             Start(c, "queue", Begin(do, at, back, arg)),
             at = "look" => stored[c] = None,
             do = "send" => at \in {"look", "fetch"}
      PROVE  JInv'
  <2> DEFINE n == Begin(do, at, back, arg)
  <2>1. at \in Phases /\ back \in {"end", "use", "check"}
    BY DEF Phases
  <2>2. n \in Operation
    BY <1>1, <2>1, Beginnings
  <2>3. n.at = at /\ n.do = do /\ n.head = Len(log)
    BY DEF Begin, Idle
  <2>4. UNCHANGED <<server, mls, stored, msg>> /\ Becomes(c, "queue", n)
    BY <1>2 DEF Start, device
  <2> HIDE DEF n
  <2>5. Follows(n, mls[c], stored[c])
    BY <1>1, <1>2, <2>3 DEF Follows, ByPhase, Sending
  <2>6. SentCurrent'
    BY <2>4, SentStable DEF server, LogGrows
  <2> QED
    BY <1>1, <2>2, <2>4, <2>5, <2>6, Moves
<1>3. None \in Bases
  BY DEF Bases
<1>4. CASE EncryptForChannel(c)
  <2>1. CASE stored[c] = None
    BY <1>2, <1>3, <1>4, <2>1 DEF EncryptForChannel, EncryptStart
  <2>2. CASE stored[c] # None
    BY <1>2, <1>3, <1>4, <2>2 DEF EncryptForChannel, EncryptStart
  <2> QED
    BY <2>1, <2>2
<1>5. ASSUME NEW i \in 1..Len(log), OnCommit(c, i)
      PROVE  JInv'
  <2>1. i \in Nat \cup Bases \cup GroupInfo
    BY <1>1
  <2>2. Start(c, "queue", Begin("commit", "process", "end", i))
    BY <1>5 DEF OnCommit
  <2> QED
    BY <1>2, <2>1, <2>2
<1>6. ASSUME NEW d \in Leavers, OnAddRequest(c, d)
      PROVE  JInv'
  <2>1. d \in Bases
    BY ConstantsOK DEF Bases, Devices
  <2>2. PICK legacy \in Legacy : Start(c, "queue", IF legacy THEN Begin("catchup", "fetch", "end", None)
                                                   ELSE Begin("remove", "build", "end", d))
    BY <1>6 DEF OnAddRequest
  <2>3. CASE legacy
    BY <1>2, <1>3, <2>2, <2>3
  <2>4. CASE ~legacy
    BY <1>2, <2>1, <2>2, <2>4
  <2> QED
    BY <2>3, <2>4
<1>7. ASSUME NEW w \in Workers, Decrypt(c, w)
      PROVE  JInv'
  <2>1. w = "queue" /\ msg \in Message
    BY <1>1, <1>7 DEF Decrypt, Workers
  <2> DEFINE arg == [base |-> msg.base, epoch |-> msg.epoch]
  <2>2. arg \in GroupInfo
    BY <2>1 DEF Message, GroupInfo
  <2>3. Start(c, "queue", Begin("recv", IF stored[c] = None THEN "look" ELSE "use", "use", arg))
    BY <1>7, <2>1 DEF Decrypt, DecryptStart
  <2> HIDE DEF arg
  <2>4. CASE stored[c] = None
    BY <1>2, <2>2, <2>3, <2>4
  <2>5. CASE stored[c] # None
    BY <1>2, <2>2, <2>3, <2>5
  <2> QED
    BY <2>4, <2>5
<1> QED
  BY <1>4, <1>5, <1>6, <1>7

\* Departures, kicks and crashes.
LEMMA EnvironmentFollows ==
  ASSUME IInv, JInv, \/ \E d \in Leavers : Leaves(d)
                     \/ \E c \in Clients : CleansUp(c) \/ Crash(c)
  PROVE  JInv'
<1>1. CASE \E d \in Leavers : Leaves(d)
  <2>1. UNCHANGED <<log, info, mls, stored, op, msg>>
    BY <1>1 DEF Leaves, server, device
  <2> QED
    BY <2>1 DEF JInv, SentCurrent, Whole, Follows, Recorded, ByPhase, Sending, Current, Chain, Queue, Consecutive
<1>2. ASSUME NEW c \in Clients, CleansUp(c)
      PROVE  JInv'
  <2>1. Follows(Queue(c), mls[c], None)
    BY Facts DEF Follows, Recorded, ByPhase
  <2>2. Becomes(c, "queue", Queue(c))
    <3>1. op \in [Clients -> [Workers -> Operation]] /\ op' = op
      BY <1>2 DEF CleansUp, IInv, Typed
    <3> QED
      BY <3>1 DEF Becomes, Queue, Workers
  <2>3. UNCHANGED <<server, mls, msg>> /\ stored' = [stored EXCEPT ![c] = None]
    BY <1>2 DEF CleansUp
  <2>4. SentCurrent'
    BY <2>3, SentStable DEF server, LogGrows
  <2>5. Queue(c) \in Operation /\ mls[c] \in MlsState
    BY Facts
  <2> QED
    BY <2>1, <2>2, <2>3, <2>4, <2>5, Moves
<1>3. ASSUME NEW c \in Clients, Crash(c)
      PROVE  JInv'
  <2>1. Follows(Idle, mls[c], stored[c]) /\ Idle \in Operation
    BY Facts, FollowsEnd, IdleOperation
  <2>2. Becomes(c, "queue", Idle)
    <3>1. op \in [Clients -> [Workers -> Operation]] /\ op' = [op EXCEPT ![c] = [w \in Workers |-> Idle]]
      BY <1>3 DEF Crash, IInv, Typed
    <3>2. op[c]["export"] = Idle
      BY Here
    <3>3. [w \in Workers |-> Idle] = [op[c] EXCEPT !["queue"] = Idle]
      BY <3>1, <3>2 DEF Workers
    <3> QED
      BY <3>1, <3>3 DEF Becomes
  <2>3. UNCHANGED <<server, mls, stored, msg>>
    BY <1>3 DEF Crash, device
  <2>4. SentCurrent'
    BY <2>3, SentStable DEF server, LogGrows
  <2>5. mls[c] \in MlsState /\ stored[c] \in Nat \cup {None}
    BY Facts
  <2> QED
    BY <2>1, <2>2, <2>3, <2>4, <2>5, Moves
<1> QED
  BY <1>1, <1>2, <1>3

\* The next phase of an operation.
LEMMA Going ==
  ASSUME NEW o \in Operation, NEW p \in Phases
  PROVE  Goto(o, p) \in Operation /\ Goto(o, p).at = p /\ Goto(o, p).head = o.head /\ Goto(o, p).do = o.do
BY DEF Goto, Operation

\* Steps that change the operation and no group.
LEMMA OpStepsFollow ==
  ASSUME IInv, JInv, NEW c \in Clients, NEW w \in Workers,
         \/ Fetch(c, w) \/ Record(c, w) \/ Look(c, w)
         \/ Encrypt(c, w) \/ DecryptMessage(c, w) \/ Check(c, w)
  PROVE  JInv'
<1> DEFINE o == Queue(c)
           g == mls[c]
           s == stored[c]
<1>1. /\ w = "queue" /\ o = op[c]["queue"] /\ o \in Operation /\ g \in MlsState /\ s \in Nat \cup {None}
      /\ log \in Seq(Commit) /\ Len(log) \in Nat /\ ClientInv(c) /\ msg \in Message \cup {None}
      /\ Follows(o, g, s) /\ Recorded(g, s) /\ o.head <= Len(log) /\ o.head \in Nat /\ g.epoch \in Nat
  <2>1. \A p \in Phases : At(c, w, p) => w = "queue"
    BY Here
  <2>2. {"fetch", "record", "recordNext", "look", "use", "check"} \subseteq Phases
    BY DEF Phases
  <2>3. w = "queue"
    BY <2>1, <2>2 DEF Fetch, Record, Look, Encrypt, DecryptMessage, Check
  <2> QED
    BY <2>3, Facts DEF Queue
<1>2. ASSUME NEW n \in Operation, Becomes(c, "queue", n), UNCHANGED <<server, mls, stored, msg>>, Follows(n, g, s)
      PROVE  JInv'
  <2>1. SentCurrent'
    BY <1>2, SentStable DEF server, LogGrows
  <2> QED
    BY <1>1, <1>2, <2>1, Moves
<1>3. ASSUME Breaks(c, w), UNCHANGED <<server, mls, stored, msg>>
      PROVE  JInv'
  <2>1. Becomes(c, "queue", Threw(o)) /\ Threw(o) \in Operation
    BY <1>1, <1>3, Operations DEF Breaks
  <2> QED
    BY <1>1, <1>2, <1>3, <2>1, FollowsEnd
<1>4. CASE Fetch(c, w)
  <2> DEFINE n == Since(c)
             last == IF n + Limit < Len(log) THEN n + Limit ELSE Len(log)
             size == IF last > n THEN last - n ELSE 0
             todo == [i \in 1..size |-> n + i]
             next == [o EXCEPT !.at = "replay", !.todo = todo]
  <2>0. Becomes(c, w, next) \/ Breaks(c, w)
    BY <1>1, <1>4 DEF Fetch
  <2>1. n \in Nat /\ Limit \in Nat /\ (s # None => n = s) /\ (s = None => n = 0)
    BY <1>1, ConstantsOK DEF Since
  <2>2. last \in Nat /\ last <= Len(log) /\ size \in Nat
    BY <1>1, <2>1
  <2>3. Whole => last = Len(log)
    BY <1>1, <2>1, ConstantsOK DEF Whole, JInv
  <2>4. size = 0 => last <= n
    BY <2>1, <2>2
  <2>5. size # 0 => n + size = last
    BY <2>1, <2>2
  <2> HIDE DEF n, last, size
  <2>6. todo \in Seq(Nat) /\ todo \in Seq(Nat \cup Pending) /\ Len(todo) = size /\ \A j \in 1..size : todo[j] = n + j
    BY <2>1, <2>2
  <2> HIDE DEF todo
  <2>7. Consecutive(todo) /\ (todo # <<>> => todo[1] = n + 1 /\ todo[Len(todo)] = last) /\ (todo = <<>> => last <= n)
    BY <2>1, <2>2, <2>4, <2>5, <2>6 DEF Consecutive
  <2>8. "replay" \in Phases
    BY DEF Phases
  <2>9. next \in Operation /\ next.at = "replay" /\ next.todo = todo /\ next.head = o.head /\ next.do = o.do
    BY <1>1, <2>6, <2>8 DEF Operation
  <2> HIDE DEF next
  <2>10. ByPhase(next, g, s)
    BY <2>1, <2>7, <2>9 DEF ByPhase
  <2>11. ASSUME Whole
         PROVE  Sending(next, g)
    <3>1. CASE todo # <<>>
      BY <1>1, <2>3, <2>7, <2>9, <2>11, <3>1 DEF Sending
    <3>2. CASE todo = <<>>
      <4>1. Len(log) <= n
        BY <2>3, <2>7, <2>11, <3>2
      <4>2. Current(o, g)
        <5>1. CASE s = None
          BY <1>1, <2>1, <4>1, <5>1 DEF Current
        <5>2. CASE s # None
          BY <1>1, <2>1, <4>1, <5>2 DEF Current, Recorded
        <5> QED
          BY <5>1, <5>2
      <4> QED
        BY <2>9, <3>2, <4>2 DEF Sending, Current
    <3> QED
      BY <3>1, <3>2
  <2>12. Follows(next, g, s)
    BY <1>1, <2>9, <2>10, <2>11 DEF Follows
  <2>13. UNCHANGED <<server, mls, stored, msg>>
    BY <1>4 DEF Fetch, device
  <2> QED
    BY <1>1, <1>2, <1>3, <2>0, <2>9, <2>12, <2>13 DEF next
<1>5. CASE Record(c, w)
  <2>1. stored' = [stored EXCEPT ![c] = g.epoch] /\ UNCHANGED <<server, mls, msg>>
    BY <1>5 DEF Record
  <2>2. SentCurrent'
    BY <2>1, SentStable DEF server, LogGrows
  <2>3. o.at \in {"record", "recordNext"} /\ g.status \in {"joined", "evicted"}
    BY <1>1, <1>5 DEF Record, At, Follows, ByPhase
  <2>4. Recorded(g, g.epoch)
    BY <1>1, <2>3 DEF Recorded, ClientInv, OnChain, Chain
  <2>5. CASE o.at = "record"
    <3>1. Becomes(c, "queue", Returned(o)) /\ Returned(o) \in Operation
      BY <1>1, <1>5, <2>5, Operations DEF Record
    <3>2. Whole /\ o.do = "send" => Current(o, g)
      BY <1>1, <2>5 DEF Follows, Sending
    <3>3. Follows(Returned(o), g, g.epoch)
      BY <1>1, <2>4, <3>2, FollowsEnd
    <3> QED
      BY <1>1, <2>1, <2>2, <3>1, <3>3, Moves
  <2>6. CASE o.at = "recordNext"
    <3> DEFINE n == Goto(o, "replay")
    <3>1. Becomes(c, "queue", n)
      BY <1>1, <1>5, <2>6 DEF Record
    <3>2. n \in Operation /\ n.at = "replay"
      BY <1>1, Operations DEF Phases
    <3>3. n.todo = o.todo /\ n.head = o.head /\ n.do = o.do
      BY <1>1 DEF Goto, Operation
    <3> HIDE DEF n
    <3>4. ByPhase(n, g, g.epoch)
      BY <1>1, <2>6, <3>2, <3>3 DEF Follows, ByPhase
    <3>5. Whole /\ n.do = "send" => Sending(n, g)
      BY <1>1, <2>6, <3>2, <3>3 DEF Follows, Sending, Current
    <3>6. Follows(n, g, g.epoch)
      BY <1>1, <2>4, <3>3, <3>4, <3>5 DEF Follows
    <3> QED
      BY <1>1, <2>1, <2>2, <3>1, <3>2, <3>6, Moves
  <2> QED
    BY <2>3, <2>5, <2>6
<1>6. CASE Look(c, w)
  <2>1. UNCHANGED <<server, mls, stored, msg>> /\ o.at = "look" /\ s = None
    BY <1>1, <1>6 DEF Look, device, At, Follows, ByPhase
  <2>2. CASE Becomes(c, w, Goto(o, IF info = None THEN "create" ELSE "join"))
    <3> DEFINE p == IF info = None THEN "create" ELSE "join"
               n == Goto(o, p)
    <3>1. p \in {"create", "join"} /\ (p = "create" => o.head = 0) /\ (p = "join" => info # None)
      BY <1>1 DEF JInv
    <3>2. p \in Phases
      BY DEF Phases
    <3> HIDE DEF p
    <3>3. n \in Operation /\ n.at = p /\ n.head = o.head /\ n.do = o.do
      BY <1>1, <3>2 DEF Operation, Goto
    <3> HIDE DEF n
    <3>4. Follows(n, g, s)
      BY <1>1, <2>1, <3>1, <3>3 DEF Follows, ByPhase, Sending
    <3> QED
      BY <1>1, <1>2, <2>1, <2>2, <3>3, <3>4 DEF n, p
  <2> QED
    BY <1>1, <1>3, <1>6, <2>1, <2>2 DEF Look
<1>7. CASE Encrypt(c, w)
  <2>1. o.at = "use" /\ o.do = "send" /\ UNCHANGED <<server, mls>>
    BY <1>1, <1>7 DEF Encrypt, At
  <2>2. Idle \in Operation /\ Follows(Idle, g, s)
    BY <1>1, IdleOperation, FollowsEnd
  <2>3. CASE g.status = "joined"
    <3>1. /\ Becomes(c, "queue", Idle) /\ UNCHANGED stored
          /\ msg' = [by |-> c, base |-> g.base, epoch |-> g.epoch, head |-> o.head]
      BY <1>1, <1>7, <2>3 DEF Encrypt
    <3>2. Chain(g.base, g.epoch)
      BY <1>1, <2>3 DEF ClientInv, OnChain
    <3>3. Whole => o.head <= g.epoch
      BY <1>1, <2>1, <2>3 DEF Follows, Sending, Current
    <3>4. SentCurrent'
      BY <2>1, <3>1, <3>2, <3>3 DEF SentCurrent, Whole, Chain, server
    <3> QED
      BY <1>1, <2>1, <2>2, <3>1, <3>4, Moves
  <2>4. CASE g.status = "none" /\ ~o.retry
    <3> DEFINE n == [o EXCEPT !.at = "look", !.retry = TRUE]
    <3>1. Becomes(c, "queue", n) /\ stored' = [stored EXCEPT ![c] = None] /\ UNCHANGED msg
      BY <1>1, <1>7, <2>4 DEF Encrypt
    <3>2. "look" \in Phases /\ TRUE \in BOOLEAN
      BY DEF Phases
    <3>3. n \in Operation /\ n.at = "look" /\ n.head = o.head
      BY <1>1, <3>2 DEF Operation
    <3> HIDE DEF n
    <3>4. Follows(n, g, None)
      BY <1>1, <3>3 DEF Follows, Recorded, ByPhase, Sending
    <3>5. SentCurrent'
      BY <2>1, <3>1, SentStable DEF server, LogGrows
    <3> QED
      BY <1>1, <2>1, <3>1, <3>3, <3>4, <3>5, Moves
  <2>5. CASE g.status # "joined" /\ ~(g.status = "none" /\ ~o.retry)
    <3>1. Becomes(c, "queue", Idle) /\ UNCHANGED <<server, mls, stored, msg>>
      BY <1>1, <1>7, <2>5 DEF Encrypt
    <3> QED
      BY <1>2, <2>2, <3>1
  <2> QED
    BY <2>3, <2>4, <2>5
<1>8. CASE DecryptMessage(c, w)
  <2>1. PICK n \in {Idle, Threw(o)} : Becomes(c, "queue", n)
    BY <1>1, <1>8 DEF DecryptMessage
  <2>2. n \in Operation
    BY <1>1, <2>1, IdleOperation, Operations
  <2>3. Follows(n, g, s)
    BY <1>1, <2>1, FollowsEnd
  <2> QED
    BY <1>2, <1>8, <2>1, <2>2, <2>3 DEF DecryptMessage, device
<1>9. CASE Check(c, w)
  <2> DEFINE p == IF s = None THEN "look" ELSE "use"
             n == [o EXCEPT !.at = p, !.back = "use"]
  <2>1. Becomes(c, "queue", n) /\ UNCHANGED <<server, mls, stored, msg>> /\ o.at = "check"
    BY <1>1, <1>9 DEF Check, device, At
  <2>2. p \in Phases /\ p \in {"look", "use"} /\ (p = "look" => s = None) /\ "use" \in {"end", "use", "check"}
    BY DEF Phases
  <2> HIDE DEF p
  <2>3. n \in Operation /\ n.at = p /\ n.head = o.head /\ n.do = o.do
    BY <1>1, <2>2 DEF Operation
  <2> HIDE DEF n
  <2>4. Follows(n, g, s)
    BY <1>1, <2>1, <2>2, <2>3 DEF Follows, ByPhase, Sending, Current
  <2> QED
    BY <1>2, <2>1, <2>3, <2>4
<1> QED
  BY <1>4, <1>5, <1>6, <1>7, <1>8, <1>9

\* Steps that may change the group of c and leave the server alone.
LEMMA GroupStepsFollow ==
  ASSUME IInv, JInv, NEW c \in Clients, NEW w \in Workers,
         \/ ProcessFrame(c, w) \/ Replay(c, w) \/ Create(c, w)
         \/ Join(c, w) \/ BuildRemoval(c, w) \/ Merge(c, w)
  PROVE  JInv'
<1> DEFINE o == Queue(c)
           g == mls[c]
           s == stored[c]
<1>1. /\ w = "queue" /\ o = op[c]["queue"] /\ o \in Operation /\ g \in MlsState /\ s \in Nat \cup {None}
      /\ log \in Seq(Commit) /\ Len(log) \in Nat /\ ClientInv(c)
      /\ Follows(o, g, s) /\ Recorded(g, s) /\ o.head <= Len(log) /\ o.head \in Nat /\ g.epoch \in Nat
      /\ info \in GroupInfo \cup {None} /\ (info # None => Chain(info.base, info.epoch))
      /\ None \in Bases /\ c \in Bases
  <2>1. \A p \in Phases : At(c, w, p) => w = "queue"
    BY Here
  <2>2. {"process", "replay", "create", "join", "build", "merge"} \subseteq Phases
    BY DEF Phases
  <2>3. w = "queue"
    BY <2>1, <2>2 DEF ProcessFrame, Replay, Create, Join, BuildRemoval, Merge
  <2> QED
    BY <2>3, Facts DEF Queue, IInv, Typed, Bases, Devices
<1>2. ASSUME NEW n \in Operation, Becomes(c, "queue", n), UNCHANGED <<server, stored, msg>>, NEW h \in MlsState,
             mls' = [mls EXCEPT ![c] = h] \/ (mls' = mls /\ h = g), Follows(n, h, s)
      PROVE  JInv'
  <2>1. SentCurrent'
    BY <1>2, SentStable DEF server, LogGrows
  <2> QED
    BY <1>1, <1>2, <2>1, Moves
<1>3. ASSUME Becomes(c, "queue", Threw(o)), UNCHANGED <<server, mls, stored, msg>>
      PROVE  JInv'
  <2>1. Threw(o) \in Operation /\ Follows(Threw(o), g, s)
    BY <1>1, Operations, FollowsEnd
  <2> QED
    BY <1>1, <1>2, <1>3, <2>1
<1>4. ASSUME Becomes(c, "queue", Returned(o)), UNCHANGED <<server, mls, stored, msg>>,
             Whole /\ o.do = "send" => Current(o, g)
      PROVE  JInv'
  <2>1. Returned(o) \in Operation /\ Follows(Returned(o), g, s)
    BY <1>1, <1>4, Operations, FollowsEnd
  <2> QED
    BY <1>1, <1>2, <1>4, <2>1
<1>5. ASSUME NEW i \in 1..Len(log), Fits(c, i)
      PROVE  /\ AfterCommit(c, i) \in MlsState /\ AfterCommit(c, i).epoch = i /\ i = g.epoch + 1
             /\ AfterCommit(c, i).status \in {"joined", "evicted"} /\ g.status = "joined"
             /\ Recorded(AfterCommit(c, i), s)
  <2>1. AfterCommit(c, i) \in MlsState
    BY <1>5, CommitKeepsChain
  <2>2. /\ AfterCommit(c, i).epoch = i /\ AfterCommit(c, i).status \in {"joined", "evicted"}
        /\ i = g.epoch + 1 /\ g.status = "joined"
    BY <1>1, <1>5 DEF Fits, AfterCommit, Group
  <2> HIDE DEF s
  <2>3. s # None => s <= g.epoch /\ s <= Len(log) /\ s \in Nat
    BY <1>1, <2>2 DEF Recorded
  <2>4. Recorded(AfterCommit(c, i), s)
    BY <1>1, <2>2, <2>3 DEF Recorded
  <2> QED
    BY <2>1, <2>2, <2>4
<1>6. CASE ProcessFrame(c, w)
  <2> DEFINE i == o.arg
             h == AfterCommit(c, i)
             n == Goto(o, "record")
  <2>1. o.at = "process" /\ i \in 1..Len(log) /\ UNCHANGED <<server, stored, msg>>
    BY <1>1, <1>6 DEF ProcessFrame, At, ClientInv, AtProcess
  <2>2. CASE Fits(c, i)
    <3>1. Becomes(c, "queue", n) /\ mls' = [mls EXCEPT ![c] = h]
      BY <1>1, <1>6, <2>2 DEF ProcessFrame
    <3>2. h \in MlsState /\ h.status \in {"joined", "evicted"} /\ Recorded(h, s)
      BY <1>5, <2>1, <2>2
    <3>3. n \in Operation /\ n.at = "record" /\ n.head = o.head /\ n.do = o.do
      BY <1>1, Going DEF Phases
    <3>4. ~(Whole /\ o.do = "send")
      BY <1>1, <2>1 DEF Follows, Sending
    <3> HIDE DEF n, h
    <3>5. Follows(n, h, s)
      BY <1>1, <3>2, <3>3, <3>4 DEF Follows, ByPhase
    <3> QED
      BY <1>2, <2>1, <3>1, <3>2, <3>3, <3>5
  <2>3. CASE ~Fits(c, i)
    BY <1>1, <1>3, <1>6, <2>1, <2>3 DEF ProcessFrame
  <2> QED
    BY <2>2, <2>3
<1>7. CASE Replay(c, w)
  <2>1. o.at = "replay" /\ o.todo \in Seq(Nat) /\ (\A j \in 1..Len(o.todo) : o.todo[j] \in 1..Len(log))
        /\ UNCHANGED <<server, stored, msg>>
    BY <1>1, <1>7 DEF Replay, At, ClientInv, AtReplay
  <2>2. CASE o.todo = <<>>
    <3>1. Whole /\ o.do = "send" => Current(o, g)
      BY <1>1, <2>1, <2>2 DEF Follows, Sending
    <3> QED
      BY <1>1, <1>4, <1>7, <2>1, <2>2, <3>1 DEF Replay
  <2>3. CASE o.todo # <<>> /\ Fits(c, Head(o.todo))
    <3> DEFINE i == Head(o.todo)
               h == AfterCommit(c, i)
               tail == Tail(o.todo)
               n == [o EXCEPT !.at = "recordNext", !.todo = tail]
    <3>1. i = o.todo[1] /\ i \in 1..Len(log)
      BY <2>1, <2>3
    <3>2. h \in MlsState /\ h.status \in {"joined", "evicted"} /\ h.epoch = i /\ Recorded(h, s) /\ g.status = "joined"
      BY <1>5, <2>3, <3>1
    <3>3. Consecutive(o.todo)
      BY <1>1, <2>1 DEF Follows, ByPhase
    <3>4. /\ tail \in Seq(Nat) /\ tail \in Seq(Nat \cup Pending) /\ Len(tail) = Len(o.todo) - 1 /\ Len(o.todo) \in Nat
          /\ \A j \in 1..Len(tail) : tail[j] = o.todo[j + 1]
      BY <2>1, <2>3
    <3>5. Consecutive(tail) /\ (tail # <<>> => tail[1] = i + 1)
      <4>1. \A j \in 1..Len(o.todo) : o.todo[j] = i + (j - 1)
        BY <3>1, <3>3 DEF Consecutive
      <4>2. \A j \in 1..Len(tail) : tail[j] = i + j
        BY <3>1, <3>4, <4>1
      <4>3. tail # <<>> => 1 \in 1..Len(tail)
        BY <3>4
      <4> HIDE DEF tail, i
      <4> QED
        BY <3>1, <4>2, <4>3 DEF Consecutive
    <3>6. (tail # <<>> => tail[Len(tail)] = o.todo[Len(o.todo)]) /\ (tail = <<>> => o.todo[Len(o.todo)] = i)
      <4>1. tail # <<>> => Len(tail) \in 1..Len(tail) /\ Len(tail) + 1 = Len(o.todo)
        BY <3>4
      <4> HIDE DEF tail, i
      <4>2. tail = <<>> => Len(o.todo) = 1
        BY <3>4
      <4> QED
        BY <3>1, <3>4, <4>1, <4>2
    <3>7. "recordNext" \in Phases
      BY DEF Phases
    <3>8. Becomes(c, "queue", n) /\ mls' = [mls EXCEPT ![c] = h]
      BY <1>1, <1>7, <2>3 DEF Replay
    <3> HIDE DEF tail
    <3>9. n \in Operation /\ n.at = "recordNext" /\ n.todo = tail /\ n.head = o.head /\ n.do = o.do
      BY <1>1, <3>4, <3>7 DEF Operation
    <3> HIDE DEF n, h
    <3>10. ByPhase(n, h, s)
      BY <3>2, <3>5, <3>9 DEF ByPhase
    <3>11. Whole /\ n.do = "send" => Sending(n, h)
      <4>1. Whole /\ o.do = "send" => o.head <= o.todo[Len(o.todo)]
        BY <1>1, <2>1, <2>3 DEF Follows, Sending
      <4> QED
        BY <3>2, <3>6, <3>9, <4>1 DEF Sending, Current
    <3>12. Follows(n, h, s)
      BY <1>1, <3>2, <3>9, <3>10, <3>11 DEF Follows
    <3> QED
      BY <1>2, <2>1, <3>2, <3>8, <3>9, <3>12
  <2>4. CASE o.todo # <<>> /\ ~Fits(c, Head(o.todo))
    <3> DEFINE n == [o EXCEPT !.at = "join", !.todo = <<>>]
    <3>1. "join" \in Phases /\ <<>> \in Seq(Nat \cup Pending)
      BY DEF Phases
    <3>2. n \in Operation /\ n.at = "join" /\ n.head = o.head
      BY <1>1, <3>1 DEF Operation
    <3>3. Becomes(c, "queue", n) /\ UNCHANGED mls
      BY <1>1, <1>7, <2>4 DEF Replay
    <3>4. o.todo[1] \in 1..Len(log)
      BY <2>1, <2>4
    <3>5. info # None /\ (s # None => s < Len(log))
      <4>1. s # None => o.todo[1] = s + 1
        BY <1>1, <2>1, <2>4 DEF Follows, ByPhase
      <4>2. s # None => s < Len(log)
        BY <1>1, <3>4, <4>1
      <4>3. Len(log) # 0
        BY <1>1, <3>4
      <4> QED
        BY <4>2, <4>3 DEF JInv
    <3> HIDE DEF n
    <3>6. Follows(n, g, s)
      BY <1>1, <3>2, <3>5 DEF Follows, ByPhase, Sending
    <3> QED
      BY <1>1, <1>2, <2>1, <3>2, <3>3, <3>6
  <2> QED
    BY <2>2, <2>3, <2>4
<1>8. CASE Create(c, w)
  <2>1. o.at = "create" /\ s = None /\ (Whole /\ o.do = "send" => o.head = 0) /\ UNCHANGED <<server, stored, msg>>
    BY <1>1, <1>8 DEF Create, At, Follows, ByPhase, Sending
  <2>2. CASE g.status = "none"
    <3> DEFINE h == Group(c, 0)
               n == Goto(o, "put")
    <3>1. h \in MlsState /\ h.status = "joined" /\ h.epoch = 0
      BY <1>1 DEF Group, MlsState
    <3>2. n \in Operation /\ n.at = "put" /\ n.head = o.head /\ n.do = o.do
      BY <1>1, Going DEF Phases
    <3>3. Becomes(c, "queue", n) /\ mls' = [mls EXCEPT ![c] = h]
      BY <1>1, <1>8, <2>2 DEF Create
    <3> HIDE DEF n, h
    <3>4. Follows(n, h, s)
      BY <1>1, <2>1, <3>1, <3>2 DEF Follows, Recorded, ByPhase, Sending, Current
    <3> QED
      BY <1>2, <2>1, <3>1, <3>2, <3>3, <3>4
  <2>3. CASE g.status # "none"
    BY <1>1, <1>4, <1>8, <2>1, <2>3 DEF Create, Current
  <2> QED
    BY <2>2, <2>3
<1>9. CASE Join(c, w)
  <2> DEFINE h == [status |-> "joining", base |-> info.base, epoch |-> info.epoch, pend |-> c]
             r == [kind |-> "join", of |-> c, by |-> c, base |-> info.base, epoch |-> info.epoch + 1]
             n == [o EXCEPT !.at = "post", !.todo = <<r>>]
  <2>1. o.at = "join" /\ UNCHANGED <<server, stored, msg>> /\ info # None /\ (s # None => s < Len(log))
    BY <1>1, <1>9 DEF Join, At, Follows, ByPhase
  <2>2. Breaks(c, w) => Becomes(c, "queue", Threw(o))
    BY <1>1 DEF Breaks
  <2>3. CASE Becomes(c, w, n) /\ mls' = [mls EXCEPT ![c] = h]
    <3>1. info.base \in Bases /\ info.epoch \in Nat
      BY <1>1, <2>1 DEF GroupInfo
    <3>2. h \in MlsState /\ h.status = "joining"
      BY <1>1, <3>1 DEF MlsState
    <3>3. r \in Pending /\ <<r>> \in Seq(Nat \cup Pending) /\ "post" \in Phases
      BY <1>1, <3>1 DEF Pending, Bases, Devices, Phases
    <3> HIDE DEF r
    <3>4. n \in Operation /\ n.at = "post" /\ n.head = o.head
      BY <1>1, <3>3 DEF Operation
    <3> HIDE DEF n, h
    <3>5. Follows(n, h, s)
      BY <1>1, <2>1, <3>2, <3>4 DEF Follows, Recorded, ByPhase, Sending
    <3> QED
      BY <1>1, <1>2, <2>1, <2>3, <3>2, <3>4, <3>5
  <2>4. CASE Breaks(c, w) /\ UNCHANGED mls
    BY <1>3, <2>1, <2>2, <2>4
  <2> QED
    BY <1>1, <1>9, <2>1, <2>3, <2>4 DEF Join
<1>10. CASE BuildRemoval(c, w)
  <2> DEFINE h == [g EXCEPT !.pend = o.arg]
             r == [kind |-> "remove", of |-> o.arg, by |-> c, base |-> g.base, epoch |-> g.epoch + 1]
             n == [o EXCEPT !.at = "post", !.todo = <<r>>]
  <2>1. CASE g.status = "joined" /\ g.pend = None /\ o.arg \in Roster(g.base, g.epoch)
    <3>1. o.arg \in Devices /\ o.arg \in Bases
      BY <2>1 DEF Roster, Bases
    <3>2. h \in MlsState /\ h.status = g.status /\ h.epoch = g.epoch
      BY <1>1, <3>1 DEF MlsState
    <3>3. r \in Pending /\ <<r>> \in Seq(Nat \cup Pending) /\ "post" \in Phases
      BY <1>1, <3>1 DEF Pending, MlsState, Phases
    <3>4. mls \in [Clients -> MlsState]
      BY DEF IInv, Typed
    <3>5. Becomes(c, "queue", n) /\ mls' = [mls EXCEPT ![c] = h] /\ UNCHANGED <<server, stored, msg>>
      BY <1>1, <1>10, <2>1, <3>4 DEF BuildRemoval
    <3> HIDE DEF r
    <3>6. n \in Operation /\ n.at = "post" /\ n.head = o.head
      BY <1>1, <3>3 DEF Operation
    <3> HIDE DEF n, h
    <3>7. Follows(n, h, s)
      BY <1>1, <3>2, <3>6 DEF Follows, Recorded, ByPhase, Sending
    <3> QED
      BY <1>2, <3>2, <3>5, <3>6, <3>7
  <2>2. CASE ~(g.status = "joined" /\ g.pend = None /\ o.arg \in Roster(g.base, g.epoch))
    BY <1>1, <1>3, <1>10, <2>2 DEF BuildRemoval
  <2> QED
    BY <2>1, <2>2
<1>11. CASE Merge(c, w)
  <2>1. o.at = "merge" /\ UNCHANGED <<server, stored, msg>> /\ Chain(g.base, g.epoch + 1)
    BY <1>1, <1>11 DEF Merge, At, ClientInv, AtMerge
  <2>2. CASE g.pend # None
    <3> DEFINE h == Group(g.base, g.epoch + 1)
               p == IF o.do = "remove" THEN "record" ELSE "put"
               n == Goto(o, p)
    <3>1. h \in MlsState /\ h.status = "joined" /\ h.epoch = g.epoch + 1
      BY <1>1 DEF Group, MlsState, Bases
    <3>2. p \in {"record", "put"} /\ p \in Phases
      BY DEF Phases
    <3>3. Becomes(c, "queue", n) /\ mls' = [mls EXCEPT ![c] = h]
      BY <1>1, <1>11, <2>2 DEF Merge
    <3> HIDE DEF p
    <3>4. n \in Operation /\ n.at = p /\ n.head = o.head /\ n.do = o.do
      BY <1>1, <3>2 DEF Operation, Goto
    <3> HIDE DEF n, h
    <3>5. s # None => s <= Len(log) /\ s <= g.epoch + 1
      BY <1>1, <2>1 DEF Follows, Recorded, ByPhase
    <3>6. Recorded(h, s)
      BY <3>1, <3>5 DEF Recorded
    <3>7. Whole /\ n.do = "send" => Sending(n, h)
      BY <1>1, <2>1, <3>1, <3>2, <3>4 DEF Follows, Sending, Current
    <3>8. ByPhase(n, h, s)
      BY <3>1, <3>2, <3>4 DEF ByPhase
    <3>9. Follows(n, h, s)
      BY <1>1, <3>4, <3>6, <3>7, <3>8 DEF Follows
    <3> QED
      BY <1>2, <2>1, <3>1, <3>3, <3>4, <3>9
  <2>3. CASE g.pend = None
    BY <1>1, <1>3, <1>11, <2>1, <2>3 DEF Merge
  <2> QED
    BY <2>2, <2>3
<1> QED
  BY <1>6, <1>7, <1>8, <1>9, <1>10, <1>11

\* A step of client c that leaves its group alone.
LEMMA ServerMoves ==
  ASSUME IInv, JInv, Grows, NEW c \in Clients,
         NEW n \in Operation, NEW g \in MlsState, NEW s \in Nat \cup {None}, g = mls[c], s = stored[c],
         Becomes(c, "queue", n), UNCHANGED <<mls, stored, msg>>, Follows(n, g, s),
         (Len(log) <= MaxLog)', (info = None => Len(log) = 0)'
  PROVE  JInv'
<1>1. log \in Seq(Commit) /\ mls' = [mls EXCEPT ![c] = g] /\ stored' = [stored EXCEPT ![c] = s]
  BY DEF IInv, Typed
<1>2. Follows(n, g, s)'
  BY <1>1, FollowsStable
<1>3. SentCurrent'
  BY SentStable DEF Grows
<1> QED
  BY <1>1, <1>2, <1>3, OneFollower

\* The server accepts a commit, or refuses it, or the request is lost; the
\* GroupInfo of a created or joined group is published.
LEMMA ServerStepsFollow ==
  ASSUME IInv, JInv, NEW c \in Clients, NEW w \in Workers, Post(c, w) \/ Put(c, w)
  PROVE  JInv'
<1> DEFINE o == Queue(c)
           g == mls[c]
           s == stored[c]
<1>1. /\ w = "queue" /\ o = op[c]["queue"] /\ o \in Operation /\ g \in MlsState /\ s \in Nat \cup {None}
      /\ log \in Seq(Commit) /\ Len(log) \in Nat /\ ClientInv(c)
      /\ Follows(o, g, s) /\ Recorded(g, s) /\ o.head <= Len(log) /\ o.head \in Nat /\ g.epoch \in Nat
      /\ g.base \in Bases
  <2>1. \A p \in Phases : At(c, w, p) => w = "queue"
    BY Here
  <2>2. {"post", "put"} \subseteq Phases
    BY DEF Phases
  <2>3. w = "queue"
    BY <2>1, <2>2 DEF Post, Put
  <2> QED
    BY <2>3, Facts DEF Queue, MlsState
<1>2. UNCHANGED <<mls, stored, msg>>
  BY DEF Post, Put, device
<1>3. \A b \in Bases, e \in Nat : [base |-> b, epoch |-> e] # None
  BY ConstantsOK DEF Bases, Devices
<1>4. Threw(o) \in Operation /\ Follows(Threw(o), g, s)
  BY <1>1, Operations, FollowsEnd
<1>5. Breaks(c, w) => Becomes(c, "queue", Threw(o))
  BY <1>1 DEF Breaks
<1>6. ASSUME NEW n \in Operation, Becomes(c, "queue", n), Follows(n, g, s), UNCHANGED log,
             info' = info \/ info' # None
      PROVE  JInv'
  <2>1. LogGrows /\ Grows
    BY <1>6 DEF Grows, LogGrows
  <2>2. (Len(log) <= MaxLog)' /\ (info = None => Len(log) = 0)'
    BY <1>6 DEF JInv
  <2> QED
    BY <1>1, <1>2, <1>6, <2>1, <2>2, ServerMoves
<1>7. CASE Put(c, w)
  <2>1. UNCHANGED log /\ o.at = "put"
    BY <1>1, <1>7 DEF Put, At
  <2>2. info' = info \/ info' # None
    BY <1>1, <1>3, <1>7 DEF Put
  <2>3. CASE Becomes(c, "queue", Goto(o, "record"))
    <3> DEFINE n == Goto(o, "record")
    <3>1. n \in Operation /\ n.at = "record" /\ n.head = o.head /\ n.do = o.do
      BY <1>1, Going DEF Phases
    <3> HIDE DEF n
    <3>2. Follows(n, g, s)
      BY <1>1, <2>1, <3>1 DEF Follows, ByPhase, Sending, Current
    <3> QED
      BY <1>6, <2>1, <2>2, <2>3, <3>1, <3>2 DEF n
  <2>4. CASE Breaks(c, w)
    BY <1>4, <1>5, <1>6, <2>1, <2>2, <2>4
  <2> QED
    BY <1>1, <1>7, <2>3, <2>4 DEF Put
<1>8. CASE Post(c, w)
  <2> DEFINE r == Head(o.todo)
             entry == [kind |-> r.kind, of |-> r.of, by |-> r.by, base |-> r.base]
             m == [o EXCEPT !.at = "merge", !.todo = <<>>]
             e == [Threw(o) EXCEPT !.todo = <<>>]
  <2>1. r \in Pending /\ r.base = g.base /\ r.epoch = g.epoch + 1
    BY <1>1, <1>8 DEF Post, At, ClientInv, AtPost
  <2>2. CASE /\ Accepted(r)
             /\ log' = Append(log, entry) /\ info' = [base |-> r.base, epoch |-> r.epoch]
             /\ Becomes(c, w, m) \/ Breaks(c, w)
    <3>1. entry \in Commit
      BY <2>1 DEF Commit, Pending
    <3> HIDE DEF entry
    <3>2. LogGrows /\ Len(log') = Len(log) + 1
      BY <1>1, <2>2, <3>1 DEF LogGrows
    <3>3. info' # None
      <4>1. [base |-> g.base, epoch |-> g.epoch + 1] # None
        BY <1>1, <1>3
      <4> QED
        BY <2>1, <2>2, <4>1
    <3>4. Grows
      BY <3>2, <3>3 DEF Grows
    <3>5. g.epoch = Len(log) /\ Len(log) < MaxLog
      BY <1>1, <2>1, <2>2 DEF Accepted
    <3>6. (Len(log) <= MaxLog)' /\ (info = None => Len(log) = 0)'
      BY <1>1, <3>2, <3>3, <3>5, ConstantsOK
    <3>7. "merge" \in Phases /\ <<>> \in Seq(Nat \cup Pending)
      BY DEF Phases
    <3>8. m \in Operation /\ m.at = "merge" /\ m.head = o.head
      BY <1>1, <3>7 DEF Operation
    <3>9. Follows(m, g, s)
      <4> HIDE DEF m
      <4> QED
        BY <1>1, <3>5, <3>8 DEF Follows, Recorded, ByPhase, Sending
    <3>10. PICK n \in {m, Threw(o)} : Becomes(c, "queue", n)
      BY <1>1, <1>5, <2>2
    <3>11. n \in Operation /\ Follows(n, g, s)
      BY <1>4, <3>8, <3>9
    <3> QED
      BY <1>1, <1>2, <3>4, <3>6, <3>10, <3>11, ServerMoves
  <2>3. CASE Becomes(c, w, e) /\ UNCHANGED server
    <3>1. e \in Operation /\ Follows(e, g, s)
      BY <1>1, <1>4, Operations, FollowsEnd
    <3> HIDE DEF e
    <3> QED
      BY <1>1, <1>6, <2>3, <3>1 DEF server
  <2>4. CASE Breaks(c, w) /\ UNCHANGED server
    BY <1>4, <1>5, <1>6, <2>4 DEF server
  <2> QED
    BY <1>1, <1>8, <2>2, <2>3, <2>4 DEF Post
<1> QED
  BY <1>7, <1>8

LEMMA InitFollows == Init => JInv
<1> SUFFICES ASSUME Init
             PROVE  JInv
  OBVIOUS
<1>1. Len(log) = 0 /\ 0 <= MaxLog /\ msg = None
  BY ConstantsOK DEF Init
<1>2. ASSUME NEW c \in Clients
      PROVE  Follows(Queue(c), mls[c], stored[c])
  <2>1. Queue(c) = Idle /\ Idle.at = "end" /\ Idle.head = 0 /\ Idle.do = "idle"
    BY DEF Init, Queue, Idle, Workers
  <2>2. Recorded(mls[c], stored[c])
    BY <1>1 DEF Init, Recorded, Group, NoGroup
  <2> QED
    BY <1>1, <2>1, <2>2 DEF Follows, ByPhase
<1> QED
  BY <1>1, <1>2 DEF JInv, SentCurrent

LEMMA StepFollows ==
  ASSUME Exporters = {}, IInv, JInv, [Next]_vars
  PROVE  JInv'
<1>1. CASE UNCHANGED vars
  BY <1>1 DEF vars, JInv, SentCurrent, Whole, Follows, Recorded, ByPhase, Sending, Current, Chain, Queue, Consecutive
<1>2. ASSUME NEW c \in Clients, NEW w \in Workers, Step(c, w)
      PROVE  JInv'
  BY <1>2, OpStepsFollow, GroupStepsFollow, ServerStepsFollow DEF Step
<1>3. CASE Next
  BY <1>2, <1>3, CallersFollow, EnvironmentFollows DEF Next
<1> QED
  BY <1>1, <1>3

LEMMA MutexFollows ==
  ASSUME Exporters = {}
  PROVE  Spec => [](IInv /\ JInv)
<1>1. Init => IInv /\ JInv
  BY InitInv, InitFollows
<1>2. IInv /\ JInv /\ [Next]_vars => (IInv /\ JInv)'
  BY StepInv, StepFollows
<1> QED
  BY <1>1, <1>2, PTL DEF Spec

\* As long as every operation holds the per-channel mutex and one page of
\* commits holds all a device may have missed, a message is encrypted no
\* earlier than the epoch the channel was in when its sending began, whatever
\* fails or crashes on the way (encryptForChannel's catch-up, HUSHHQ-99).
THEOREM SendsAreCurrent ==
  ASSUME Exporters = {}, MaxLog <= Limit
  PROVE  Spec => []SendIsCurrent
<1>1. IInv /\ JInv => SendIsCurrent
  <2> SUFFICES ASSUME IInv, JInv, msg # None
               PROVE  msg.epoch >= msg.head /\ (msg.epoch > 0 => log[msg.epoch].base = msg.base)
    BY DEF SendIsCurrent
  <2>1. msg \in Message
    BY DEF IInv, Typed
  <2>2. msg.head <= msg.epoch /\ Chain(msg.base, msg.epoch)
    BY DEF JInv, SentCurrent, Whole
  <2> QED
    BY <2>1, <2>2 DEF Message, Chain
<1> QED
  BY <1>1, MutexFollows, PTL

\* As long as every operation holds the per-channel mutex, an external join
\* that was never merged leaves an epoch recorded that the server has left
\* behind, however small the pages: the next catch-up finds a commit it
\* cannot process and joins anew (joinChannelGroup, catchupCommits).
THEOREM HalfJoinsAreNoticed ==
  ASSUME Exporters = {}
  PROVE  Spec => []HalfJoinIsNoticed
<1>1. JInv => HalfJoinIsNoticed
  BY DEF JInv, Follows, Recorded, HalfJoinIsNoticed
<1> QED
  BY <1>1, MutexFollows, PTL

-----------------------------------------------------------------------------
(* The mutex the operations run under.  Mutual exclusion and order of the   *)
(* promise chain of module ChannelMutex, for any number of calls and keys.  *)
(* The chain has no list of its waiting calls: what keeps them apart is     *)
(* that the tail a call found is the pending call just before it.  The      *)
(* inductive invariant says so with the history variable arrival.           *)

\* Pending calls have places of their own in the order of calls.
ArrivalsDiffer ==
    /\ \A t \in Task : Active(t) => arrival[t] < clock
    /\ \A t, u \in Task :
          (Active(t) /\ Active(u) /\ arrival[t] = arrival[u]) => t = u

\* The tail found is that of an earlier call on the same key.
PrevIsEarlier ==
    \A t \in Task : (Active(t) /\ prev[t] # NoTask) =>
        /\ KeyOf[prev[t]] = KeyOf[t]
        /\ phase[prev[t]] # "idle"
        /\ Active(prev[t]) => arrival[prev[t]] < arrival[t]

\* Only a call whose predecessor has drained runs.
RunsAfterPrev ==
    \A t \in Task : phase[t] \in {"running", "settled"} => PrevResolved(t)

\* No pending call lies between a waiting call and the one it waits for.
PrevIsAdjacent ==
    \A t, w \in Task :
        (Active(t) /\ Active(w) /\ ~PrevResolved(t) /\ KeyOf[t] = KeyOf[w])
            => arrival[w] <= arrival[prev[t]] \/ arrival[t] <= arrival[w]

\* A call that waits for nobody is the oldest pending one.
HeadIsOldest ==
    \A t, w \in Task :
        (Active(t) /\ Active(w) /\ PrevResolved(t) /\ KeyOf[t] = KeyOf[w])
            => arrival[t] <= arrival[w]

\* A registered tail is the newest pending call, and a key without one is free.
TailIsNewest ==
    /\ \A t \in Task : Active(t) => tails[KeyOf[t]] # NoTask
    /\ \A k \in Key : tails[k] # NoTask =>
          /\ KeyOf[tails[k]] = k
          /\ Active(tails[k])
          /\ \A t \in Task :
                (Active(t) /\ KeyOf[t] = k) => arrival[t] <= arrival[tails[k]]

ChainInv ==
    /\ MutexTypeOK
    /\ ArrivalsDiffer
    /\ PrevIsEarlier
    /\ RunsAfterPrev
    /\ PrevIsAdjacent
    /\ HeadIsOldest
    /\ TailIsNewest

-----------------------------------------------------------------------------

\* The state of the chain keeps its shape whatever the calls do.
THEOREM MutexTypeCorrect == MutexSpec => []MutexTypeOK
<1> USE MutexAssumption
<1>1. MutexInit => MutexTypeOK
  BY DEF MutexInit, MutexTypeOK, Phase
<1>2. MutexTypeOK /\ [MutexNext]_mutexVars => MutexTypeOK'
  <2> SUFFICES ASSUME MutexTypeOK, [MutexNext]_mutexVars PROVE MutexTypeOK'
    OBVIOUS
  <2>1. ASSUME NEW t \in Task, Call(t) PROVE MutexTypeOK'
    BY <2>1 DEF MutexTypeOK, Call, Phase
  <2>2. ASSUME NEW t \in Task, Run(t) PROVE MutexTypeOK'
    BY <2>2 DEF MutexTypeOK, Run, Phase
  <2>3. ASSUME NEW t \in Task, Settle(t) PROVE MutexTypeOK'
    BY <2>3 DEF MutexTypeOK, Settle, Phase
  <2>4. ASSUME NEW t \in Task, Drain(t) PROVE MutexTypeOK'
    BY <2>4 DEF MutexTypeOK, Drain, Phase
  <2>5. CASE UNCHANGED mutexVars
    BY <2>5 DEF MutexTypeOK, mutexVars
  <2> QED
    BY <2>1, <2>2, <2>3, <2>4, <2>5 DEF MutexNext
<1> QED
  BY <1>1, <1>2, PTL DEF MutexSpec

-----------------------------------------------------------------------------
(* Each kind of step preserves the chain invariant. *)

\* A new call goes to the end of the chain of its key.
LEMMA CallPreserves ==
    ASSUME ChainInv, MutexTypeOK', NEW t \in Task, Call(t)
    PROVE  ChainInv'
<1> USE MutexAssumption DEF ChainInv, MutexTypeOK, Phase, Call, Active
<1>1. ArrivalsDiffer'
  BY DEF ArrivalsDiffer
<1>2. PrevIsEarlier'
  BY DEF PrevIsEarlier, TailIsNewest, ArrivalsDiffer
<1>3. RunsAfterPrev'
  BY DEF RunsAfterPrev, PrevResolved
<1>4. PrevIsAdjacent'
  BY DEF PrevIsAdjacent, PrevIsEarlier, PrevResolved, TailIsNewest, ArrivalsDiffer
<1>5. HeadIsOldest'
  BY DEF HeadIsOldest, PrevResolved, TailIsNewest, ArrivalsDiffer
<1>6. TailIsNewest'
  BY DEF TailIsNewest, ArrivalsDiffer
<1> QED
  BY <1>1, <1>2, <1>3, <1>4, <1>5, <1>6

\* Starting a call needs its predecessor drained and moves nobody.
LEMMA RunPreserves ==
    ASSUME ChainInv, MutexTypeOK', NEW t \in Task, Run(t)
    PROVE  ChainInv'
<1> USE MutexAssumption DEF ChainInv, MutexTypeOK, Phase, Run, Active
<1>1. ArrivalsDiffer'
  BY DEF ArrivalsDiffer
<1>2. PrevIsEarlier'
  BY DEF PrevIsEarlier
<1>3. RunsAfterPrev'
  BY DEF RunsAfterPrev, PrevResolved
<1>4. PrevIsAdjacent'
  BY DEF PrevIsAdjacent, PrevResolved
<1>5. HeadIsOldest'
  BY DEF HeadIsOldest, PrevResolved
<1>6. TailIsNewest'
  BY DEF TailIsNewest
<1> QED
  BY <1>1, <1>2, <1>3, <1>4, <1>5, <1>6

\* The outcome of an operation changes nothing in the chain.
LEMMA SettlePreserves ==
    ASSUME ChainInv, MutexTypeOK', NEW t \in Task, Settle(t)
    PROVE  ChainInv'
<1> USE MutexAssumption DEF ChainInv, MutexTypeOK, Phase, Settle, Active
<1>1. ArrivalsDiffer'
  BY DEF ArrivalsDiffer
<1>2. PrevIsEarlier'
  BY DEF PrevIsEarlier
<1>3. RunsAfterPrev'
  BY DEF RunsAfterPrev, PrevResolved
<1>4. PrevIsAdjacent'
  BY DEF PrevIsAdjacent, PrevResolved
<1>5. HeadIsOldest'
  BY DEF HeadIsOldest, PrevResolved
<1>6. TailIsNewest'
  BY DEF TailIsNewest
<1> QED
  BY <1>1, <1>2, <1>3, <1>4, <1>5, <1>6

\* The call that drains is the oldest of its key, so the one that waited for
\* it, if any, is the next oldest; and if it is also the newest it was alone.
LEMMA DrainPreserves ==
    ASSUME ChainInv, MutexTypeOK', NEW t \in Task, Drain(t)
    PROVE  ChainInv'
<1> USE MutexAssumption DEF ChainInv, MutexTypeOK, Phase, Drain, Active
<1>0. PrevResolved(t) /\ Active(t)
  BY DEF RunsAfterPrev
<1>1. ArrivalsDiffer'
  BY DEF ArrivalsDiffer
<1>2. PrevIsEarlier'
  BY DEF PrevIsEarlier
<1>3. RunsAfterPrev'
  BY DEF RunsAfterPrev, PrevResolved
<1>4. PrevIsAdjacent'
  BY DEF PrevIsAdjacent, PrevResolved
<1>5. HeadIsOldest'
  <2> SUFFICES ASSUME NEW u \in Task, NEW w \in Task,
                      Active(u)', Active(w)', PrevResolved(u)', KeyOf[u] = KeyOf[w]
               PROVE  arrival[u] <= arrival[w]
    BY DEF HeadIsOldest
  <2>1. Active(u) /\ Active(w) /\ u # t /\ w # t
    OBVIOUS
  <2>2. CASE PrevResolved(u)
    BY <2>1, <2>2 DEF HeadIsOldest
  <2>3. CASE ~PrevResolved(u)
    <3>1. prev[u] = t
      BY <2>1, <2>3 DEF PrevResolved
    <3>2. KeyOf[t] = KeyOf[w]
      BY <2>1, <3>1 DEF PrevIsEarlier
    <3>3. arrival[t] < arrival[w]
      BY <1>0, <2>1, <3>2 DEF HeadIsOldest, ArrivalsDiffer
    <3> QED
      BY <2>1, <2>3, <3>1, <3>3 DEF PrevIsAdjacent
  <2> QED
    BY <2>2, <2>3
<1>6. TailIsNewest'
  <2>1. ASSUME NEW w \in Task, Active(w), w # t, tails[KeyOf[t]] = t
        PROVE  KeyOf[w] # KeyOf[t]
    BY <1>0, <2>1 DEF TailIsNewest, HeadIsOldest, ArrivalsDiffer
  <2> QED
    BY <2>1 DEF TailIsNewest
<1> QED
  BY <1>1, <1>2, <1>3, <1>4, <1>5, <1>6

\* The chain invariant holds in every state of the specification.
THEOREM ChainInvariant == MutexSpec => []ChainInv
<1> USE MutexAssumption
<1>1. MutexInit => ChainInv
  BY DEF MutexInit, ChainInv, MutexTypeOK, Phase, Active, ArrivalsDiffer, PrevIsEarlier,
         RunsAfterPrev, PrevIsAdjacent, HeadIsOldest, TailIsNewest
<1>2. ChainInv /\ MutexTypeOK' /\ [MutexNext]_mutexVars => ChainInv'
  <2> SUFFICES ASSUME ChainInv, MutexTypeOK', [MutexNext]_mutexVars PROVE ChainInv'
    OBVIOUS
  <2>1. CASE MutexNext
    BY <2>1, CallPreserves, RunPreserves, SettlePreserves, DrainPreserves DEF MutexNext
  <2>2. CASE UNCHANGED mutexVars
    BY <2>2 DEF mutexVars, ChainInv, MutexTypeOK, Active, PrevResolved, ArrivalsDiffer,
         PrevIsEarlier, RunsAfterPrev, PrevIsAdjacent, HeadIsOldest, TailIsNewest
  <2> QED
    BY <2>1, <2>2
<1> QED
  BY <1>1, <1>2, MutexTypeCorrect, PTL DEF MutexSpec

\* Operations on one channel never overlap, for any number of calls and keys.
THEOREM MutexHolds == MutexSpec => []MutualExclusion
<1>1. ChainInv => MutualExclusion
  BY MutexAssumption DEF ChainInv, MutualExclusion, Active, MutexTypeOK,
     RunsAfterPrev, HeadIsOldest, ArrivalsDiffer
<1> QED
  BY <1>1, ChainInvariant, PTL

\* Operations on one channel start in the order in which they were called.
THEOREM OrderHolds == MutexSpec => StartsInCallOrder
<1> DEFINE InOrder ==
       \A t, u \in Task :
        (/\ KeyOf[t] = KeyOf[u]
         /\ Active(u)
         /\ phase[t] = "queued" /\ phase'[t] = "running")
            => arrival[t] <= arrival[u]
<1>1. ChainInv /\ [MutexNext]_mutexVars => [InOrder]_mutexVars
  <2> SUFFICES ASSUME ChainInv, MutexNext,
                      NEW t \in Task, NEW u \in Task, KeyOf[t] = KeyOf[u], Active(u),
                      phase[t] = "queued", phase'[t] = "running"
               PROVE  arrival[t] <= arrival[u]
    OBVIOUS
  <2>1. PrevResolved(t)
    BY DEF MutexNext, Call, Run, Settle, Drain, ChainInv, MutexTypeOK
  <2> QED
    BY <2>1 DEF ChainInv, HeadIsOldest, Active
<1> QED
  BY <1>1, ChainInvariant, PTL DEF MutexSpec, StartsInCallOrder

-----------------------------------------------------------------------------
(* The chain implements the lock.  Each step of a call is a step of the     *)
(* lock, or, when the operation settles, none.                              *)

LEMMA RunAcquires ==
    ASSUME ChainInv, NEW t \in Task, Run(t)
    PROVE  Lock!Acquire(t)
<1> USE MutexAssumption DEF ChainInv, MutexTypeOK, Phase, Run, Active, Ahead
<1>1. Ahead(t) = {}
  BY DEF HeadIsOldest, PrevResolved
<1> QED
  BY <1>1 DEF Lock!Acquire

LEMMA SettleStutters ==
    ASSUME ChainInv, NEW t \in Task, Settle(t)
    PROVE  UNCHANGED Lock!lockVars
BY DEF ChainInv, MutexTypeOK, Phase, Settle, Active, Ahead, Lock!lockVars

LEMMA CallEnqueues ==
    ASSUME ChainInv, NEW t \in Task, Call(t)
    PROVE  Lock!Enqueue(t)
<1> DEFINE pending == {u \in Task : Active(u)}
           ahead == [u \in Task |-> IF Active(u) THEN Ahead(u) ELSE {}]
<1> USE DEF ChainInv, MutexTypeOK, Phase, Call, Active
<1>1. t \notin pending /\ pending' = pending \cup {t}
  OBVIOUS
<1>2. UNCHANGED {u \in Task : phase[u] \in {"running", "settled"}}
  OBVIOUS
<1>3. ASSUME NEW u \in Task, u # t PROVE ahead'[u] = ahead[u]
  <2>1. Active(u)' = Active(u)
    BY <1>3
  <2>2. ASSUME Active(u) PROVE Ahead(u)' = Ahead(u)
    BY <1>3, <2>2 DEF Ahead, ArrivalsDiffer
  <2> QED
    BY <2>1, <2>2
<1>4. ahead'[t] = {u \in pending : KeyOf[u] = KeyOf[t]}
  <2>1. Active(t)' /\ ahead'[t] = Ahead(t)'
    OBVIOUS
  <2>2. Ahead(t)' = {u \in pending : KeyOf[u] = KeyOf[t]}
    BY DEF Ahead, ArrivalsDiffer
  <2> QED
    BY <2>1, <2>2
<1>5. ahead' = [ahead EXCEPT ![t] = {u \in pending : KeyOf[u] = KeyOf[t]}]
  BY <1>3, <1>4
<1> QED
  BY <1>1, <1>2, <1>5 DEF Lock!Enqueue

LEMMA DrainReleases ==
    ASSUME ChainInv, NEW t \in Task, Drain(t)
    PROVE  Lock!Release(t)
<1> DEFINE ahead == [u \in Task |-> IF Active(u) THEN Ahead(u) ELSE {}]
           holding == {u \in Task : phase[u] \in {"running", "settled"}}
<1> USE MutexAssumption DEF ChainInv, MutexTypeOK, Phase, Drain, Active
<1>1. t \in holding /\ holding' = holding \ {t}
  OBVIOUS
<1>2. {u \in Task : Active(u)}' = {u \in Task : Active(u)} \ {t}
  OBVIOUS
<1>3. ASSUME NEW u \in Task PROVE ahead'[u] = ahead[u] \ {t}
  <2>1. CASE u = t
    <3>1. Ahead(t) = {}
      BY DEF Ahead, RunsAfterPrev, HeadIsOldest
    <3> QED
      BY <2>1, <3>1
  <2>2. CASE u # t
    <3>1. Active(u)' = Active(u)
      BY <2>2
    <3>2. Ahead(u)' = Ahead(u) \ {t}
      BY <2>2 DEF Ahead
    <3> QED
      BY <3>1, <3>2
  <2> QED
    BY <2>1, <2>2
<1>4. ahead' = [u \in Task |-> ahead[u] \ {t}]
  BY <1>3
<1> QED
  BY <1>1, <1>2, <1>4 DEF Lock!Release

\* The chain of promises implements the abstract lock: every step of it is a
\* step of the lock or changes nothing the lock knows of.
THEOREM LockImplemented == MutexSpec => Lock!LockSafety
<1>1. MutexInit => Lock!LockInit
  BY DEF MutexInit, Lock!LockInit, Active
<1>2. ChainInv /\ [MutexNext]_mutexVars => [Lock!LockNext]_(Lock!lockVars)
  <2> SUFFICES ASSUME ChainInv, [MutexNext]_mutexVars
               PROVE  [Lock!LockNext]_(Lock!lockVars)
    OBVIOUS
  <2>1. CASE MutexNext
    BY <2>1, CallEnqueues, RunAcquires, SettleStutters, DrainReleases
       DEF MutexNext, Lock!LockNext
  <2>2. CASE UNCHANGED mutexVars
    BY <2>2 DEF mutexVars, Active, Ahead, Lock!lockVars
  <2> QED
    BY <2>1, <2>2
<1> QED
  BY <1>1, <1>2, ChainInvariant, PTL DEF MutexSpec, Lock!LockSafety
=============================================================================
