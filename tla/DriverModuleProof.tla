------------------------- MODULE DriverModuleProof -------------------------
(***************************************************************************)
(* Proofs about loading and unloading the three kernel modules, for any    *)
(* number of processes and of loads and any size of the buffer.  What a    *)
(* module has in some state follows from its place in the tables of the    *)
(* steps of loading and unloading, and from the order of these steps that  *)
(* it has whatever its entries work on.                                    *)
(***************************************************************************)
EXTENDS DriverModule, TLAPS

(* The steps of the module that is modelled, up and down.                  *)
Up == LoadSteps[module]
Down == UnloadSteps[module]

(* What the first k steps of loading have obtained, what the first k of    *)
(* unloading have given back, and whether loading has been at step s.      *)
Obtained(k) == {s \in Things : \E i \in 1..k : Up[i] = s}
Dropped(k) == {Down[i] : i \in 1..k}
Passed(s) ==
  /\ state # "out"
  /\ \E i \in 1..Len(Up) : Up[i] = s /\ (state = "loading" => i < step)

(* What the module has follows from how far it has come.                   *)
HasAsPlaced ==
  /\ state = "out" => has = {} /\ files = 0 /\ step = 1
  /\ state = "loading" =>
       /\ step \in 1..Len(Up)
       /\ has = Obtained(step - 1)
       /\ Up[step] = "files" => files < Files
       /\ files > 0 => \E i \in 1..step : Up[i] = "files"
  /\ state = "live" => has = Obtained(Len(Up)) /\ step = 1
  /\ state = "unloading" =>
       /\ step \in 1..Len(Down)
       /\ has = Obtained(Len(Up)) \ Dropped(step - 1)
       /\ files > 0 => "files" \notin Dropped(step - 1)

(* So do the variables behind the sysfs files; the base is set before the  *)
(* size, and both stay until the next insmod.                              *)
BufferAsPlaced ==
  /\ buffer_size # 0 => buffer_base_virt = Buffer
  /\ Passed("base") => buffer_base_virt = Buffer
  /\ Passed("size") => buffer_size = Size

(* Who is in the module: the handler only while the interrupt is           *)
(* registered; a process only from the first device to rmmod, unless a     *)
(* failed load has left it with a file of a module that is gone; and a     *)
(* call that has seen the size has seen the base.                          *)
UsersAsPlaced ==
  /\ handling => "irq" \in has
  /\ Orphans = {} => \A p \in Process :
       /\ file[p] # "none" \/ mapped[p] =>
            "device" \in has /\ state \in {"loading", "live"}
       /\ call[p].active => file[p] # "none"
  /\ \A p \in Process : call[p].active => call[p].base = Buffer \/ call[p].early

(* What a failed load has left registered this load cannot register.       *)
LeftBehind ==
  /\ stale \cap has = {}
  /\ stale \subseteq Obtained(Len(Up))

(* What has been touched.                                                  *)
AccessesKept ==
  /\ touched.end <= Size
  /\ touched.base = Buffer \/ touched.early

(* The inductive invariant.                                                *)
DriverInv ==
  /\ TypeOK
  /\ HasAsPlaced /\ BufferAsPlaced /\ UsersAsPlaced /\ LeftBehind
  /\ FailedLoads /\ AccessesKept

-----------------------------------------------------------------------------

(* Loading is at a before it is at b; unloading at a only after b.         *)
Before(m, a, b) ==
  \A i \in 1..Len(LoadSteps[m]) :
    LoadSteps[m][i] = b => \E j \in 1..(i - 1) : LoadSteps[m][j] = a

DroppedAfter(m, a, b) ==
  \A i \in 1..Len(UnloadSteps[m]) :
    UnloadSteps[m][i] = a => \E j \in 1..(i - 1) : UnloadSteps[m][j] = b

(* The two tables, step by step.                                           *)
LEMMA StepTables ==
  /\ DOMAIN LoadSteps = {"data_mover", "amp_sim", "irq"}
  /\ LET l == LoadSteps["data_mover"]  u == UnloadSteps["data_mover"]
     IN /\ Len(l) = 7 /\ Len(u) = 5
        /\ l[1] = "buffer" /\ l[2] = "device" /\ l[3] = "cache_device"
        /\ l[4] = "base" /\ l[5] = "size" /\ l[6] = "driver" /\ l[7] = "files"
        /\ u[1] = "device" /\ u[2] = "cache_device" /\ u[3] = "files"
        /\ u[4] = "driver" /\ u[5] = "buffer"
  /\ LET l == LoadSteps["amp_sim"]  u == UnloadSteps["amp_sim"]
     IN /\ Len(l) = 6 /\ Len(u) = 4
        /\ l[1] = "buffer" /\ l[2] = "device" /\ l[3] = "base" /\ l[4] = "size"
        /\ l[5] = "driver" /\ l[6] = "files"
        /\ u[1] = "device" /\ u[2] = "files" /\ u[3] = "driver" /\ u[4] = "buffer"
  /\ LET l == LoadSteps["irq"]  u == UnloadSteps["irq"]
     IN /\ Len(l) = 7 /\ Len(u) = 6
        /\ l[1] = "map" /\ l[2] = "fpga" /\ l[3] = "device" /\ l[4] = "driver"
        /\ l[5] = "files" /\ l[6] = "irq" /\ l[7] = "timer"
        /\ u[1] = "timer" /\ u[2] = "irq" /\ u[3] = "device" /\ u[4] = "files"
        /\ u[5] = "driver" /\ u[6] = "map"
  BY DEF LoadSteps, UnloadSteps

(* What the entries of module m work on.                                   *)
BackingOf(m) == IF m = "irq" THEN "map" ELSE "buffer"

(* What has to be in order in the two tables of steps.                     *)
Ordered(m) ==
  LET l == LoadSteps[m]  u == UnloadSteps[m]
  IN
  /\ Len(l) \in 1..7 /\ Len(u) \in 1..6
  /\ \A d \in {"device", "cache_device", "driver", "files", "irq", "timer"} :
       Before(m, BackingOf(m), d)
  /\ \A d \in {"cache_device", "driver", "files", "irq", "timer"} :
       Before(m, "device", d)
  /\ Before(m, "driver", "files") /\ Before(m, "irq", "timer")
  /\ m # "irq" => Before(m, "base", "size") /\ Before(m, "base", "files")
                  /\ Before(m, "size", "files")
  /\ \A i \in 1..Len(l) : /\ l[i] \in {"irq", "timer"} => m = "irq"
                          /\ l[i] \in {"base", "size"} => m # "irq"
  /\ \A i, j \in 1..Len(l) : l[i] = l[j] => i = j
  /\ \A i, k \in 1..Len(l) : i < k /\ l[i] = "irq" => l[k] = "timer"
  /\ \A i \in 1..Len(l) : l[i] \in Things => \E j \in 1..Len(u) : u[j] = l[i]
  /\ \A d \in {"device", "cache_device", "irq", "timer"} :
       (\E i \in 1..Len(l) : l[i] = d) => DroppedAfter(m, BackingOf(m), d)
  /\ (\E i \in 1..Len(l) : l[i] = "timer") => DroppedAfter(m, "irq", "timer")
  /\ DroppedAfter(m, "driver", "files") /\ DroppedAfter(m, BackingOf(m), "files")
  /\ \E i \in 1..Len(l) : l[i] = "files"
  /\ \E i \in 1..Len(u) : u[i] = "files"

(* The steps whose failure leaves a registration behind ...                *)
FailuresLeave(m) ==
  LET l == LoadSteps[m]
  IN \A k \in 1..Len(l) : l[k] \in MayFail =>
       (l[k] \in {"cache_device", "files", "irq"}
          <=> \E i \in 1..(k - 1) : l[i] \in Registrations \ Undone(m, l[k]))

(* ... and those that fail when a device can already have been opened.     *)
FailuresOpen(m) ==
  LET l == LoadSteps[m]
  IN \A k \in 1..Len(l) : l[k] \in MayFail /\ (\E i \in 1..(k - 1) : l[i] = "device")
        => l[k] \in {"cache_device", "driver", "files", "irq"}

(* All three modules are in order.                                         *)
LEMMA StepOrder ==
  ASSUME NEW m \in DOMAIN LoadSteps
  PROVE  Ordered(m) /\ FailuresLeave(m) /\ FailuresOpen(m)
<1> USE DEF Ordered, DroppedAfter, FailuresLeave, FailuresOpen, Before,
    BackingOf, Things, Registrations, Devices, MayFail, Undone
<1>1. CASE m = "data_mover"
  <2> DEFINE l == LoadSteps["data_mover"]  u == UnloadSteps["data_mover"]
  <2>1. /\ Len(l) = 7 /\ Len(u) = 5
        /\ l[1] = "buffer" /\ l[2] = "device" /\ l[3] = "cache_device" /\ l[4] = "base"
        /\ l[5] = "size" /\ l[6] = "driver" /\ l[7] = "files"
        /\ u[1] = "device" /\ u[2] = "cache_device" /\ u[3] = "files" /\ u[4] = "driver"
        /\ u[5] = "buffer"
    BY StepTables
  <2> HIDE DEF l, u
  <2>2. /\ \A i \in 1..7 : i = 1 \/ i = 2 \/ i = 3 \/ i = 4 \/ i = 5 \/ i = 6 \/ i = 7
        /\ \A i \in 1..5 : i = 1 \/ i = 2 \/ i = 3 \/ i = 4 \/ i = 5
    OBVIOUS
  <2> QED
    BY <1>1, <2>1, <2>2 DEF l, u
<1>2. CASE m = "amp_sim"
  <2> DEFINE l == LoadSteps["amp_sim"]  u == UnloadSteps["amp_sim"]
  <2>1. /\ Len(l) = 6 /\ Len(u) = 4
        /\ l[1] = "buffer" /\ l[2] = "device" /\ l[3] = "base" /\ l[4] = "size"
        /\ l[5] = "driver" /\ l[6] = "files"
        /\ u[1] = "device" /\ u[2] = "files" /\ u[3] = "driver" /\ u[4] = "buffer"
    BY StepTables
  <2> HIDE DEF l, u
  <2>2. /\ \A i \in 1..6 : i = 1 \/ i = 2 \/ i = 3 \/ i = 4 \/ i = 5 \/ i = 6
        /\ \A i \in 1..4 : i = 1 \/ i = 2 \/ i = 3 \/ i = 4
    OBVIOUS
  <2> QED
    BY <1>2, <2>1, <2>2 DEF l, u
<1>3. CASE m = "irq"
  <2> DEFINE l == LoadSteps["irq"]  u == UnloadSteps["irq"]
  <2>1. /\ Len(l) = 7 /\ Len(u) = 6
        /\ l[1] = "map" /\ l[2] = "fpga" /\ l[3] = "device" /\ l[4] = "driver"
        /\ l[5] = "files" /\ l[6] = "irq" /\ l[7] = "timer"
        /\ u[1] = "timer" /\ u[2] = "irq" /\ u[3] = "device" /\ u[4] = "files"
        /\ u[5] = "driver" /\ u[6] = "map"
    BY StepTables
  <2> HIDE DEF l, u
  <2>2. /\ \A i \in 1..7 : i = 1 \/ i = 2 \/ i = 3 \/ i = 4 \/ i = 5 \/ i = 6 \/ i = 7
        /\ \A i \in 1..6 : i = 1 \/ i = 2 \/ i = 3 \/ i = 4 \/ i = 5 \/ i = 6
    OBVIOUS
  <2> QED
    BY <1>3, <2>1, <2>2 DEF l, u
<1> QED
  BY <1>1, <1>2, <1>3, StepTables

-----------------------------------------------------------------------------

(* The order, for the module that is modelled.                             *)
LEMMA Placed ==
  ASSUME DriverInv
  PROVE  /\ module \in DOMAIN LoadSteps /\ Ordered(module)
         /\ FailuresLeave(module) /\ FailuresOpen(module)
         /\ Backing = BackingOf(module)
         /\ Up = LoadSteps[module] /\ Down = UnloadSteps[module]
  BY StepOrder DEF DriverInv, TypeOK, Up, Down, Backing, BackingOf

(* Nothing is loaded and nobody is there.                                  *)
LEMMA DriverInit == Init => DriverInv
<1> SUFFICES ASSUME Init PROVE DriverInv
  OBVIOUS
<1>1. TypeOK
  <2>1. NoCall \in [base : {Null, Buffer}, early : BOOLEAN, active : BOOLEAN]
    BY DEF NoCall
  <2>2. call \in [Process -> [base : {Null, Buffer}, early : BOOLEAN,
                             active : BOOLEAN]]
    BY <2>1 DEF Init
  <2>3. 0 \in 0..Size /\ 0 \in 0..Files /\ 0 \in 0..MaxLoads
    BY DriverAssumption
  <2>4. /\ file \in [Process -> Devices \cup {"none", "orphan"}]
        /\ f_pos \in [Process -> 0..Size] /\ mapped \in [Process -> BOOLEAN]
    BY <2>3 DEF Init
  <2>5. /\ module \in DOMAIN LoadSteps /\ state = "out" /\ step = 1 /\ has = {}
        /\ files = 0 /\ stale = {} /\ buffer_base_virt = Null
        /\ buffer_size = 0 /\ ~handling /\ handling \in BOOLEAN
        /\ loads = 0 /\ failed = {}
    BY DEF Init
  <2> QED
    BY <2>2, <2>3, <2>4, <2>5 DEF TypeOK
<1>2. HasAsPlaced /\ BufferAsPlaced /\ UsersAsPlaced /\ LeftBehind
  BY DEF Init, HasAsPlaced, BufferAsPlaced, UsersAsPlaced, LeftBehind, Passed, NoCall
<1>3. FailedLoads /\ AccessesKept
  BY DriverAssumption DEF Init, FailedLoads, AccessesKept, Botched, Orphans
<1> QED
  BY <1>1, <1>2, <1>3 DEF DriverInv

(* A module has at most seven steps.                                       *)
LEMMA StepBounds ==
  ASSUME DriverInv
  PROVE  /\ NextLoadStep /\ state = "loading"
              => step' \in 1..8 /\ state' \in {"loading", "live"}
         /\ state = "unloading" => step + 1 \in 1..8
<1>1. /\ Len(Up) \in 1..7 /\ Len(Down) \in 1..6
      /\ Up = LoadSteps[module] /\ Down = UnloadSteps[module]
  BY Placed DEF Ordered
<1>2. /\ state = "loading" => step \in 1..Len(Up)
      /\ state = "unloading" => step \in 1..Len(Down)
  BY DEF HasAsPlaced, DriverInv
<1> DEFINE m == Len(Up)  n == Len(Down)
<1>3. /\ m \in 1..7 /\ n \in 1..6
      /\ state = "loading" => step \in 1..m
      /\ state = "unloading" => step \in 1..n
  BY <1>1, <1>2
<1>4. NextLoadStep /\ state = "loading"
        => step' = 1 \/ step' = step + 1
  BY DEF NextLoadStep
<1>5. NextLoadStep => state' \in {state, "live"}
  BY DEF NextLoadStep
<1> HIDE DEF m, n
<1> QED
  BY <1>3, <1>4, <1>5

(* Every step keeps the types: positions stay in the buffer, whatever is   *)
(* asked for, and no more files are created than there are.                *)
LEMMA DriverTypeNext ==
  ASSUME DriverInv, [Next]_vars PROVE TypeOK'
<1> USE DriverAssumption DEF DriverInv, TypeOK
<1>0. Ordered(module) /\ Up = LoadSteps[module] /\ Down = UnloadSteps[module]
  BY Placed
<1>a. NextLoadStep /\ state = "loading" => step' \in 1..8 /\ state' \in {"loading", "live"}
  BY StepBounds
<1>b. state = "unloading" => step + 1 \in 1..8
  BY StepBounds
<1>c. Loading("files") => files + 1 \in 0..Files
  BY <1>0 DEF HasAsPlaced, Loading
<1>1. CASE Insmod
  BY <1>1 DEF Insmod, user, Null
<1>2. CASE \E s \in Things : LoadGets(s)
  BY <1>a, <1>c, <1>2 DEF LoadGets, Loading, user, sysfs_vars
<1>3. CASE LoadFindsFpga
  BY <1>a, <1>c, <1>3 DEF LoadFindsFpga, Loading, user, sysfs_vars
<1>4. CASE LoadSetsBase
  BY <1>a, <1>c, <1>4 DEF LoadSetsBase, Loading, user, sysfs_vars
<1>5. CASE LoadSetsSize
  BY <1>a, <1>c, <1>5 DEF LoadSetsSize, Loading, user, sysfs_vars
<1>6. CASE LoadCreatesFile
  BY <1>a, <1>c, <1>6 DEF LoadCreatesFile, Loading, load, user, sysfs_vars
<1>7. CASE \E s \in MayFail : LoadFails(s)
  BY <1>7 DEF LoadFails, user, sysfs_vars, Registrations
<1>8. CASE Rmmod
  BY <1>8 DEF Rmmod, user, sysfs_vars
<1>9. CASE \E s \in Things \cup {"files"} : UnloadDrops(s)
  BY <1>b, <1>9 DEF UnloadDrops, user, sysfs_vars
<1>10. CASE HandlerStarts \/ HandlerEnds
  BY <1>10 DEF HandlerStarts, HandlerEnds, user, load, sysfs_vars
<1>11. CASE SysfsWord
  BY <1>11 DEF SysfsWord, user, load, sysfs_vars
<1>12. ASSUME NEW p \in Process, User(p) PROVE TypeOK'
  <2>1. CASE \E d \in Devices : Open(p, d)
    BY <2>1 DEF Open, load, sysfs_vars, Devices
  <2>2. CASE Close(p)
    BY <2>2 DEF Close, load, sysfs_vars
  <2>3. CASE CallStarts(p)
    BY <2>3 DEF CallStarts, load, sysfs_vars
  <2>4. CASE CallEnds(p)
    BY <2>4 DEF CallEnds, ActualCount, load, sysfs_vars, NoCall, Null
  <2>5. CASE Llseek(p)
    BY <2>5 DEF Llseek, load, sysfs_vars
  <2>6. CASE Mmap(p) \/ Munmap(p)
    BY <2>6 DEF Mmap, Munmap, load, sysfs_vars
  <2> QED
    BY <1>12, <2>1, <2>2, <2>3, <2>4, <2>5, <2>6 DEF User
<1>13. CASE UNCHANGED vars
  BY <1>13 DEF vars, user, load, sysfs_vars
<1> QED
  BY <1>1, <1>2, <1>3, <1>4, <1>5, <1>6, <1>7, <1>8, <1>9, <1>10, <1>11, <1>12,
     <1>13 DEF Next, Load, Unload

(* Only insmod and rmmod change what the module has.                       *)
LEMMA LoadOrNot ==
  ASSUME [Next]_vars
  PROVE  \/ Load \/ Unload
         \/ UNCHANGED <<module, load>>
<1>1. ASSUME NEW p \in Process, User(p) PROVE UNCHANGED <<module, load>>
  BY <1>1 DEF User, Open, Close, CallStarts, CallEnds, Llseek, Mmap, Munmap
<1>2. HandlerStarts \/ HandlerEnds \/ SysfsWord \/ UNCHANGED vars => UNCHANGED <<module, load>>
  BY DEF HandlerStarts, HandlerEnds, SysfsWord, vars
<1> QED
  BY <1>1, <1>2 DEF Next

(* A step of loading that adds what it is for ...                          *)
LEMMA NextStepPlaced ==
  ASSUME DriverInv, state = "loading", NextLoadStep, UNCHANGED module,
         has' = has \cup ({Up[step]} \cap Things),
         files' = files \/ (Up[step] = "files" /\ files' = files + 1)
  PROVE  HasAsPlaced'
<1> DEFINE n == Len(Up)
<1>1. /\ n \in 1..7 /\ step \in 1..n /\ has = Obtained(step - 1)
      /\ files > 0 => \E i \in 1..step : Up[i] = "files"
      /\ files \in Nat
  BY Placed DEF Ordered, HasAsPlaced, DriverInv, TypeOK
<1>2. \A i, j \in 1..n : Up[i] = Up[j] => i = j
  BY Placed DEF Ordered
<1>3. Up' = Up /\ \A k : Obtained(k)' = {s \in Things : \E i \in 1..k' : Up[i] = s}
  BY DEF Up, Obtained
<1>4. /\ step < n => step' = step + 1 /\ state' = "loading"
      /\ step >= n => step' = 1 /\ state' = "live"
  BY <1>1 DEF NextLoadStep, Up
<1> HIDE DEF n
<1>5. has' = Obtained(step)
  BY <1>1 DEF Obtained
<1>6. Files > 0
  BY DriverAssumption
<1>7. files' > 0 => \E i \in 1..step : Up[i] = "files"
  BY <1>1
<1>8. CASE step < n
  <2>1. step' = step + 1 /\ state' = "loading" /\ step' \in 1..n /\ step' - 1 = step
    BY <1>1, <1>4, <1>8
  <2>2. Up[step'] = "files" => files' = 0
    <3> SUFFICES ASSUME Up[step'] = "files", files' # 0 PROVE FALSE
      OBVIOUS
    <3>1. files' > 0
      BY <1>1
    <3>2. PICK i \in 1..step : Up[i] = "files"
      BY <1>7, <3>1
    <3> QED
      BY <1>1, <1>2, <2>1, <3>2
  <2>3. has' = Obtained(step - 1)'
    BY <1>3, <1>5, <2>1 DEF Obtained
  <2>4. files' > 0 => \E i \in 1..step' : Up[i] = "files"
    BY <1>1, <1>7, <2>1
  <2> QED
    BY <1>3, <1>6, <2>1, <2>2, <2>3, <2>4 DEF HasAsPlaced, n
<1>9. CASE step >= n
  <2>1. step = n /\ step' = 1 /\ state' = "live"
    BY <1>1, <1>4, <1>9
  <2>2. has' = Obtained(Len(Up))'
    BY <1>3, <1>5, <2>1 DEF Obtained, n
  <2> QED
    BY <2>1, <2>2 DEF HasAsPlaced
<1> QED
  BY <1>1, <1>8, <1>9

(* ... and one of unloading that takes it away keep to the tables.         *)
LEMMA DropPlaced ==
  ASSUME DriverInv, NEW s, UnloadDrops(s) PROVE HasAsPlaced'
<1> DEFINE n == Len(Down)
<1>1. /\ n \in 1..6 /\ step \in 1..n /\ state = "unloading" /\ Down[step] = s
      /\ has = Obtained(Len(Up)) \ Dropped(step - 1)
      /\ files > 0 => "files" \notin Dropped(step - 1)
      /\ files \in Nat
  BY Placed DEF Ordered, HasAsPlaced, DriverInv, TypeOK, UnloadDrops
<1>2. Up' = Up /\ Down' = Down
  BY DEF Up, Down, UnloadDrops
<1>3. /\ has' = has \ {s} /\ files' = IF s = "files" THEN 0 ELSE files
      /\ step < n => step' = step + 1 /\ state' = "unloading"
      /\ step >= n => step' = 1 /\ state' = "out"
  BY <1>1 DEF UnloadDrops, Down
<1>4. /\ \A i \in 1..Len(Up) : Up[i] \in Things => \E j \in 1..n : Down[j] = Up[i]
      /\ \E i \in 1..n : Down[i] = "files"
  BY Placed DEF Ordered
<1> HIDE DEF n
<1>5. Dropped(step) = Dropped(step - 1) \cup {s}
  BY <1>1 DEF Dropped
<1>6. has' = Obtained(Len(Up)) \ Dropped(step) /\ (files' > 0 => "files" \notin Dropped(step))
  BY <1>1, <1>3, <1>5
<1>7. CASE step < n
  <2>1. step' = step + 1 /\ state' = "unloading" /\ step' \in 1..n /\ step' - 1 = step
    BY <1>1, <1>3, <1>7
  <2>2. Dropped(step - 1)' = Dropped(step) /\ Obtained(Len(Up))' = Obtained(Len(Up))
    BY <1>2, <2>1 DEF Dropped, Obtained
  <2> QED
    BY <1>2, <1>6, <2>1, <2>2 DEF HasAsPlaced, n
<1>8. CASE step >= n
  <2>1. step = n /\ step' = 1 /\ state' = "out"
    BY <1>1, <1>3, <1>8
  <2>2. Obtained(Len(Up)) \subseteq Dropped(n) /\ "files" \in Dropped(n)
    BY <1>4 DEF Obtained, Dropped
  <2>3. has' = {} /\ files' = 0
    BY <1>1, <1>3, <1>6, <2>1, <2>2
  <2> QED
    BY <2>1, <2>3 DEF HasAsPlaced
<1> QED
  BY <1>1, <1>7, <1>8

(* What the module has goes on following from how far it has come.         *)
LEMMA HasNext ==
  ASSUME DriverInv, [Next]_vars PROVE HasAsPlaced'
<1>0. /\ Up = LoadSteps[module] /\ Ordered(module) /\ 1 \in 1..Len(Up) /\ 1 \in 1..Len(Down)
  <2> DEFINE m == Len(Up)  n == Len(Down)
  <2>1. m \in 1..7 /\ n \in 1..6
    BY Placed DEF Ordered
  <2> HIDE DEF m, n
  <2>2. 1 \in 1..m /\ 1 \in 1..n
    BY <2>1
  <2> QED
    BY <2>2, Placed DEF m, n
<1>1. CASE Insmod
  <2>1. has' = {} /\ files' = 0 /\ step' = 1 /\ state' = "loading" /\ Up' = Up
    BY <1>1 DEF Insmod, DriverInv, HasAsPlaced, Up
  <2>2. Obtained(step - 1)' = {}
    BY <2>1 DEF Obtained
  <2> QED
    <3>1. step' \in 1..Len(Up') /\ files' < Files /\ ~(files' > 0)
      BY <1>0, <2>1, DriverAssumption
    <3> QED
      BY <2>1, <2>2, <3>1 DEF HasAsPlaced
<1>2. CASE \E s \in Things : LoadGets(s)
  BY <1>0, <1>2, NextStepPlaced DEF LoadGets, Loading
<1>3. CASE LoadFindsFpga \/ LoadSetsBase \/ LoadSetsSize
  <2>1. state = "loading" /\ UNCHANGED <<module, has, files>> /\ NextLoadStep
        /\ Up[step] \notin Things
    BY <1>0, <1>3 DEF LoadFindsFpga, LoadSetsBase, LoadSetsSize, Loading,
       Things, Registrations, Devices
  <2> QED
    BY <2>1, NextStepPlaced
<1>4. CASE LoadCreatesFile
  <2>1. state = "loading" /\ UNCHANGED <<module, has>> /\ Up[step] = "files"
        /\ Up[step] \notin Things /\ files' = files + 1
    BY <1>0, <1>4 DEF LoadCreatesFile, Loading, Things, Registrations, Devices
  <2>2. CASE files' < Files
    <3>1. UNCHANGED <<state, step>> /\ step \in 1..Len(Up) /\ has = Obtained(step - 1)
      BY <1>4, <2>1, <2>2 DEF LoadCreatesFile, DriverInv, HasAsPlaced
    <3>2. Up' = Up /\ Obtained(step - 1)' = Obtained(step - 1)
      BY <2>1, <3>1 DEF Up, Obtained
    <3>3. step \in 1..step
      BY <1>0, <3>1
    <3> QED
      BY <2>1, <2>2, <3>1, <3>2, <3>3 DEF HasAsPlaced
  <2>3. CASE ~(files' < Files)
    BY <1>4, <2>1, <2>3, NextStepPlaced DEF LoadCreatesFile
  <2> QED
    BY <2>2, <2>3
<1>5. CASE \E s \in MayFail : LoadFails(s)
  BY <1>5 DEF LoadFails, HasAsPlaced
<1>6. CASE Rmmod
  <2>1. has' = Obtained(Len(Up)) /\ step' = 1 /\ state' = "unloading" /\ Up' = Up /\ Down' = Down
    BY <1>6 DEF Rmmod, DriverInv, HasAsPlaced, Up, Down
  <2>2. Dropped(step - 1)' = {} /\ Obtained(Len(Up))' = Obtained(Len(Up))
    BY <2>1 DEF Dropped, Obtained
  <2> QED
    <3>1. step' \in 1..Len(Down')
      BY <1>0, <2>1
    <3> QED
      BY <2>1, <2>2, <3>1 DEF HasAsPlaced
<1>7. CASE \E s \in Things \cup {"files"} : UnloadDrops(s)
  BY <1>7, DropPlaced
<1>8. CASE UNCHANGED <<module, load>>
  <2>1. UNCHANGED <<module, state, step, has, files>>
    BY <1>8 DEF load
  <2> QED
    BY <2>1 DEF DriverInv, HasAsPlaced, Obtained, Dropped, Up, Down
<1> QED
  BY <1>1, <1>2, <1>3, <1>4, <1>5, <1>6, <1>7, <1>8, LoadOrNot DEF Load, Unload

(* Only its own step makes base or size set.                               *)
LEMMA PassedNext ==
  ASSUME DriverInv, [Next]_vars, NEW s \in {"base", "size"}, Passed(s)'
  PROVE  \/ Passed(s)
         \/ s = "base" /\ LoadSetsBase
         \/ s = "size" /\ LoadSetsSize
<1>0. Up = LoadSteps[module] /\ UNCHANGED module /\ Up' = Up
  BY Placed DEF Next, vars, Load, Unload, LoadGets, LoadFindsFpga, LoadSetsBase,
     LoadSetsSize, LoadCreatesFile, LoadFails, Insmod, Rmmod, UnloadDrops,
     HandlerStarts, HandlerEnds, SysfsWord, User, Open, Close, CallStarts,
     CallEnds, Llseek, Mmap, Munmap, Up
<1>1. PICK i \in 1..Len(Up) : Up[i] = s /\ (state' = "loading" => i < step')
  BY <1>0 DEF Passed
<1>2. state' # "out"
  BY DEF Passed
<1>3. state = "loading" => step \in 1..Len(Up)
  BY DEF DriverInv, HasAsPlaced
<1>4. CASE state = "loading" /\ NextLoadStep /\ ~Loading(s)
  <2>1. Len(Up) \in 1..7
    BY Placed DEF Ordered
  <2>2. step < Len(Up) => step' = step + 1 /\ state' = "loading"
    BY <1>0, <1>4 DEF NextLoadStep
  <2>3. i <= step
    BY <1>1, <1>3, <1>4, <2>1, <2>2
  <2>4. i # step
    BY <1>0, <1>1, <1>4 DEF Loading
  <2>5. i < step
    BY <1>1, <1>3, <1>4, <2>1, <2>3, <2>4
  <2> QED
    BY <1>1, <1>4, <2>5 DEF Passed
<1>5. CASE Insmod
  BY <1>1, <1>5 DEF Insmod
<1>6. CASE UNCHANGED <<state, step>>
  BY <1>1, <1>2, <1>6 DEF Passed
<1>7. CASE state \in {"live", "unloading"}
  BY <1>1, <1>7 DEF Passed
<1> QED
  <2>1. CASE Load
    <3>1. CASE \E t \in Things : LoadGets(t)
      BY <1>4, <3>1 DEF LoadGets, Loading, Things, Registrations, Devices
    <3>2. CASE \E t \in MayFail : LoadFails(t)
      BY <1>2, <3>2 DEF LoadFails
    <3>3. CASE LoadFindsFpga \/ LoadSetsBase \/ LoadSetsSize
      BY <1>4, <3>3 DEF LoadFindsFpga, LoadSetsBase, LoadSetsSize, Loading
    <3>4. CASE LoadCreatesFile
      BY <1>4, <1>6, <3>4 DEF LoadCreatesFile, Loading
    <3> QED
      BY <1>5, <2>1, <3>1, <3>2, <3>3, <3>4 DEF Load
  <2>2. CASE Unload
    BY <1>7, <2>2 DEF Unload, Rmmod, UnloadDrops
  <2> QED
    BY <1>6, <2>1, <2>2, LoadOrNot DEF load

(* The two variables stay as placed.                                       *)
LEMMA BufferNext ==
  ASSUME DriverInv, [Next]_vars PROVE BufferAsPlaced'
<1> USE DEF DriverInv
<1>1. CASE Insmod
  <2>1. state' = "loading" /\ step' = 1 /\ buffer_base_virt' = Null /\ buffer_size' = 0
    BY <1>1 DEF Insmod
  <2>2. \A s : ~Passed(s)'
    BY <2>1 DEF Passed
  <2> QED
    BY <2>1, <2>2 DEF BufferAsPlaced
<1>2. CASE LoadSetsBase
  <2>1. ~LoadSetsSize
    BY <1>2 DEF LoadSetsBase, LoadSetsSize, Loading
  <2> QED
    BY <1>2, <2>1, PassedNext DEF LoadSetsBase, BufferAsPlaced
<1>3. CASE LoadSetsSize
  <2>1. Loading("size") /\ ~Loading("base") /\ buffer_size' = Size /\ UNCHANGED buffer_base_virt
    BY <1>3 DEF LoadSetsSize, Loading
  <2>2. step \in 1..Len(Up) /\ Up[step] = "size" /\ Up = LoadSteps[module]
    BY <2>1, Placed DEF Loading, HasAsPlaced
  <2>3. module # "irq"
    BY <2>2, Placed DEF Ordered
  <2>4. Before(module, "base", "size")
    BY <2>3, Placed DEF Ordered
  <2>5. PICK j \in 1..(step - 1) : Up[j] = "base"
    BY <2>2, <2>4 DEF Before
  <2>6. Passed("base")
    BY <2>1, <2>2, <2>5, Placed DEF Passed, Loading, Ordered
  <2> QED
    BY <2>1, <2>6 DEF BufferAsPlaced
<1>4. CASE ~Insmod /\ ~LoadSetsBase /\ ~LoadSetsSize
  <2>1. UNCHANGED sysfs_vars
    BY <1>4, LoadOrNot DEF Load, Unload, load, LoadGets, LoadFindsFpga,
       LoadCreatesFile, LoadFails, Rmmod, UnloadDrops, sysfs_vars
  <2>2. Passed("base")' => Passed("base")
    BY <1>4, PassedNext
  <2>3. Passed("size")' => Passed("size")
    BY <1>4, PassedNext
  <2> QED
    BY <1>4, <2>1, <2>2, <2>3 DEF BufferAsPlaced, sysfs_vars
<1> QED
  BY <1>1, <1>2, <1>3, <1>4

(* If a comes before b and goes after b, whoever finds b finds a.          *)
LEMMA HasOrder ==
  ASSUME DriverInv, NEW a \in Things, NEW b \in has, Before(module, a, b),
         (\E i \in 1..Len(LoadSteps[module]) : LoadSteps[module][i] = b)
           => DroppedAfter(module, a, b)
  PROVE  a \in has
<1>0. /\ Up = LoadSteps[module] /\ Down = UnloadSteps[module]
      /\ Len(Up) \in 1..7 /\ Len(Down) \in 1..6
  BY Placed DEF Ordered
<1>1. \A k \in 0..7 : k <= Len(Up) /\ b \in Obtained(k) => a \in Obtained(k)
  <2> SUFFICES ASSUME NEW k \in 0..7, k <= Len(Up), b \in Obtained(k)
               PROVE  a \in Obtained(k)
    OBVIOUS
  <2>1. PICK i \in 1..k : Up[i] = b
    BY DEF Obtained
  <2>2. PICK j \in 1..(i - 1) : Up[j] = a
    <3>1. i \in 1..Len(Up)
      BY <1>0, <2>1
    <3> QED
      BY <1>0, <2>1, <3>1 DEF Before
  <2>3. j \in 1..k
    BY <2>1, <2>2
  <2> QED
    BY <2>2, <2>3 DEF Obtained
<1>2. DriverInv /\ HasAsPlaced /\ state \in {"out", "loading", "live", "unloading"}
  BY DEF DriverInv, TypeOK
<1>3. CASE state = "loading"
  <2>1. step \in 1..Len(Up) /\ has = Obtained(step - 1)
    BY <1>2, <1>3 DEF HasAsPlaced
  <2>2. step - 1 \in 0..7 /\ step - 1 <= Len(Up)
    <3> DEFINE n == Len(Up)
    <3>1. n \in 1..7 /\ step \in 1..n
      BY <1>0, <2>1
    <3> HIDE DEF n
    <3>2. step - 1 \in 0..7 /\ step - 1 <= n
      BY <3>1
    <3> QED
      BY <3>2 DEF n
  <2> QED
    BY <1>1, <2>1, <2>2
<1>4. Len(Up) \in 0..7 /\ Len(Up) <= Len(Up)
  BY <1>0
<1>5. CASE state = "live"
  BY <1>1, <1>2, <1>4, <1>5 DEF HasAsPlaced
<1>6. CASE state = "unloading"
  <2>1. has = Obtained(Len(Up)) \ Dropped(step - 1) /\ step \in 1..Len(Down)
    BY <1>2, <1>6 DEF HasAsPlaced
  <2>2. a \in Obtained(Len(Up))
    BY <1>1, <1>4, <2>1
  <2>3. DroppedAfter(module, a, b)
    BY <1>0, <2>1 DEF Obtained
  <2>4. ASSUME a \in Dropped(step - 1) PROVE FALSE
    <3>1. PICK i \in 1..(step - 1) : Down[i] = a
      BY <2>4 DEF Dropped
    <3>2. i \in 1..Len(Down)
      BY <1>0, <2>1, <3>1
    <3>3. PICK j \in 1..(i - 1) : Down[j] = b
      BY <1>0, <2>3, <3>1, <3>2 DEF DroppedAfter
    <3>4. j \in 1..(step - 1)
      BY <1>0, <2>1, <3>1, <3>3
    <3> QED
      BY <2>1, <3>3, <3>4 DEF Dropped
  <2> QED
    BY <2>1, <2>2, <2>4
<1>7. state # "out"
  BY <1>2 DEF HasAsPlaced
<1> QED
  BY <1>2, <1>3, <1>5, <1>6, <1>7

(* The pairs for which that is so.                                         *)
LEMMA Backed ==
  ASSUME DriverInv
  PROVE  /\ has \cap {"device", "cache_device", "irq", "timer"} # {} => Backing \in has
         /\ "timer" \in has => "irq" \in has
         /\ "irq" \in has => "map" \in has
         /\ "cache_device" \in has /\ state \in {"loading", "live"} => "device" \in has
<1>0. Ordered(module) /\ Backing = BackingOf(module) /\ Up = LoadSteps[module]
  BY Placed
<1>1. ASSUME NEW d \in {"device", "cache_device", "irq", "timer"}, d \in has
      PROVE  Backing \in has
  <2>1. Backing \in Things
    BY DEF Backing, Things
  <2>2. Before(module, Backing, d)
    BY <1>0 DEF Ordered
  <2>3. (\E i \in 1..Len(LoadSteps[module]) : LoadSteps[module][i] = d)
           => DroppedAfter(module, Backing, d)
    BY <1>0 DEF Ordered
  <2> QED
    BY <1>1, <2>1, <2>2, <2>3, HasOrder
<1>2. ASSUME "timer" \in has PROVE "irq" \in has
  <2>1. "irq" \in Things /\ Before(module, "irq", "timer")
    BY <1>0 DEF Ordered, Things, Registrations
  <2>2. (\E i \in 1..Len(LoadSteps[module]) : LoadSteps[module][i] = "timer")
           => DroppedAfter(module, "irq", "timer")
    BY <1>0 DEF Ordered
  <2> QED
    BY <1>2, <2>1, <2>2, HasOrder
<1>3. ASSUME NEW d \in has PROVE \E i \in 1..Len(Up) : Up[i] = d
  <2>1. \/ d \in Obtained(Len(Up))
        \/ d \in Obtained(step - 1) /\ step \in 1..Len(Up)
    <3>1. state \in {"out", "loading", "live", "unloading"} /\ HasAsPlaced
      BY DEF DriverInv, TypeOK
    <3> QED
      BY <1>3, <3>1 DEF HasAsPlaced
  <2>2. CASE d \in Obtained(Len(Up))
    BY <2>2 DEF Obtained
  <2>3. CASE d \in Obtained(step - 1) /\ step \in 1..Len(Up)
    <3>1. PICK i \in 1..(step - 1) : Up[i] = d
      BY <2>3 DEF Obtained
    <3>2. Len(Up) \in 1..7
      BY <1>0 DEF Ordered
    <3>3. i \in 1..Len(Up)
      BY <2>3, <3>1, <3>2
    <3> QED
      BY <3>1, <3>3
  <2> QED
    BY <2>1, <2>2, <2>3
<1>4. ASSUME "irq" \in has PROVE "map" \in has
  <2>1. module = "irq"
    BY <1>0, <1>3, <1>4 DEF Ordered
  <2> QED
    BY <1>1, <1>4, <2>1 DEF Backing
<1>5. ASSUME "cache_device" \in has, state \in {"loading", "live"} PROVE "device" \in has
  <2>1. Before(module, "device", "cache_device")
    BY <1>0 DEF Ordered
  <2>2. Len(Up) \in 1..7
    BY <1>0 DEF Ordered
  <2>3. PICK k \in 0..7 : k <= Len(Up) /\ has = Obtained(k)
    <3> DEFINE n == Len(Up)
    <3>1. n \in 1..7 /\ (state = "live" => has = Obtained(n))
      BY <2>2 DEF DriverInv, HasAsPlaced
    <3>2. state = "loading" => step \in 1..n /\ has = Obtained(step - 1)
      BY DEF DriverInv, HasAsPlaced
    <3> HIDE DEF n
    <3>3. \E k \in 0..7 : k <= n /\ has = Obtained(k)
      <4>1. CASE state = "live"
        BY <3>1, <4>1
      <4>2. CASE state = "loading"
        <5>1. step - 1 \in 0..7 /\ step - 1 <= n
          BY <3>1, <3>2, <4>2
        <5> QED
          BY <3>2, <4>2, <5>1
      <4> QED
        BY <1>5, <4>1, <4>2
    <3> QED
      BY <3>3 DEF n
  <2>4. PICK i \in 1..k : Up[i] = "cache_device"
    BY <1>5, <2>3 DEF Obtained
  <2>5. i \in 1..Len(Up)
    BY <2>2, <2>3, <2>4
  <2>6. PICK j \in 1..(i - 1) : Up[j] = "device"
    BY <1>0, <2>1, <2>4, <2>5 DEF Before
  <2>7. j \in 1..k
    BY <2>3, <2>4, <2>6
  <2> QED
    BY <2>3, <2>6, <2>7 DEF Obtained, Things, Registrations, Devices
<1> QED
  BY <1>1, <1>2, <1>4, <1>5

(* A load takes nothing away, a failed one turns everybody who is there    *)
(* into an orphan, rmmod waits until nobody is there, and the interrupt is *)
(* not given back while its handler runs.                                  *)
LEMMA UsersNext ==
  ASSUME DriverInv, [Next]_vars PROVE UsersAsPlaced'
<1>0. /\ TypeOK /\ UsersAsPlaced /\ HasAsPlaced /\ BufferAsPlaced
      /\ Up = LoadSteps[module] /\ Down = UnloadSteps[module]
  BY Placed DEF DriverInv
<1>a. "cache_device" \in has /\ state \in {"loading", "live"} => "device" \in has
  BY Backed
<1>b. \A p \in Process : call[p].active => call[p].base = Buffer \/ call[p].early
  BY <1>0 DEF UsersAsPlaced
<1>1. CASE Load /\ ~\E s \in MayFail : LoadFails(s)
  <2>1. has \subseteq has' /\ UNCHANGED <<file, mapped, call, handling>>
        /\ (state' \in {"loading", "live"}) /\ state \in {"out", "loading"}
    BY <1>0, <1>1 DEF Load, Insmod, LoadGets, LoadFindsFpga, LoadSetsBase, LoadSetsSize,
       LoadCreatesFile, NextLoadStep, Loading, user, HasAsPlaced
  <2> QED
    BY <1>0, <2>1 DEF UsersAsPlaced, Orphans
<1>2. CASE \E s \in MayFail : LoadFails(s)
  <2>1. PICK s \in MayFail : LoadFails(s)
    BY <1>2
  <2>2. ~handling
    <3> SUFFICES ASSUME handling PROVE FALSE
      OBVIOUS
    <3>1. "irq" \in Obtained(step - 1) /\ step \in 1..Len(Up) /\ Up[step] \in MayFail
      BY <1>0, <2>1 DEF LoadFails, Loading, UsersAsPlaced, HasAsPlaced
    <3>2. PICK i \in 1..(step - 1) : Up[i] = "irq"
      BY <3>1 DEF Obtained
    <3>3. i \in 1..Len(Up) /\ i < step
      <4> DEFINE n == Len(Up)
      <4>1. n \in 1..7 /\ step \in 1..n
        BY <3>1, Placed DEF Ordered
      <4> HIDE DEF n
      <4>2. i \in 1..n /\ i < step
        BY <3>2, <4>1
      <4> QED
        BY <4>2 DEF n
    <3>4. Up[step] = "timer"
      BY <1>0, <3>1, <3>2, <3>3, Placed DEF Ordered
    <3> QED
      BY <3>1, <3>4 DEF MayFail, Registrations, Devices
  <2>3. UNCHANGED <<mapped, call, handling>> /\ file' = [p \in Process |->
       IF file[p] = "none" /\ ~mapped[p] THEN "none" ELSE "orphan"]
    BY <2>1 DEF LoadFails
  <2>4. ASSUME Orphans' = {} PROVE \A p \in Process : file[p] = "none" /\ ~mapped[p]
    BY <2>3, <2>4 DEF Orphans
  <2>5. ASSUME Orphans' = {} PROVE Orphans = {}
    BY <2>4, <2>5 DEF Orphans
  <2>6. Orphans' = {} => \A p \in Process :
          file'[p] = "none" /\ ~mapped'[p] /\ ~call'[p].active
    BY <1>0, <2>3, <2>4, <2>5 DEF UsersAsPlaced
  <2> QED
    BY <1>b, <2>2, <2>3, <2>6 DEF UsersAsPlaced
<1>3. CASE Unload
  <2>1. UNCHANGED <<file, mapped, call, handling>>
    BY <1>3 DEF Unload, Rmmod, UnloadDrops, user
  <2>2. handling => "irq" \in has'
    BY <1>0, <1>3 DEF Unload, Rmmod, UnloadDrops, UsersAsPlaced
  <2>3. ASSUME Orphans = {}, NEW p \in Process PROVE file[p] = "none" /\ ~mapped[p]
    BY <1>0, <1>3, <2>3 DEF Unload, Rmmod, UnloadDrops, UsersAsPlaced
  <2> QED
    BY <1>0, <2>1, <2>2, <2>3 DEF UsersAsPlaced, Orphans
<1>4. CASE HandlerStarts \/ HandlerEnds \/ SysfsWord \/ UNCHANGED vars
  <2>1. UNCHANGED <<module, state, has, file, mapped, call>> /\ (handling' => "irq" \in has)
    BY <1>0, <1>4 DEF HandlerStarts, HandlerEnds, SysfsWord, vars, user, load, UsersAsPlaced
  <2> QED
    BY <1>0, <2>1 DEF UsersAsPlaced, Orphans
<1>5. ASSUME NEW p \in Process, User(p) PROVE UsersAsPlaced'
  <2>0. UNCHANGED <<state, has, handling, buffer_size, buffer_base_virt>>
    BY <1>5 DEF User, Open, Close, CallStarts, CallEnds, Llseek, Mmap, Munmap, load, sysfs_vars
  <2> USE <1>0, <2>0 DEF UsersAsPlaced, Orphans, TypeOK
  <2>1. CASE \E d \in Devices : Open(p, d)
    BY <1>a, <2>1 DEF Open, Devices
  <2>2. CASE Close(p)
    BY <2>2 DEF Close, Devices
  <2>3. CASE CallStarts(p)
    <3>1. call' = [call EXCEPT ![p] = [base |-> buffer_base_virt,
                       early |-> buffer_size = 0, active |-> TRUE]]
          /\ UNCHANGED <<file, mapped>> /\ file[p] = "device"
      BY <2>3 DEF CallStarts
    <3>2. buffer_base_virt = Buffer \/ buffer_size = 0
      BY DEF BufferAsPlaced
    <3>3. \A q \in Process : call'[q].active => call'[q].base = Buffer \/ call'[q].early
      BY <3>1, <3>2
    <3>4. \A q \in Process : call'[q].active => call[q].active \/ q = p
      BY <3>1
    <3> QED
      BY <3>1, <3>3, <3>4
  <2>4. CASE CallEnds(p)
    <3>1. call' = [call EXCEPT ![p] = NoCall] /\ UNCHANGED <<file, mapped>>
      BY <2>4 DEF CallEnds
    <3>2. \A q \in Process : call'[q] = call[q] \/ ~call'[q].active
      BY <3>1 DEF NoCall
    <3> QED
      BY <3>1, <3>2
  <2>5. CASE Llseek(p)
    BY <2>5 DEF Llseek
  <2>6. CASE Mmap(p)
    BY <2>6 DEF Mmap, Devices
  <2>7. CASE Munmap(p)
    BY <2>7 DEF Munmap
  <2> QED
    BY <1>5, <2>1, <2>2, <2>3, <2>4, <2>5, <2>6, <2>7 DEF User
<1> QED
  BY <1>1, <1>2, <1>3, <1>4, <1>5 DEF Next

(* A load that fails leaves a registration exactly at the steps of         *)
(* Botched; no later load gets past that name.                             *)
LEMMA LeftNext ==
  ASSUME DriverInv, [Next]_vars PROVE LeftBehind' /\ FailedLoads'
<1>0. /\ LeftBehind /\ HasAsPlaced /\ FailedLoads /\ TypeOK /\ UsersAsPlaced
      /\ Up = LoadSteps[module] /\ Ordered(module) /\ FailuresLeave(module) /\ FailuresOpen(module)
  BY Placed DEF DriverInv
<1>1. UNCHANGED module /\ Up' = Up /\ Obtained(Len(Up))' = Obtained(Len(Up))
  BY LoadOrNot DEF Load, Unload, LoadGets, LoadFindsFpga, LoadSetsBase,
     LoadSetsSize, LoadCreatesFile, LoadFails, Insmod, Rmmod, UnloadDrops, Up, Obtained
<1>2. CASE \E s \in MayFail : LoadFails(s)
  <2>1. PICK s \in MayFail : LoadFails(s)
    BY <1>2
  <2>2. /\ stale' = stale \cup ((has \ Undone(module, s)) \cap Registrations)
        /\ has' = {} /\ failed' = failed \cup {s} /\ state' = "out"
        /\ step \in 1..Len(Up) /\ has = Obtained(step - 1) /\ Up[step] = s
        /\ UNCHANGED mapped
        /\ file' = [p \in Process |->
             IF file[p] = "none" /\ ~mapped[p] THEN "none" ELSE "orphan"]
    BY <1>0, <2>1 DEF LoadFails, Loading, HasAsPlaced
  <2>3. Obtained(step - 1) \subseteq Obtained(Len(Up))
    <3> DEFINE n == Len(Up)
    <3>1. n \in 1..7 /\ step \in 1..n
      BY <1>0, <2>2 DEF Ordered
    <3> HIDE DEF n
    <3>2. \A i \in 1..(step - 1) : i \in 1..n
      BY <3>1
    <3> QED
      BY <3>2 DEF Obtained, n
  <2>4. LeftBehind'
    BY <1>0, <1>1, <2>2, <2>3 DEF LeftBehind
  <2>5. s \in {"cache_device", "files", "irq"}
          <=> (has \ Undone(module, s)) \cap Registrations # {}
    <3>1. s \in {"cache_device", "files", "irq"}
          <=> \E i \in 1..(step - 1) : Up[i] \in Registrations \ Undone(module, s)
      BY <1>0, <2>1, <2>2 DEF FailuresLeave
    <3>2. (has \ Undone(module, s)) \cap Registrations # {}
          <=> \E i \in 1..(step - 1) : Up[i] \in Registrations \ Undone(module, s)
      BY <2>2 DEF Obtained, Things
    <3> QED
      BY <3>1, <3>2
  <2>6. stale' # {} <=> Botched'
    BY <1>0, <2>2, <2>5 DEF FailedLoads, Botched
  <2>7. Orphans' # {} => Botched' \/ "driver" \in failed'
    <3>1. CASE Orphans # {}
      BY <1>0, <2>2, <3>1 DEF FailedLoads, Botched
    <3>2. CASE Orphans = {} /\ \E p \in Process : file[p] # "none" \/ mapped[p]
      <4>1. "device" \in has
        BY <1>0, <3>2 DEF UsersAsPlaced
      <4>2. \E i \in 1..(step - 1) : Up[i] = "device"
        BY <2>2, <4>1 DEF Obtained
      <4>3. s \in {"cache_device", "driver", "files", "irq"}
        BY <1>0, <2>1, <2>2, <4>2 DEF FailuresOpen
      <4> QED
        BY <2>2, <4>3 DEF Botched
    <3>3. CASE \A p \in Process : file[p] = "none" /\ ~mapped[p]
      BY <2>2, <3>3 DEF Orphans
    <3> QED
      BY <3>1, <3>2, <3>3
  <2> QED
    BY <2>2, <2>4, <2>6, <2>7 DEF FailedLoads
<1>3. CASE ~\E s \in MayFail : LoadFails(s)
  <2>1. UNCHANGED <<stale, failed>>
    BY <1>3, LoadOrNot DEF Load, Unload, LoadGets, LoadFindsFpga, LoadSetsBase,
       LoadSetsSize, LoadCreatesFile, Insmod, Rmmod, UnloadDrops, load
  <2>2. stale \cap has' = {}
    BY <1>0, <1>3, LoadOrNot DEF Load, Unload, LoadGets, LoadFindsFpga, LoadSetsBase,
       LoadSetsSize, LoadCreatesFile, Insmod, Rmmod, UnloadDrops, load, LeftBehind
  <2>3. LeftBehind'
    BY <1>0, <1>1, <2>1, <2>2 DEF LeftBehind
  <2>4. Orphans' = Orphans
    <3>1. CASE UNCHANGED file
      BY <3>1 DEF Orphans
    <3>2. ASSUME NEW p \in Process, (\E d \in Devices : Open(p, d)) \/ Close(p)
          PROVE  Orphans' = Orphans
      <4>1. PICK d \in Devices \cup {"none"} :
              file' = [file EXCEPT ![p] = d] /\ file[p] # "orphan"
        BY <3>2 DEF Open, Close, Devices
      <4> QED
        BY <1>0, <4>1 DEF Orphans, TypeOK, Devices
    <3> QED
      BY <1>3, <3>1, <3>2 DEF Next, vars, Load, Unload, LoadGets, LoadFindsFpga, LoadSetsBase,
         LoadSetsSize, LoadCreatesFile, Insmod, Rmmod, UnloadDrops, user,
         HandlerStarts, HandlerEnds, SysfsWord, User, CallStarts, CallEnds, Llseek,
         Mmap, Munmap
  <2>5. Botched => state' \notin {"live", "unloading"}
    <3> SUFFICES ASSUME Botched, state' \in {"live", "unloading"} PROVE FALSE
      OBVIOUS
    <3>1. stale # {} /\ state \notin {"live", "unloading"}
      BY <1>0 DEF FailedLoads
    <3>2. state' = "live"
      BY <3>1, LoadOrNot DEF Load, Unload, LoadGets, LoadFindsFpga, LoadSetsBase,
         LoadSetsSize, LoadCreatesFile, Insmod, Rmmod, UnloadDrops, load, NextLoadStep,
         LoadFails
    <3>3. has' = Obtained(Len(Up))
      BY <1>1, <3>2, HasNext DEF HasAsPlaced
    <3> QED
      BY <1>0, <2>2, <3>1, <3>3 DEF LeftBehind
  <2> QED
    BY <1>0, <2>1, <2>3, <2>4, <2>5 DEF FailedLoads, Botched
<1> QED
  BY <1>2, <1>3

(* A sysfs file comes last and goes before what it works on.               *)
LEMMA FilesBacked ==
  ASSUME DriverInv, files > 0
  PROVE  /\ {"driver", Backing} \subseteq has
         /\ module = "irq" \/ (buffer_base_virt = Buffer /\ buffer_size = Size)
<1>0. /\ HasAsPlaced /\ BufferAsPlaced /\ Ordered(module)
      /\ Up = LoadSteps[module] /\ Down = UnloadSteps[module] /\ Backing = BackingOf(module)
      /\ state \in {"out", "loading", "live", "unloading"}
  BY Placed DEF DriverInv, TypeOK
<1>1. state # "out"
  BY <1>0 DEF HasAsPlaced
<1>2. PICK i \in 1..Len(Up) : /\ Up[i] = "files"
                              /\ state = "loading" => i <= step /\ step \in 1..Len(Up)
  <2> DEFINE n == Len(Up)
  <2>1. n \in 1..7 /\ \E i \in 1..n : Up[i] = "files"
    BY <1>0 DEF Ordered
  <2>2. state = "loading" => step \in 1..n /\ \E i \in 1..step : Up[i] = "files"
    BY <1>0 DEF HasAsPlaced
  <2> HIDE DEF n
  <2>3. \E i \in 1..n : Up[i] = "files" /\ (state = "loading" => i <= step /\ step \in 1..n)
    BY <2>1, <2>2
  <2> QED
    BY <2>3 DEF n
<1>3. ASSUME NEW a, Before(module, a, "files")
      PROVE  \E j \in 1..Len(Up) : Up[j] = a /\ (state = "loading" => j < step)
  <2> DEFINE n == Len(Up)
  <2>1. PICK j \in 1..(i - 1) : Up[j] = a
    BY <1>0, <1>2, <1>3 DEF Before
  <2>2. n \in 1..7 /\ i \in 1..n /\ (state = "loading" => i <= step /\ step \in 1..n)
    BY <1>0, <1>2 DEF Ordered
  <2> HIDE DEF n
  <2>3. j \in 1..n /\ (state = "loading" => j < step)
    BY <2>1, <2>2
  <2> QED
    BY <2>1, <2>3 DEF n
<1>4. ASSUME NEW a \in Things, Before(module, a, "files"), DroppedAfter(module, a, "files")
      PROVE  a \in has
  <2>1. PICK j \in 1..Len(Up) : Up[j] = a /\ (state = "loading" => j < step)
    BY <1>3, <1>4
  <2>2. CASE state = "loading"
    <3>1. j \in 1..(step - 1)
      <4>1. j \in Nat /\ j >= 1 /\ step \in Nat /\ j < step
        <5> DEFINE n == Len(Up)
        <5>1. n \in 1..7 /\ j \in 1..n /\ step \in 1..n
          BY <1>0, <1>2, <2>1, <2>2 DEF Ordered
        <5> HIDE DEF n
        <5> QED
          BY <2>1, <2>2, <5>1
      <4> QED
        BY <4>1
    <3> QED
      BY <1>0, <2>1, <2>2, <3>1 DEF HasAsPlaced, Obtained
  <2>3. CASE state = "live"
    BY <1>0, <2>1, <2>3 DEF HasAsPlaced, Obtained
  <2>4. CASE state = "unloading"
    <3>1. /\ has = Obtained(Len(Up)) \ Dropped(step - 1) /\ step \in 1..Len(Down)
          /\ "files" \notin Dropped(step - 1)
      BY <1>0, <2>4 DEF HasAsPlaced
    <3>2. ASSUME a \in Dropped(step - 1) PROVE FALSE
      <4> DEFINE n == Len(Down)
      <4>1. n \in 1..6 /\ step \in 1..n
        BY <1>0, <3>1 DEF Ordered
      <4>2. \A m \in 1..n : Down[m] = a => \E k \in 1..(m - 1) : Down[k] = "files"
        BY <1>0, <1>4 DEF DroppedAfter
      <4> HIDE DEF n
      <4>3. PICK m \in 1..(step - 1) : Down[m] = a
        BY <3>2 DEF Dropped
      <4>4. m \in 1..n
        BY <4>1, <4>3
      <4>5. PICK k \in 1..(m - 1) : Down[k] = "files"
        BY <4>2, <4>3, <4>4
      <4>6. k \in 1..(step - 1)
        BY <4>1, <4>3, <4>5
      <4> QED
        BY <3>1, <4>5, <4>6 DEF Dropped
    <3> QED
      BY <2>1, <3>1, <3>2 DEF Obtained
  <2> QED
    BY <1>0, <1>1, <2>2, <2>3, <2>4
<1>5. "driver" \in has
  BY <1>0, <1>4 DEF Ordered, Things, Registrations
<1>6. Backing \in has
  <2>1. Backing \in Things
    BY DEF Backing, Things
  <2>2. Before(module, Backing, "files") /\ DroppedAfter(module, Backing, "files")
    BY <1>0 DEF Ordered
  <2> QED
    BY <1>4, <2>1, <2>2
<1>7. ASSUME module # "irq" PROVE buffer_base_virt = Buffer /\ buffer_size = Size
  <2>1. Before(module, "base", "files") /\ Before(module, "size", "files")
    BY <1>0, <1>7 DEF Ordered
  <2>2. Passed("base") /\ Passed("size")
    BY <1>1, <1>3, <2>1 DEF Passed
  <2> QED
    BY <1>0, <2>2 DEF BufferAsPlaced
<1> QED
  BY <1>5, <1>6, <1>7

(* An index that is taken modulo the size is below the size.               *)
LEMMA IndexBelow ==
  \A i \in Nat : \A n \in Nat \ {0} : i % n \in Nat /\ i % n < n
  BY SMT

(* No access is beyond the end of the buffer, or beside it.                *)
LEMMA CopiesNext ==
  ASSUME DriverInv, [Next]_vars PROVE AccessesKept'
<1>0. TypeOK /\ AccessesKept /\ UsersAsPlaced /\ Size \in Nat \ {0}
  BY DriverAssumption DEF DriverInv
<1>1. CASE SysfsWord
  <2>1. buffer_base_virt = Buffer /\ buffer_size = Size
    BY <1>1, FilesBacked DEF SysfsWord
  <2>2. PICK offset_index \in 0..(2 * Size) :
          touched' = [base |-> Buffer, end |-> (offset_index % Size) + 1, early |-> FALSE]
    BY <1>0, <1>1, <2>1 DEF SysfsWord
  <2>3. offset_index % Size \in Nat /\ offset_index % Size < Size
    BY <1>0, IndexBelow
  <2>4. (offset_index % Size) + 1 <= Size
    BY <1>0, <2>3
  <2> QED
    BY <2>2, <2>4 DEF AccessesKept
<1>2. ASSUME NEW p \in Process, CallEnds(p) PROVE AccessesKept'
  <2>1. CASE UNCHANGED touched
    BY <1>0, <2>1 DEF AccessesKept
  <2>2. CASE ~UNCHANGED touched
    <3>1. PICK count \in 1..(Size + 1) :
            touched' = [base |-> call[p].base, end |-> f_pos[p] + ActualCount(p, count),
                        early |-> call[p].early]
      BY <1>2, <2>2 DEF CallEnds
    <3>2. f_pos[p] < buffer_size /\ call[p].active
      BY <1>2, <2>2 DEF CallEnds
    <3>3. buffer_size \in Nat /\ buffer_size <= Size /\ f_pos[p] \in Nat
      BY <1>0 DEF TypeOK
    <3>4. f_pos[p] + ActualCount(p, count) <= Size
      BY <1>0, <3>2, <3>3 DEF ActualCount
    <3>5. call[p].base = Buffer \/ call[p].early
      BY <1>0, <3>2 DEF UsersAsPlaced
    <3> QED
      BY <3>1, <3>4, <3>5 DEF AccessesKept
  <2> QED
    BY <2>1, <2>2
<1>3. CASE UNCHANGED touched
  BY <1>0, <1>3 DEF AccessesKept
<1> QED
  BY <1>1, <1>2, <1>3 DEF Next, vars, Load, Unload, LoadGets, LoadFindsFpga,
     LoadSetsBase, LoadSetsSize, LoadCreatesFile, LoadFails, Insmod, Rmmod,
     UnloadDrops, HandlerStarts, HandlerEnds, User, Open, Close, CallStarts,
     Llseek, Mmap, Munmap

(* The invariant holds in every reachable state, for every number of       *)
(* processes, loads and sysfs files and every size of the buffer.          *)
THEOREM DriverInvariance == Spec => []DriverInv
<1>1. DriverInv /\ [Next]_vars => DriverInv'
  BY DriverTypeNext, HasNext, BufferNext, UsersNext, LeftNext, CopiesNext DEF DriverInv
<1> QED
  BY <1>1, DriverInit, PTL DEF Spec

(* Whoever can call a module finds it there, with its buffer or its        *)
(* registers, through every order of loading, unloading, failures, opens,  *)
(* mappings and interrupts.                                                *)
THEOREM AlwaysBacked == Spec => []EntriesBacked
<1>1. DriverInv => EntriesBacked
  <2> SUFFICES ASSUME DriverInv PROVE EntriesBacked
    OBVIOUS
  <2>0. TypeOK /\ HasAsPlaced /\ UsersAsPlaced
    BY DEF DriverInv
  <2>1. files > 0 => /\ {"driver", Backing} \subseteq has
                     /\ module = "irq" \/ (buffer_base_virt = Buffer /\ buffer_size = Size)
    BY FilesBacked
  <2>2. /\ has \cap Devices # {} => Backing \in has
        /\ handling \/ "irq" \in has => "map" \in has
        /\ "timer" \in has => "irq" \in has
    BY <2>0, Backed DEF UsersAsPlaced, Devices
  <2>3. Orphans = {} => \A p \in Process :
          /\ file[p] # "none" \/ mapped[p] => Backing \in has /\ state # "unloading"
          /\ call[p].active => file[p] # "none"
    BY <2>0, <2>2 DEF UsersAsPlaced, Devices
  <2>4. state = "out" => has = {} /\ files = 0 /\ ~handling
    BY <2>0 DEF HasAsPlaced, UsersAsPlaced
  <2> QED
    BY <2>0, <2>1, <2>2, <2>3, <2>4 DEF EntriesBacked
<1> QED
  BY <1>1, DriverInvariance, PTL

(* A failed load leaves something behind at the steps of Botched only,     *)
(* and a module that has left something behind never comes up again.       *)
THEOREM FailuresLeaveNothingElse == Spec => []FailedLoads
<1>1. DriverInv => FailedLoads
  BY DEF DriverInv
<1> QED
  BY <1>1, DriverInvariance, PTL

(* Once the module has been loaded, base and size are set: the two data    *)
(* modules pass both steps on their way up.                                *)
LEMMA LiveHasBuffer ==
  ASSUME DriverInv, state = "live", module # "irq"
  PROVE  buffer_base_virt = Buffer /\ buffer_size = Size
<1>1. BufferAsPlaced /\ module \in {"data_mover", "amp_sim"}
  BY StepTables DEF DriverInv, TypeOK
<1>2. /\ \E i \in 1..Len(Up) : Up[i] = "base"
      /\ \E i \in 1..Len(Up) : Up[i] = "size"
  <2>1. CASE module = "data_mover"
    <3>1. Len(Up) = 7 /\ Up[4] = "base" /\ Up[5] = "size"
      BY <2>1, StepTables DEF Up
    <3> QED
      BY <3>1
  <2>2. CASE module = "amp_sim"
    <3>1. Len(Up) = 6 /\ Up[3] = "base" /\ Up[4] = "size"
      BY <2>2, StepTables DEF Up
    <3> QED
      BY <3>1
  <2> QED
    BY <1>1, <2>1, <2>2
<1>3. Passed("base") /\ Passed("size")
  BY <1>2 DEF Passed
<1> QED
  BY <1>1, <1>3 DEF BufferAsPlaced

(* Reads, writes and sysfs never pass the end of the buffer, and touch     *)
(* nothing before it unless the call has begun before the size was set;    *)
(* no call does once the module has been loaded.                           *)
THEOREM AccessesInBuffer == Spec => []CopiesInBuffer
<1>1. DriverInv => CopiesInBuffer
  <2> SUFFICES ASSUME DriverInv PROVE CopiesInBuffer
    OBVIOUS
  <2>1. AccessesKept
    BY DEF DriverInv
  <2> QED
    BY <2>1, LiveHasBuffer DEF AccessesKept, CopiesInBuffer
<1> QED
  BY <1>1, DriverInvariance, PTL

=============================================================================
