---------------------------- MODULE DriverModule ----------------------------
(***************************************************************************)
(* The three kernel modules of linux_data_mover, data_mover_module,        *)
(* amp_sim_module and irq_module, from insmod to rmmod: what they register *)
(* and in which order, what they undo when a step fails, and the processes *)
(* and the interrupt that may come in between any two of these steps.      *)
(*                                                                         *)
(* data_mover_module and amp_sim_module show a kmalloc'ed buffer as a      *)
(* file: read, write, llseek, mmap, and a word at a time through sysfs.    *)
(* Buffer sizes and positions are in words.  irq_module maps registers,    *)
(* which its device and its interrupt handler read; what they do with them *)
(* is in IrqModule.                                                        *)
(*                                                                         *)
(* The kernel is modelled from what the modules rely on: a module with a   *)
(* file open or mapped cannot be unloaded and one that is being unloaded   *)
(* cannot be opened (.owner), free_irq() waits for the handler, and a name *)
(* that is registered cannot be registered again.  Nothing protects a      *)
(* module whose initialisation fails: it is freed whoever uses it.         *)
(***************************************************************************)
EXTENDS Integers, Sequences

CONSTANTS
  Process,
  Size,         \* KMALLOC_BUFFER_SIZE, in words
  Files,        \* sysfs files of the platform driver
  MaxLoads      \* bound on the number of insmods

ASSUME DriverAssumption ==
  Size \in Nat \ {0} /\ Files \in Nat \ {0} /\ MaxLoads \in Nat \ {0}

VARIABLES
  module,       \* which of the three it is
  state,        \* "out", "loading", "live" or "unloading"
  step,         \* the number of the step of loading or unloading
  has,          \* what this load of the module has
  files,        \* how many sysfs files it has
  buffer_base_virt, buffer_size,  \* of the_sysfs_vars_g
  stale,        \* registered by a load that has failed, and freed since
  file,         \* file[p]: the device that p has open, or "none" or "orphan"
  f_pos,        \* f_pos[p]
  mapped,       \* mapped[p]: p has the buffer in its address space
  call,         \* call[p]: p's read or write between its two steps
  handling,     \* the interrupt handler runs
  loads,        \* history: number of insmods
  failed,       \* history: steps at which a load has failed
  touched       \* history: the last access to the buffer

user == <<file, f_pos, mapped, call>>
sysfs_vars == <<buffer_base_virt, buffer_size>>
load == <<state, step, has, files, sysfs_vars, stale, loads, failed>>
vars == <<module, load, user, handling, touched>>

Null == 0            \* addresses: of the page at 0 and of the buffer
Buffer == 1
Devices == {"device", "cache_device"}
Registrations == Devices \cup {"driver", "irq"}
Things == Registrations \cup {"buffer", "map", "timer"}
NoCall == [base |-> Null, early |-> FALSE, active |-> FALSE]

-----------------------------------------------------------------------------
\* the size is set first
LoadStepsSizeFirst ==
  [data_mover |-> <<"buffer", "device", "cache_device", "size", "base",
                    "driver", "files">>,
   amp_sim    |-> <<"buffer", "device", "size", "base", "driver", "files">>,
   irq        |-> <<"map", "fpga", "device", "driver", "files", "irq", "timer">>]

(* the_module_init() and IRQ_module_init(): the steps that other parties   *)
(* can see or that can fail, in their order.                               *)
LoadSteps ==
  [data_mover |-> <<"buffer", "device", "cache_device", "base", "size",
                    "driver", "files">>,
   amp_sim    |-> <<"buffer", "device", "base", "size", "driver", "files">>,
   irq        |-> <<"map", "fpga", "device", "driver", "files", "irq", "timer">>]

MayFail == Registrations \cup {"buffer", "fpga", "files"}

\* the cached device is forgotten
UndoneButOne(m, s) ==
  CASE m # "irq" /\ s \in {"driver", "files"} -> {"device"}
    [] m = "irq" /\ s \in {"fpga", "device"} -> {"map"}
    [] m = "irq" /\ s \in {"driver", "files"} -> {"device", "map"}
    [] OTHER -> {}

(* What the modules undo themselves when step s fails. *)
Undone(m, s) ==
  CASE m # "irq" /\ s \in {"driver", "files"} -> Devices
    [] m = "irq" /\ s \in {"fpga", "device"} -> {"map"}
    [] m = "irq" /\ s \in {"driver", "files"} -> {"device", "map"}
    [] OTHER -> {}

\* the registers are unmapped before the interrupt is freed, the buffer is
\* freed before the devices are gone
UnloadStepsEarly ==
  [data_mover |-> <<"buffer", "device", "cache_device", "files", "driver">>,
   amp_sim    |-> <<"buffer", "device", "files", "driver">>,
   irq        |-> <<"timer", "map", "irq", "device", "files", "driver">>]

(* the_module_exit() and IRQ_module_exit() *)
UnloadSteps ==
  [data_mover |-> <<"device", "cache_device", "files", "driver", "buffer">>,
   amp_sim    |-> <<"device", "files", "driver", "buffer">>,
   irq        |-> <<"timer", "irq", "device", "files", "driver", "map">>]

TypeOK ==
  /\ module \in DOMAIN LoadSteps
  /\ state \in {"out", "loading", "live", "unloading"}
  /\ step \in 1..8
  /\ has \subseteq Things /\ stale \subseteq Registrations
  /\ files \in 0..Files
  /\ buffer_base_virt \in {Null, Buffer} /\ buffer_size \in {0, Size}
  /\ file \in [Process -> Devices \cup {"none", "orphan"}]
  /\ f_pos \in [Process -> 0..Size]
  /\ mapped \in [Process -> BOOLEAN] /\ handling \in BOOLEAN
  /\ call \in [Process -> [base : {Null, Buffer}, early : BOOLEAN,
                         active : BOOLEAN]]
  /\ loads \in 0..MaxLoads /\ failed \subseteq MayFail

Init ==
  /\ module \in DOMAIN LoadSteps
  /\ state = "out" /\ step = 1
  /\ has = {} /\ files = 0 /\ stale = {}
  /\ buffer_base_virt = Null /\ buffer_size = 0
  /\ file = [p \in Process |-> "none"]
  /\ f_pos = [p \in Process |-> 0]
  /\ mapped = [p \in Process |-> FALSE]
  /\ call = [p \in Process |-> NoCall]
  /\ handling = FALSE
  /\ loads = 0 /\ failed = {}
  /\ touched = [base |-> Buffer, end |-> 0, early |-> FALSE]

-----------------------------------------------------------------------------
(* insmod: the module's data are those of its image. *)
Insmod ==
  /\ state = "out" /\ loads < MaxLoads
  /\ state' = "loading" /\ step' = 1
  /\ buffer_base_virt' = Null /\ buffer_size' = 0
  /\ loads' = loads + 1
  /\ UNCHANGED <<module, has, files, stale, failed, user, handling, touched>>

Loading(s) == state = "loading" /\ LoadSteps[module][step] = s

NextLoadStep ==
  IF step < Len(LoadSteps[module]) THEN step' = step + 1 /\ UNCHANGED state
                                   ELSE step' = 1 /\ state' = "live"

LoadGets(s) ==
  /\ Loading(s)
  /\ s \in Things \ stale
  /\ has' = has \cup {s}
  /\ NextLoadStep
  /\ UNCHANGED <<module, files, sysfs_vars, stale, loads, failed, user,
                 handling, touched>>

LoadFindsFpga ==
  /\ Loading("fpga")
  /\ NextLoadStep
  /\ UNCHANGED <<module, has, files, sysfs_vars, stale, loads, failed, user,
                 handling, touched>>

LoadSetsBase ==
  /\ Loading("base")
  /\ buffer_base_virt' = Buffer
  /\ NextLoadStep
  /\ UNCHANGED <<module, has, files, buffer_size, stale, loads, failed, user,
                 handling, touched>>

LoadSetsSize ==
  /\ Loading("size")
  /\ buffer_size' = Size
  /\ NextLoadStep
  /\ UNCHANGED <<module, has, files, buffer_base_virt, stale, loads, failed,
                 user, handling, touched>>

LoadCreatesFile ==
  /\ Loading("files")
  /\ files' = files + 1
  /\ IF files' < Files THEN UNCHANGED <<state, step>> ELSE NextLoadStep
  /\ UNCHANGED <<module, has, sysfs_vars, stale, loads, failed, user, handling,
                 touched>>

(* A step fails, out of memory or because the name is taken.  The kernel   *)
(* frees the module; what it has not undone stays registered, or is lost.  *)
LoadFails(s) ==
  /\ Loading(s)
  /\ s \in MayFail
  /\ failed' = failed \cup {s}
  /\ stale' = stale \cup ((has \ Undone(module, s)) \cap Registrations)
  /\ has' = {} /\ files' = 0
  /\ state' = "out" /\ step' = 1
  /\ file' = [p \in Process |->
       IF file[p] = "none" /\ ~mapped[p] THEN "none" ELSE "orphan"]
  /\ UNCHANGED <<module, sysfs_vars, loads, f_pos, mapped, call, handling,
                 touched>>

\* .owner is not set
RmmodInUse ==
  /\ state = "live"
  /\ state' = "unloading" /\ step' = 1
  /\ UNCHANGED <<module, has, files, sysfs_vars, stale, loads, failed, user,
                 handling, touched>>

(* rmmod, which the kernel refuses as long as a file is open or mapped. *)
Rmmod ==
  /\ state = "live"
  /\ \A p \in Process : file[p] = "none" /\ ~mapped[p]
  /\ state' = "unloading" /\ step' = 1
  /\ UNCHANGED <<module, has, files, sysfs_vars, stale, loads, failed, user,
                 handling, touched>>

UnloadDrops(s) ==
  /\ state = "unloading" /\ UnloadSteps[module][step] = s
  /\ s = "irq" => ~handling
  /\ has' = has \ {s}
  /\ files' = IF s = "files" THEN 0 ELSE files
  /\ IF step < Len(UnloadSteps[module])
       THEN step' = step + 1 /\ UNCHANGED state
       ELSE step' = 1 /\ state' = "out"
  /\ UNCHANGED <<module, sysfs_vars, stale, loads, failed, user, handling, touched>>

-----------------------------------------------------------------------------
(* interrupt_handler(), from the timer's start to its stop. *)
HandlerStarts ==
  /\ {"timer", "irq"} \subseteq has /\ ~handling
  /\ handling' = TRUE
  /\ UNCHANGED <<module, load, user, touched>>

HandlerEnds ==
  /\ handling
  /\ handling' = FALSE
  /\ UNCHANGED <<module, load, user, touched>>

-----------------------------------------------------------------------------
(* Processes. *)
Open(p, d) ==
  /\ file[p] = "none" /\ d \in has /\ state \in {"loading", "live"}
  /\ file' = [file EXCEPT ![p] = d]
  /\ f_pos' = [f_pos EXCEPT ![p] = 0]
  /\ UNCHANGED <<module, load, mapped, call, handling, touched>>

Close(p) ==
  /\ file[p] \in Devices /\ ~call[p].active
  /\ file' = [file EXCEPT ![p] = "none"]
  /\ f_pos' = [f_pos EXCEPT ![p] = 0]
  /\ UNCHANGED <<module, load, mapped, call, handling, touched>>

(* A read or a write computes the address that it will use ...             *)
CallStarts(p) ==
  /\ file[p] = "device" /\ ~call[p].active
  /\ call' = [call EXCEPT ![p] = [base |-> buffer_base_virt,
                                  early |-> buffer_size = 0, active |-> TRUE]]
  /\ UNCHANGED <<module, load, file, f_pos, mapped, handling, touched>>

\* the count is not cut at the end of the buffer
ActualCountAll(p, count) == count

ActualCount(p, count) ==
  IF count + f_pos[p] > buffer_size THEN buffer_size - f_pos[p] ELSE count

(* ... then finds its file at the end (or, irq_module, has slept and reads *)
(* the registers), or cuts its count at the end and copies.                *)
CallEnds(p) ==
  /\ file[p] = "device" /\ call[p].active
  /\ call' = [call EXCEPT ![p] = NoCall]
  /\ \/ /\ module = "irq" \/ f_pos[p] >= buffer_size
        /\ UNCHANGED <<f_pos, touched>>
     \/ /\ module # "irq" /\ f_pos[p] < buffer_size
        /\ \E count \in 1..(Size + 1) :
             LET end == f_pos[p] + ActualCount(p, count)
             IN /\ touched' = [base |-> call[p].base, end |-> end,
                               early |-> call[p].early]
                /\ f_pos' \in {[f_pos EXCEPT ![p] = end], f_pos}
  /\ UNCHANGED <<module, load, file, mapped, handling>>

(* SEEK_SET and SEEK_CUR, cut at the end, and SEEK_END without offset. *)
Llseek(p) ==
  /\ module # "irq" /\ file[p] = "device" /\ ~call[p].active
  /\ \E pos_update \in {f_pos[p] + offset : offset \in -1..1}
                       \cup (0..(Size + 1)) \cup {buffer_size} :
       /\ pos_update >= 0
       /\ f_pos' = [f_pos EXCEPT
            ![p] = IF pos_update > buffer_size THEN buffer_size ELSE pos_update]
  /\ UNCHANGED <<module, load, file, mapped, call, handling, touched>>

(* data_mover_dev_mmap() and data_mover_cache_dev_mmap(): the whole buffer. *)
Mmap(p) ==
  /\ module # "irq" /\ file[p] \in Devices
  /\ buffer_size = Size
  /\ mapped' = [mapped EXCEPT ![p] = TRUE]
  /\ UNCHANGED <<module, load, file, f_pos, call, handling, touched>>

Munmap(p) ==
  /\ mapped[p] /\ file[p] # "orphan"
  /\ mapped' = [mapped EXCEPT ![p] = FALSE]
  /\ UNCHANGED <<module, load, file, f_pos, call, handling, touched>>

(* read_word_show() and write_word_store(): offset_index is what anybody   *)
(* has written to it, modulo the size.                                     *)
SysfsWord ==
  /\ module # "irq" /\ files > 0
  /\ \E offset_index \in 0..(2 * Size) :
       LET offset == IF buffer_size = 0 THEN offset_index
                                        ELSE offset_index % buffer_size
       IN touched' = [base |-> buffer_base_virt, end |-> offset + 1,
                      early |-> FALSE]
  /\ UNCHANGED <<module, load, user, handling>>

-----------------------------------------------------------------------------
Load == \/ Insmod \/ LoadFindsFpga \/ LoadSetsBase \/ LoadSetsSize
        \/ LoadCreatesFile
        \/ \E s \in Things : LoadGets(s)
        \/ \E s \in MayFail : LoadFails(s)

Unload == Rmmod \/ \E s \in Things \cup {"files"} : UnloadDrops(s)

User(p) == \/ \E d \in Devices : Open(p, d)
           \/ Close(p) \/ CallStarts(p) \/ CallEnds(p) \/ Llseek(p)
           \/ Mmap(p) \/ Munmap(p)

Next == \/ Load \/ Unload \/ HandlerStarts \/ HandlerEnds \/ SysfsWord
        \/ \E p \in Process : User(p)

Spec == Init /\ [][Next]_vars

-----------------------------------------------------------------------------
(* Failures that leave something registered in a module that is gone: the  *)
(* second device, a sysfs file, request_irq().                             *)
Botched == failed \cap {"cache_device", "files", "irq"} # {}

Orphans == {p \in Process : file[p] = "orphan"}

Backing == IF module = "irq" THEN "map" ELSE "buffer"

(* Whoever can call the module finds it there, with what it works on: a    *)
(* call of a device, a mapping, a sysfs file, the interrupt handler.  The  *)
(* order of the steps, of unloading in particular, and .owner give that.   *)
(* Only after a load that failed with the device open it is not so.        *)
EntriesBacked ==
  /\ TypeOK
  /\ files > 0 => /\ {"driver", Backing} \subseteq has
                  /\ module = "irq" \/ (buffer_base_virt = Buffer /\ buffer_size = Size)
  /\ has \cap Devices # {} => Backing \in has
  /\ handling \/ "irq" \in has => "map" \in has
  /\ "timer" \in has => "irq" \in has
  /\ Orphans = {} => \A p \in Process :
       /\ file[p] # "none" \/ mapped[p] => Backing \in has /\ state # "unloading"
       /\ call[p].active => file[p] # "none"
  /\ state = "out" => has = {} /\ files = 0 /\ ~handling

(* Nothing is copied from or to beyond the end of the buffer, and nothing  *)
(* beside it, neither by the file nor by sysfs, provided the call began    *)
(* when the size was set: the base is set before.  A call that began       *)
(* earlier is not safe.  It may have computed its address from a base that *)
(* was not set, and then find a size; the copy then is near address 0.     *)
(* But no call begins that early once the module has been loaded.          *)
CopiesInBuffer ==
  /\ touched.end <= Size
  /\ touched.base = Buffer \/ touched.early
  /\ state = "live" /\ module # "irq" =>
       buffer_base_virt = Buffer /\ buffer_size = Size

(* A load that fails leaves nothing behind, and nobody with an open file,  *)
(* except at the steps above; after one of these the module cannot be      *)
(* loaded any more, as its own names are taken.                            *)
FailedLoads ==
  /\ stale # {} <=> Botched
  /\ Orphans # {} => Botched \/ "driver" \in failed
  /\ Botched => state \notin {"live", "unloading"}
=============================================================================
