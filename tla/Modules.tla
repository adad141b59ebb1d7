------------------------------- MODULE Modules -------------------------------
(***************************************************************************)
(* The three kernel modules of project 2 on one machine: insmod and rmmod  *)
(* by compile.sh and clean.sh, what the init functions register and the    *)
(* exit functions take back, and the open files, mappings and pages of the *)
(* programs (master, slave, test_md) that use the devices meanwhile.       *)
(*                                                                         *)
(* An init function that fails takes nothing back, and the kernel frees    *)
(* the module: its entry in the list of misc devices and its debugfs file  *)
(* are then stale.  Walking over a stale entry is undefined: it reads as   *)
(* before, or the kernel stops the process, which holds the lock of the    *)
(* list for ever.  master_init() registers the device before it has a      *)
(* socket: a file may be open when it fails, and any call on that file     *)
(* then runs into freed memory.                                            *)
(***************************************************************************)
EXTENDS Integers, Sequences, Functions

CONSTANT MemoryFails  \* whether the init functions may run out of memory

ASSUME MemoryAssumption == MemoryFails \in BOOLEAN

Device == {"master_device", "slave_device"}
Module == {"ksocket"} \cup Device
Program == {"master", "slave", "test_md"}
Dev(p) == IF p = "slave" THEN "slave_device" ELSE "master_device"

VARIABLES
  script,     \* the rest of the shell script that is running
  ran,        \* the name of the last script
  loaded,     \* "no", "coming": in master_init(), "yes", or "dead": stopped in
              \* its init or exit function
  misc,       \* the list of misc devices of the two modules, the newest first
  stale,      \* those of them whose module has been freed
  debugfs,    \* the debugfs file of each device
  stuck,      \* whether the lock of the list is held for ever
  listening,  \* sockfd_srv
  accepted,   \* whether sockfd_cli is an open connection
  lost,       \* whether a socket on the port is open that no pointer leads to
  lingering,  \* whether a closed connection is still in TIME_WAIT on the port
  prog        \* each program: where it is, its file, its mapping, its page

modVars == <<loaded, misc, stale, debugfs, stuck, listening>>
portVars == <<accepted, lost, lingering>>
vars == <<script, ran, modVars, portVars, prog>>

\* fd, vma: the descriptor and the mapping, which both hold the open file;
\* early: it was opened before the init function returned; pte: the page is in
\* the page table; count: page_count(); reference: the field of mmap_info.
NotRunning ==
  [pc |-> "off", fd |-> FALSE, vma |-> FALSE, early |-> FALSE, pte |-> FALSE,
   count |-> 0, reference |-> 0]

Init ==
  /\ script = << >> /\ ran = "none"
  /\ loaded = [m \in Module |-> "no"]
  /\ misc = << >> /\ stale = {} /\ stuck = FALSE
  /\ debugfs = [d \in Device |-> "none"]
  /\ listening = FALSE /\ accepted = FALSE /\ lost = FALSE /\ lingering = FALSE
  /\ prog = [p \in Program |-> NotRunning]

HasFile(p) == prog[p].fd \/ prog[p].vma

\* Mutant of InUse: slave_fops has no .owner.
InUseUnowned(m) ==
  IF m = "ksocket" THEN \E d \in Device : loaded[d] # "no"
  ELSE m # "slave_device" /\ \E p \in Program : Dev(p) = m /\ HasFile(p)

\* rmmod refuses a module whose symbols are used or whose files are open (.owner).
InUse(m) ==
  IF m = "ksocket" THEN \E d \in Device : loaded[d] # "no"
  ELSE \E p \in Program : Dev(p) = m /\ HasFile(p)

-----------------------------------------------------------------------------
(* insmod                                                                  *)

compile == [i \in 1 .. 3 |-> <<"insmod", <<"ksocket", "master_device", "slave_device">>[i]>>]
clean == [i \in 1 .. 3 |-> <<"rmmod", <<"ksocket", "master_device", "slave_device">>[i]>>]

ScriptStarts ==
  /\ script = << >>
  /\ \/ script' = compile /\ ran' = "compile"
     \/ script' = clean /\ ran' = "clean"
  /\ UNCHANGED <<modVars, portVars, prog>>

\* The script goes on with the next command, whether this one fails or not.
Current(op, m) == script # << >> /\ Head(script) = <<op, m>> /\ UNCHANGED <<ran, prog>>
Command(op, m) == Current(op, m) /\ script' = Tail(script)

\* The module is there already, or the symbols of ksocket are missing.
Refused(m) == loaded[m] \in {"yes", "dead"} \/ (m \in Device /\ loaded["ksocket"] = "no")

InsmodRefused(m) ==
  /\ Command("insmod", m)
  /\ Refused(m)
  /\ UNCHANGED <<modVars, portVars>>

Becomes(m, state) == loaded' = [loaded EXCEPT ![m] = state]

ksocket_init ==
  /\ Command("insmod", "ksocket")
  /\ ~Refused("ksocket")
  /\ Becomes("ksocket", "yes")
  /\ UNCHANGED <<misc, stale, debugfs, stuck, listening, portVars>>

\* debugfs_create_file() does not replace a file of that name.
DebugFile(d) == debugfs' = [debugfs EXCEPT ![d] = IF @ = "none" THEN "live" ELSE @]
FileGoesStale(d) == debugfs' = [debugfs EXCEPT ![d] = "stale"]

\* misc_register() fails, for want of memory or because the name is taken, and
\* with it the init function.
RegisterFails(d) ==
  /\ Command("insmod", d)
  /\ d \in Range(misc) \/ MemoryFails
  /\ FileGoesStale(d)
  /\ UNCHANGED <<loaded, misc, stale, stuck, listening, portVars>>

\* It writes to the newest entry of the list.
RegisterStops(d) ==
  /\ Command("insmod", d)
  /\ d \notin Range(misc)
  /\ misc # << >> /\ Head(misc) \in stale
  /\ stuck' = TRUE
  /\ Becomes(d, "dead")
  /\ DebugFile(d)
  /\ UNCHANGED <<misc, stale, listening, portVars>>

Registers(d, state) ==
  /\ d \notin Range(misc)
  /\ misc' = <<d>> \o misc
  /\ Becomes(d, state)
  /\ DebugFile(d)
  /\ UNCHANGED <<stale, stuck, listening, portVars>>

\* ksocket(), kbind() or klisten() fails: -1.  The socket is not closed.
PortInUse == accepted \/ lost \/ lingering

ServerFails ==
  /\ Command("insmod", "master_device")
  /\ PortInUse \/ MemoryFails
  /\ Becomes("master_device", "no")
  /\ stale' = stale \cup {"master_device"}
  /\ FileGoesStale("master_device")
  /\ lost' \in {lost} \cup (IF MemoryFails THEN {TRUE} ELSE {})
  /\ UNCHANGED <<misc, stuck, listening, accepted, lingering>>

ServerListens ==
  /\ Command("insmod", "master_device")
  /\ ~PortInUse
  /\ Becomes("master_device", "yes")
  /\ listening' = TRUE
  /\ UNCHANGED <<misc, stale, debugfs, stuck, portVars>>

MasterRegisters ==
  \/ RegisterFails("master_device")
  \/ RegisterStops("master_device")
  \/ /\ Current("insmod", "master_device")
     /\ Registers("master_device", "coming")
     /\ UNCHANGED script

master_init ==
  \/ loaded["master_device"] = "no" /\ ~Refused("master_device") /\ ~stuck /\ MasterRegisters
  \/ loaded["master_device"] = "coming" /\ (ServerFails \/ ServerListens)

slave_init ==
  /\ ~Refused("slave_device") /\ ~stuck
  /\ \/ RegisterFails("slave_device")
     \/ RegisterStops("slave_device")
     \/ Command("insmod", "slave_device") /\ Registers("slave_device", "yes")

-----------------------------------------------------------------------------
(* rmmod                                                                   *)

RmmodRefused(m) ==
  /\ Command("rmmod", m)
  /\ loaded[m] # "yes" \/ InUse(m)
  /\ UNCHANGED <<modVars, portVars>>

Removable(m) == Command("rmmod", m) /\ loaded[m] = "yes" /\ ~InUse(m)

ksocket_exit ==
  /\ Removable("ksocket")
  /\ Becomes("ksocket", "no")
  /\ UNCHANGED <<misc, stale, debugfs, stuck, listening, portVars>>

\* misc_deregister(), and debugfs_remove() of a file this instance has made.
Deregisters(d) ==
  /\ ~stuck
  /\ Becomes(d, "no")
  /\ \E i \in DOMAIN misc :
       misc[i] = d /\ misc' = SubSeq(misc, 1, i - 1) \o SubSeq(misc, i + 1, Len(misc))
  /\ debugfs' = [debugfs EXCEPT ![d] = IF @ = "live" THEN "none" ELSE @]
  /\ UNCHANGED <<stale, stuck>>

\* misc_deregister() writes to both neighbours of the entry.
DeregisterStops(d) ==
  /\ ~stuck
  /\ \E i, k \in DOMAIN misc : misc[i] = d /\ misc[k] \in stale /\ k \in {i - 1, i + 1}
  /\ stuck' = TRUE
  /\ Becomes(d, "dead")
  /\ UNCHANGED <<misc, stale, debugfs, listening, portVars>>

\* Mutant of master_exit: the listening socket is not closed.
master_exitOpen ==
  /\ Removable("master_device")
  /\ \/ /\ Deregisters("master_device")
        /\ lost' = (lost \/ accepted) /\ accepted' = FALSE
        /\ UNCHANGED <<listening, lingering>>
     \/ DeregisterStops("master_device")

\* kclose(sockfd_srv).  The connection of a killed master stays open, and
\* sockfd_cli is gone.
master_exit ==
  /\ Removable("master_device")
  /\ \/ /\ Deregisters("master_device")
        /\ listening' = FALSE
        /\ lost' = (lost \/ accepted) /\ accepted' = FALSE
        /\ UNCHANGED lingering
     \/ DeregisterStops("master_device")

slave_exit ==
  /\ Removable("slave_device")
  /\ \/ Deregisters("slave_device") /\ UNCHANGED <<listening, portVars>>
     \/ DeregisterStops("slave_device")

Script ==
  \/ ScriptStarts \/ ksocket_init \/ master_init \/ slave_init
  \/ ksocket_exit \/ master_exit \/ slave_exit
  \/ \E m \in Module : InsmodRefused(m) \/ RmmodRefused(m)

-----------------------------------------------------------------------------
(* The programs                                                            *)

scriptVars == <<script, ran>>

\* open() walks the list down to the device.
Walks(d) == {misc[i] : i \in {i \in DOMAIN misc : \A k \in 1 .. i - 1 : misc[k] # d}}

Opens(p) ==
  /\ prog[p].pc = "off"
  /\ ~stuck
  /\ Dev(p) \in Range(misc) \ stale
  /\ prog' = [prog EXCEPT ![p] = [NotRunning EXCEPT
                !.pc = "open", !.fd = TRUE, !.count = 1,
                !.early = (loaded[Dev(p)] = "coming")]]
  /\ UNCHANGED <<scriptVars, modVars, portVars>>

OpenStops(p) ==
  /\ prog[p].pc = "off"
  /\ ~stuck
  /\ Dev(p) \in Range(misc)
  /\ Walks(Dev(p)) \cap stale # {}
  /\ stuck' = TRUE
  /\ prog' = [prog EXCEPT ![p].pc = "stopped"]
  /\ UNCHANGED <<scriptVars, loaded, misc, stale, debugfs, listening, portVars>>

\* A call on a file whose module has been freed.
Gone(p) == HasFile(p) /\ loaded[Dev(p)] = "no"

Stops(p) ==
  /\ Gone(p)
  /\ prog' = [prog EXCEPT ![p].pc = "stopped"]
  /\ UNCHANGED <<scriptVars, modVars, portVars>>

\* Step of p from one of the places from to the place to.
Step(p, from, to, fields) ==
  /\ prog[p].pc \in from
  /\ ~Gone(p)
  /\ prog' = [prog EXCEPT ![p] = [fields EXCEPT !.pc = to]]
  /\ UNCHANGED <<scriptVars, modVars>>

\* A connection nobody has closed is lost when sockfd_cli is overwritten.
Accepts ==
  /\ listening
  /\ Step("master", {"open"}, "serving", prog["master"])
  /\ lost' = (lost \/ accepted)
  /\ accepted' = TRUE
  /\ UNCHANGED lingering

mmap_open(s) == [s EXCEPT !.vma = TRUE, !.reference = @ + 1]

\* The kernel does not call mmap_open() for a new mapping: mmap_mmap() does.
mmap_mmap(p) ==
  /\ Step(p, IF p = "master" THEN {"serving"} ELSE {"open"}, "mapped", mmap_open(prog[p]))
  /\ UNCHANGED portVars

\* Mutant of mmap_fault: no get_page().
mmap_faultUncounted(p) ==
  /\ Step(p, {"mapped"}, "touched", [prog[p] EXCEPT !.pte = TRUE])
  /\ UNCHANGED portVars

mmap_fault(p) ==
  /\ Step(p, {"mapped"}, "touched", [prog[p] EXCEPT !.pte = TRUE, !.count = @ + 1])
  /\ UNCHANGED portVars

\* master_IOCTL_EXIT: the side that closes first goes to TIME_WAIT.
Disconnects ==
  /\ Step("master", {"serving", "touched"}, "done", prog["master"])
  /\ accepted' = FALSE
  /\ lingering' \in {lingering, TRUE}
  /\ UNCHANGED lost

\* master_close(), slave_close(): when neither the descriptor nor the mapping is left.
Released(s) == IF s.fd \/ s.vma THEN s ELSE [s EXCEPT !.count = @ - 1]

\* After the kernel has emptied the page table.
mmap_close(s) ==
  [s EXCEPT !.vma = FALSE, !.pte = FALSE, !.reference = @ - 1,
            !.count = @ - (IF s.pte THEN 1 ELSE 0)]

\* close(dev_fd)
Closes(p) ==
  /\ Step(p, IF p = "master" THEN {"done"} ELSE {"open", "touched"}, "closed",
          Released([prog[p] EXCEPT !.fd = FALSE]))
  /\ UNCHANGED portVars

\* main() returns, or the program is killed: the kernel takes down its mappings
Exits(p) ==
  /\ Step(p, {"open", "serving", "mapped", "touched", "done", "closed"}, "exiting",
          IF prog[p].vma THEN Released(mmap_close(prog[p])) ELSE prog[p])
  /\ UNCHANGED portVars

\* and then closes its files.
FilesClosed(p) ==
  /\ Step(p, {"exiting"}, "off",
          IF prog[p].fd THEN Released([prog[p] EXCEPT !.fd = FALSE]) ELSE prog[p])
  /\ UNCHANGED portVars

\* TIME_WAIT is over.
Expires ==
  /\ lingering
  /\ lingering' = FALSE
  /\ UNCHANGED <<scriptVars, modVars, accepted, lost, prog>>

Next ==
  \/ Script \/ Accepts \/ Disconnects \/ Expires
  \/ \E p \in Program :
       \/ Opens(p) \/ OpenStops(p) \/ Stops(p) \/ mmap_mmap(p) \/ mmap_fault(p)
       \/ Closes(p) \/ Exits(p) \/ FilesClosed(p)

Spec == Init /\ [][Next]_vars

-----------------------------------------------------------------------------
(* No call runs in a module that has been freed and no process is stopped   *)
(* in the list of devices, however rmmod, the calls and the ends of the     *)
(* programs follow each other - but for one cause: a master_init() that     *)
(* failed with its device registered.  After that, whoever opened the       *)
(* device before the failure is stopped by its next call, and everybody     *)
(* else who is stopped was walking over the stale entry.                    *)
OnlyStaleStops ==
  /\ stale \subseteq {"master_device"}
  /\ stuck => stale # {}
  /\ \A d \in Device : loaded[d] = "dead" => stuck
  /\ \A p \in Program : prog[p].pc = "stopped" =>
       IF HasFile(p) THEN prog[p].early /\ Dev(p) \in stale ELSE stuck

(* In whatever order a program closes, unmaps and is killed, the page of a  *)
(* file is counted once for the file, as long as a descriptor or a mapping  *)
(* is left, and once for its page table entry, so that it is freed with the *)
(* last of them; mmap_info counts the mapping.                              *)
PageIsCounted ==
  \A p \in Program :
    /\ prog[p].count = (IF HasFile(p) THEN 1 ELSE 0) + (IF prog[p].pte THEN 1 ELSE 0)
    /\ prog[p].reference = IF prog[p].vma THEN 1 ELSE 0

(* What a module that is not loaded leaves behind: after its exit function  *)
(* nothing; after an init function that failed its debugfs file, and in the *)
(* case of master_device, which registers the device before it has a        *)
(* socket, perhaps the entry in the list of devices as well.  It never      *)
(* leaves a listening socket.                                               *)
NothingLeft ==
  /\ \A d \in Device : loaded[d] = "no" =>
       /\ debugfs[d] \in {"none", "stale"}
       /\ d \in Range(misc) =>
            d = "master_device" /\ d \in stale /\ debugfs[d] = "stale"
  /\ loaded["master_device"] = "no" => ~listening

(* README.txt: compile.sh installs the modules.                             *)
CompileInstalls ==
  script = << >> /\ ran = "compile" => \A m \in Module : loaded[m] = "yes"
=============================================================================
