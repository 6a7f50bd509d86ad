------------------------------- MODULE DevBind -------------------------------
(***************************************************************************)
(* dpdk-devbind.py binds PCI devices to drivers by writing files under     *)
(* /sys.  What it decides rests on what lspci and the routing table said   *)
(* when it started (devices); what it changes is the kernel's state (drv,  *)
(* override, newIds, modules), which others change at the same time.  One  *)
(* action per system call that reads or changes that state.  The script is *)
(* run by Python 2 or 3 (py) on a kernel with or without driver_override   *)
(* (hasOverride), and may be killed between any two steps and run again.   *)
(***************************************************************************)
EXTENDS Naturals, Sequences, SequencesExt

CONSTANTS Devs,          \* PCI addresses
          Ident,         \* Ident[d]: the class, vendor and device numbers of d
          Names,         \* what a user may call a device; Devs are among them
          IfNames,       \* those that are names of interfaces, which come and go
          Named,         \* Named[n]: the device meant, or None
          KernelDrivers, \* drivers that make a device an interface of Linux
          Supports,      \* Supports[d]: the kernel drivers whose tables list d
          CmdLines,      \* the command lines given: options and device names
          Systems,       \* the states the kernel may be in at first
          MaxRuns,       \* bound: how often the script is run
          MaxMoves,      \* bound: how often others change the kernel's state
          None

\* dpdk_drivers as the script starts with it.
DpdkDrivers == {"igb_uio", "vfio-pci", "uio_pci_generic"}
Drivers == KernelDrivers \cup DpdkDrivers

ASSUME NamesAssumption == /\ Devs \subseteq Names /\ IfNames \subseteq Names \ Devs
                          /\ Named \in [Names -> Devs \cup {None}]
                          /\ \A d \in Devs : Named[d] = d
ASSUME DriversAssumption == /\ KernelDrivers \cap DpdkDrivers = {}
                            /\ KernelDrivers \cap Names = {}
                            /\ {None, ""} \cap (Drivers \cup Devs) = {} /\ None # ""
                            /\ {"none", "None"} \cap Drivers = {}
                            /\ Supports \in [Devs -> SUBSET KernelDrivers]
\* A driver that has a device is loaded, a route goes through an interface.
ASSUME SystemsAssumption ==
  \A s \in Systems : /\ s.drv \in [Devs -> Drivers \cup {None}] /\ s.modules \subseteq Drivers
                     /\ \A d \in Devs : s.drv[d] # None => s.drv[d] \in s.modules
                     /\ s.routed \subseteq {d \in Devs : s.drv[d] \in KernelDrivers}
ASSUME LinesAssumption == \A l \in CmdLines : l.names \in Seq(Names)
ASSUME BoundsAssumption == MaxRuns \in Nat /\ MaxMoves \in Nat

VARIABLES
  drv,         \* the driver of each device
  override,    \* its driver_override
  newIds,      \* what was written to new_id: a driver and an identity
  modules,     \* the drivers that are loaded
  routed,      \* the devices whose interface has a route
  py,
  hasOverride,
  line,        \* the command line
  pc,
  group,       \* the group of devices get_device_details is at
  devices,     \* the script's dictionary
  dpdk,        \* dpdk_drivers
  loaded,      \* loaded_modules
  opts,        \* b_flag, force_flag, status_flag and status_dev
  todo,        \* names bind_all or unbind_all has yet to handle
  rest,        \* devices their loops over the dictionary have yet to visit
  cur,         \* dev_id
  want,        \* driver, in bind_one
  saved,       \* saved_driver
  ret,         \* where unbind_one returns to
  shown,       \* what show_status has displayed
  exit,
  runs,
  moves,
  before,      \* history: drv and override as the run found them
  active,      \* history: devices it saw a route to
  told,        \* history: devices it printed a message about
  touched      \* history: devices others changed during the run

kernel == <<drv, override, newIds, modules, routed>>
config == <<py, hasOverride, line>>
frame == <<cur, want, saved, ret>>
results == <<shown, exit>>
history == <<runs, moves, before, active, touched>>
vars == <<kernel, config, pc, group, devices, dpdk, loaded, opts, todo, rest, frame,
          results, history, told>>
scanned == <<group, devices, dpdk, loaded, opts>>

-----------------------------------------------------------------------------
(***************************************************************************)
(* The groups of devices, in the order main reads them.  An empty set of   *)
(* vendors or devices is a None in the script's tables.                    *)
(***************************************************************************)
Entry(class, vendor, device) == [class |-> class, vendor |-> vendor, device |-> device]

Groups == <<
  [name |-> "net",      types |-> {Entry("02", {}, {}), Entry("12", {"8086"}, {"0b30"}),
                                   Entry("08", {"177d"}, {"a0dd", "a049"}),
                                   Entry("05", {"1af4"}, {"1110"})}],
  [name |-> "baseband", types |-> {Entry("12", {}, {})}],
  [name |-> "crypto",   types |-> {Entry("10", {}, {}), Entry("0b", {"8086"}, {})}],
  [name |-> "event",    types |-> {Entry("08", {"177d"}, {"a04b", "a04d", "a051", "a0f9", "a0fa"})}],
  [name |-> "mempool",  types |-> {Entry("08", {"177d"}, {"a053", "a0fb", "a0fc"})}],
  [name |-> "compress", types |-> {Entry("12", {"177d"}, {"a037"})}],
  [name |-> "misc",     types |-> {Entry("08", {"8086"}, {"6f20", "6f21", "6f22", "6f23", "6f24",
                                     "6f25", "6f26", "6f27", "6f2e", "6f2f", "2021"}),
                                   Entry("06", {"8086"}, {"201c"}), Entry("08", {"177d"}, {"a081"})}]
  >>

device_type_match(d, types) ==
  \E t \in types : /\ Ident[d].class = t.class
                   /\ t.vendor # {} => Ident[d].vendor \in t.vendor
                   /\ t.device # {} => Ident[d].device \in t.device

InGroup(i) == {d \in Devs : device_type_match(d, Groups[i].types)}

-----------------------------------------------------------------------------
(***************************************************************************)
(* The kernel.                                                             *)
(***************************************************************************)
Init ==
  /\ py \in {2, 3} /\ hasOverride \in BOOLEAN
  /\ \E s \in Systems : drv = s.drv /\ modules = s.modules /\ routed = s.routed
  /\ override = [d \in Devs |-> None] /\ newIds = {}
  /\ line = <<>> /\ pc = "done" /\ group = 1 /\ devices = <<>>
  /\ dpdk = {} /\ loaded = {} /\ opts = None /\ todo = <<>> /\ rest = {}
  /\ cur = None /\ want = None /\ saved = None /\ ret = "loop"
  /\ shown = {} /\ exit = "none"
  /\ runs = 0 /\ moves = 0 /\ before = None
  /\ active = {} /\ told = {} /\ touched = {}

\* The driver takes the device: driver_override names it or, without one, its
\* table or what was written to its new_id lists the device.
Matches(d, f) == IF override[d] # None THEN override[d] = f
                 ELSE f \in Supports[d] \/ <<f, Ident[d]>> \in newIds

IsInterface(d) == drv[d] \in KernelDrivers

\* An interface goes away with its driver, and its routes with it.
SetDriver(d, f) == drv' = [drv EXCEPT ![d] = f] /\ routed' = routed \ {d}

Move(ds) == /\ moves < MaxMoves /\ moves' = moves + 1
            /\ touched' = touched \cup ds
            /\ UNCHANGED <<override, newIds, config, pc, scanned, todo, rest, frame,
                           results, runs, before, active, told>>

OtherBind(d, f) ==
  /\ Move({d})
  /\ drv[d] = None /\ f \in modules /\ Matches(d, f)
  /\ SetDriver(d, f) /\ UNCHANGED modules

OtherUnbind(d) ==
  /\ Move({d})
  /\ drv[d] # None
  /\ SetDriver(d, None) /\ UNCHANGED modules

RouteAdded(d) ==
  /\ Move({d})
  /\ IsInterface(d) /\ d \notin routed
  /\ routed' = routed \cup {d} /\ UNCHANGED <<drv, modules>>

Rmmod(f) ==
  /\ Move({d \in Devs : drv[d] = f})
  /\ f \in modules /\ modules' = modules \ {f}
  /\ drv' = [d \in Devs |-> IF drv[d] = f THEN None ELSE drv[d]]
  /\ routed' = {d \in routed : drv[d] # f}

Others == \/ \E d \in Devs, f \in Drivers : OtherBind(d, f)
          \/ \E d \in Devs : OtherUnbind(d) \/ RouteAdded(d)
          \/ \E f \in Drivers : Rmmod(f)

-----------------------------------------------------------------------------
(***************************************************************************)
(* The start of the script: parse_args, check_modules and the reads of     *)
(* lspci and of the routing table for each group.                          *)
(***************************************************************************)
\* -u is "-b none", -s is "--status-dev all".  --help or a second -b ends the
\* script where it stands; what it would have read after it has no effect then.
parse_args(l) ==
  LET At(name) == {i \in DOMAIN l.options : l.options[i].name = name}
      again == {i \in At("bind") : \E j \in At("bind") : j < i}
  IN  [flag   |-> IF At("bind") = {} THEN None ELSE l.options[Min(At("bind"))].arg,
       status |-> IF At("status") = {} THEN None ELSE l.options[Max(At("status"))].arg,
       force  |-> At("force") # {},
       stop   |-> IF \/ l.options \o l.names = <<>>
                     \/ \E i \in At("help") : \A j \in again : i < j
                  THEN "ok" ELSE IF again # {} THEN "error" ELSE "go"]

\* A group without devices changes nothing and is passed over.
GroupAfter(i) == LET more == {j \in (i + 1)..Len(Groups) : InGroup(j) # {}}
                 IN  IF more = {} THEN 0 ELSE Min(more)

Stop(e) == pc' = "done" /\ exit' = e

Main(l) ==
  /\ pc = "done" /\ runs < MaxRuns /\ runs' = runs + 1
  /\ line' = l /\ opts' = parse_args(l)
  /\ before' = [drv |-> drv, override |-> override]
  /\ active' = {} /\ told' = {} /\ touched' = {} /\ shown' = {}
  /\ devices' = <<>> /\ todo' = <<>> /\ rest' = {}
  /\ cur' = None /\ want' = None /\ saved' = None
  /\ IF opts'.stop # "go"
     THEN /\ Stop(opts'.stop)
          /\ dpdk' = {} /\ loaded' = {} /\ group' = 0 /\ ret' = "loop"
     ELSE /\ dpdk' = DpdkDrivers \cap modules /\ loaded' = modules
          /\ group' = GroupAfter(0) /\ ret' = "act"
          /\ pc' = IF group' = 0 THEN "act" ELSE "lspci"
          /\ exit' = "none"
  /\ UNCHANGED <<kernel, py, hasOverride, moves>>

\* Each group's devices are entered anew, also those of an earlier group.
ReadLspci ==
  /\ pc = "lspci" /\ pc' = "details"
  /\ devices' = [d \in DOMAIN devices \cup InGroup(group) |->
                   IF d \in InGroup(group) THEN [drv |-> drv[d], iface |-> FALSE, ssh |-> FALSE]
                   ELSE devices[d]]
  /\ UNCHANGED <<kernel, config, group, dpdk, loaded, opts, todo, rest, frame, results,
                 history, told>>

\* Mutant: the devices of earlier groups are not passed over.
ReadDetails_All ==
  LET net == Groups[group].name = "net"
      ssh(d) == net /\ IsInterface(d) /\ d \in routed
  IN
  /\ pc = "details"
  /\ devices' = [d \in DOMAIN devices |->
                   [devices[d] EXCEPT !.iface = IsInterface(d), !.ssh = ssh(d)]]
  /\ active' = active \cup {d \in InGroup(group) : ssh(d)}
  /\ group' = GroupAfter(group)
  /\ pc' = IF group' = 0 THEN ret ELSE "lspci"
  /\ UNCHANGED <<kernel, config, dpdk, loaded, opts, todo, rest, frame, results,
                 runs, moves, before, told, touched>>

\* Routes are looked at for the network devices only.
ReadDetails ==
  LET net == Groups[group].name = "net"
      ssh(d) == net /\ IsInterface(d) /\ d \in routed
  IN
  /\ pc = "details"
  /\ devices' = [d \in DOMAIN devices |->
                   IF d \in InGroup(group)
                   THEN [devices[d] EXCEPT !.iface = IsInterface(d), !.ssh = ssh(d)]
                   ELSE devices[d]]
  /\ active' = active \cup {d \in InGroup(group) : ssh(d)}
  /\ group' = GroupAfter(group)
  /\ pc' = IF group' = 0 THEN ret ELSE "lspci"
  /\ UNCHANGED <<kernel, config, dpdk, loaded, opts, todo, rest, frame, results,
                 runs, moves, before, told, touched>>

-----------------------------------------------------------------------------
(***************************************************************************)
(* do_arg_actions, bind_all and unbind_all.                                *)
(***************************************************************************)
\* Mutant: any name is taken for a device.
dev_id_from_dev_name_Any(n) == {Named[x] : x \in Names \cap {n}}

dev_id_from_dev_name(n) ==
  {d \in DOMAIN devices : n \in Names /\ Named[n] = d /\ (n \in IfNames => devices[d].iface)}

Unbinding == opts.flag \in {"none", "None"}
Asked == UNION {dev_id_from_dev_name(line.names[i]) : i \in DOMAIN line.names}
AllKnown == \A i \in DOMAIN line.names : dev_id_from_dev_name(line.names[i]) # {}

\* Mutant: names are converted one by one, whatever runs the script.
MapNames_Lazy == todo' = line.names /\ pc' = "loop" /\ UNCHANGED exit

\* map converts all names at once in Python 2, each when its turn comes in 3.
MapNames ==
  IF py = 2 /\ ~AllKnown THEN Stop("error") /\ UNCHANGED todo
  ELSE todo' = line.names /\ pc' = "loop" /\ UNCHANGED exit

InScript == <<kernel, config, scanned, frame, shown, history, told>>

NothingToDo ==
  /\ pc = "act"
  /\ \/ opts.flag = None /\ opts.status = None
     \/ opts.flag # None /\ line.names = <<>>
  /\ Stop("error") /\ UNCHANGED <<InScript, todo, rest>>

StatusOnly ==
  /\ pc = "act" /\ opts.flag = None /\ opts.status # None
  /\ pc' = "show" /\ UNCHANGED <<InScript, todo, rest, exit>>

unbind_all ==
  /\ pc = "act" /\ Unbinding /\ line.names # <<>>
  /\ IF line.names[1] = "dpdk"
     THEN /\ rest' = {d \in DOMAIN devices : devices[d].drv \in dpdk}
          /\ pc' = "each" /\ UNCHANGED <<todo, exit>>
     ELSE MapNames /\ UNCHANGED rest
  /\ UNCHANGED InScript

bind_all ==
  /\ pc = "act" /\ opts.flag # None /\ ~Unbinding /\ line.names # <<>>
  /\ IF dev_id_from_dev_name(opts.flag) # {} \/ opts.flag \notin loaded
     THEN Stop("error") /\ UNCHANGED todo
     ELSE MapNames
  /\ UNCHANGED <<InScript, rest>>

NextName ==
  /\ pc = "loop" /\ todo # <<>> /\ todo' = Tail(todo)
  /\ LET d == dev_id_from_dev_name(Head(todo)) IN
     IF d = {} THEN Stop("traceback") /\ UNCHANGED frame
     ELSE /\ cur' \in d /\ want' = opts.flag /\ ret' = "loop"
          /\ pc' = IF Unbinding THEN "unbind" ELSE "bind"
          /\ UNCHANGED <<saved, exit>>
  /\ UNCHANGED <<kernel, config, scanned, rest, shown, history, told>>

\* Mutant: nobody looks at the other devices again.
EndOfNames_NoCheck ==
  /\ pc = "loop" /\ todo = <<>> /\ pc' = "status"
  /\ UNCHANGED <<InScript, todo, rest, exit>>

\* On a kernel without driver_override the devices that had no driver and were
\* not asked for are looked at again.  In Python 3 dev_list is used up by now.
EndOfNames ==
  /\ pc = "loop" /\ todo = <<>>
  /\ IF Unbinding \/ hasOverride THEN pc' = "status" /\ UNCHANGED rest
     ELSE /\ pc' = "post"
          /\ rest' = {d \in DOMAIN devices : devices[d].drv = None}
                     \ (IF py = 2 THEN Asked ELSE {})
  /\ UNCHANGED <<InScript, todo, exit>>

EachDpdk ==
  /\ pc = "each" /\ rest # {}
  /\ \E d \in rest : cur' = d /\ rest' = rest \ {d}
  /\ pc' = "unbind" /\ ret' = "each"
  /\ UNCHANGED <<kernel, config, scanned, todo, want, saved, results, history, told>>

\* dict.items() + dict.items() is an error in Python 3.
PostCheck ==
  /\ pc = "post" /\ rest # {}
  /\ \E d \in rest :
       /\ rest' = rest \ {d}
       /\ IF py = 3 THEN Stop("traceback") /\ UNCHANGED <<devices, cur, ret>>
          ELSE /\ devices' = [devices EXCEPT ![d] =
                               [drv |-> drv[d], iface |-> IsInterface(d), ssh |-> FALSE]]
               /\ cur' = d /\ ret' = "post"
               /\ pc' = IF drv[d] # None THEN "unbind" ELSE "post"
               /\ UNCHANGED exit
  /\ UNCHANGED <<kernel, config, group, dpdk, loaded, opts, todo, want, saved, shown,
                 history, told>>

EndOfDevices ==
  /\ pc \in {"each", "post"} /\ rest = {} /\ pc' = "status"
  /\ UNCHANGED <<InScript, todo, rest, exit>>

-----------------------------------------------------------------------------
(***************************************************************************)
(* unbind_one and bind_one for the device cur.  The call that restores the *)
(* previous driver is the last thing bind_one does, so its frame replaces  *)
(* the caller's.                                                           *)
(***************************************************************************)
Protected == devices[cur].ssh /\ ~opts.force

Tell(p) == told' = told \cup {cur} /\ pc' = p

InOne == <<config, scanned, todo, rest, shown, history>>

UnbindSkip ==
  /\ pc = "unbind" /\ (devices[cur].drv = None \/ Protected)
  /\ Tell(ret) /\ UNCHANGED <<kernel, InOne, frame, exit>>

\* .../drivers/<driver>/unbind cannot be opened: the driver is not there.
UnbindNoFile ==
  /\ pc = "unbind" /\ devices[cur].drv # None /\ ~Protected
  /\ devices[cur].drv \notin modules
  /\ Stop("error") /\ UNCHANGED <<kernel, InOne, frame, told>>

\* The kernel refuses if the device is not the driver's any more.
UnbindWrite ==
  /\ pc = "unbind" /\ devices[cur].drv \in modules /\ ~Protected
  /\ \/ /\ drv[cur] = devices[cur].drv /\ SetDriver(cur, None)
        /\ devices' = IF ret = "override" THEN [devices EXCEPT ![cur].drv = ""] ELSE devices
        /\ pc' = ret /\ UNCHANGED exit
     \/ /\ drv[cur] # devices[cur].drv
        /\ Stop("traceback") /\ UNCHANGED <<drv, routed, devices>>
  /\ UNCHANGED <<override, newIds, modules, config, group, dpdk, loaded, opts, todo,
                 rest, frame, shown, history, told>>

BindSkip ==
  /\ pc = "bind" /\ (Protected \/ devices[cur].drv = want)
  /\ Tell("loop") /\ UNCHANGED <<kernel, InOne, frame, exit>>

BindOne ==
  /\ pc = "bind" /\ ~Protected /\ devices[cur].drv # want
  /\ saved' = devices[cur].drv
  /\ IF devices[cur].drv = None THEN pc' = "override" /\ UNCHANGED ret
     ELSE pc' = "unbind" /\ ret' = "override"
  /\ UNCHANGED <<kernel, InOne, cur, want, exit, told>>

\* A kernel driver is left to match the device by its table.
OverrideSkip ==
  /\ pc = "override" /\ want \notin dpdk /\ pc' = "write"
  /\ UNCHANGED <<kernel, InOne, frame, exit, told>>

OverrideWrite ==
  /\ pc = "override" /\ want \in dpdk /\ hasOverride
  /\ override' = [override EXCEPT ![cur] = want] /\ pc' = "write"
  /\ UNCHANGED <<drv, newIds, modules, routed, InOne, frame, exit, told>>

\* The driver takes every free device of that identity at once.
NewIdWrite ==
  /\ pc = "override" /\ want \in dpdk \cap modules /\ ~hasOverride
  /\ newIds' = newIds \cup {<<want, Ident[cur]>>}
  /\ drv' = [d \in Devs |-> IF drv[d] = None /\ Ident[d] = Ident[cur] THEN want ELSE drv[d]]
  /\ pc' = "write"
  /\ UNCHANGED <<override, modules, routed, InOne, frame, exit, told>>

\* Neither file need be there or writable; the driver that was taken off the
\* device is not given back here.
OverrideFail ==
  /\ pc = "override" /\ want \in dpdk
  /\ Tell("loop") /\ UNCHANGED <<kernel, InOne, frame, exit>>

Restore == IF saved = None THEN Tell("loop") /\ UNCHANGED want
           ELSE Tell("bind") /\ want' = saved

BindNoFile ==
  /\ pc = "write" /\ want \notin modules
  /\ Restore /\ UNCHANGED <<kernel, InOne, cur, saved, ret, exit>>

\* Mutant: driver_override is not cleared.
BindWrite_NoClear ==
  /\ pc = "write" /\ want \in modules
  /\ \/ /\ drv[cur] = None /\ Matches(cur, want)
        /\ SetDriver(cur, want) /\ pc' = "loop"
     \/ pc' = "verify" /\ UNCHANGED <<drv, routed>>
  /\ UNCHANGED <<override, newIds, modules, InOne, frame, exit, told>>

\* The driver may also refuse a device that matches.
BindWrite ==
  /\ pc = "write" /\ want \in modules
  /\ \/ /\ drv[cur] = None /\ Matches(cur, want)
        /\ SetDriver(cur, want)
        /\ pc' = IF hasOverride THEN "clear" ELSE "loop"
     \/ pc' = "verify" /\ UNCHANGED <<drv, routed>>
  /\ UNCHANGED <<override, newIds, modules, InOne, frame, exit, told>>

\* lspci again: the error is ignored if the device has the driver by now.
Verify ==
  /\ pc = "verify"
  /\ IF drv[cur] = want THEN pc' = "loop" /\ UNCHANGED <<want, told>> ELSE Restore
  /\ UNCHANGED <<kernel, InOne, cur, saved, ret, exit>>

ClearOverride ==
  /\ pc = "clear"
  /\ \/ override' = [override EXCEPT ![cur] = None] /\ pc' = "loop" /\ UNCHANGED exit
     \/ Stop("error") /\ UNCHANGED override
  /\ UNCHANGED <<drv, newIds, modules, routed, InOne, frame, told>>

-----------------------------------------------------------------------------
(***************************************************************************)
(* The end of do_arg_actions.                                              *)
(***************************************************************************)
\* Mutant: the devices are not read again.
Refresh_Stale ==
  /\ pc = "status" /\ opts.status # None
  /\ pc' = "show" /\ ret' = "show"
  /\ UNCHANGED <<kernel, config, scanned, todo, rest, cur, want, saved, results,
                 history, told>>

Refresh ==
  /\ pc = "status" /\ opts.status # None
  /\ devices' = <<>> /\ group' = GroupAfter(0)
  /\ pc' = (IF group' = 0 THEN "show" ELSE "lspci") /\ ret' = "show"
  /\ UNCHANGED <<kernel, config, dpdk, loaded, opts, todo, rest, cur, want, saved, results,
                 history, told>>

NoStatus ==
  /\ pc = "status" /\ opts.status = None
  /\ Stop("ok") /\ UNCHANGED <<InScript, todo, rest>>

Category(d) == CASE devices[d].drv = None -> "none"
                 [] devices[d].drv \in dpdk -> "dpdk"
                 [] OTHER -> "kernel"

show_status ==
  /\ pc = "show"
  /\ LET asked == {i \in DOMAIN Groups : opts.status \in {Groups[i].name, "all"}} IN
     shown' = UNION {{<<Groups[i].name, d, Category(d)>> : d \in DOMAIN devices \cap InGroup(i)} :
                       i \in asked}
  /\ Stop("ok")
  /\ UNCHANGED <<kernel, config, scanned, todo, rest, frame, history, told>>

\* The script is killed; what it wrote stays.
Kill ==
  /\ pc # "done" /\ Stop("killed") /\ UNCHANGED <<InScript, todo, rest>>

Script ==
  \/ ReadLspci \/ ReadDetails \/ NothingToDo \/ StatusOnly \/ unbind_all \/ bind_all
  \/ NextName \/ EndOfNames \/ EachDpdk \/ PostCheck \/ EndOfDevices
  \/ UnbindSkip \/ UnbindNoFile \/ UnbindWrite \/ BindSkip \/ BindOne
  \/ OverrideSkip \/ OverrideWrite \/ NewIdWrite \/ OverrideFail
  \/ BindNoFile \/ BindWrite \/ Verify \/ ClearOverride
  \/ Refresh \/ NoStatus \/ show_status

Next == Script \/ Kill \/ Others \/ \E l \in CmdLines : Main(l)

Spec == Init /\ [][Next]_vars

-----------------------------------------------------------------------------
Snapshots == [drv : Drivers \cup {None, ""}, iface : BOOLEAN, ssh : BOOLEAN]

TypeOK ==
  /\ drv \in [Devs -> Drivers \cup {None}]
  /\ override \in [Devs -> DpdkDrivers \cup {None}]
  /\ newIds \subseteq DpdkDrivers \X {Ident[d] : d \in Devs}
  /\ modules \subseteq Drivers
  /\ routed \subseteq {d \in Devs : IsInterface(d)}
  /\ DOMAIN devices \subseteq Devs
  /\ \A d \in DOMAIN devices : devices[d] \in Snapshots
  /\ dpdk \subseteq DpdkDrivers /\ loaded \subseteq Drivers
  /\ rest \subseteq DOMAIN devices
  /\ pc \in {"unbind", "bind", "override", "write", "verify", "clear"} =>
       cur \in DOMAIN devices
  /\ ret \in {"act", "show", "loop", "each", "post", "override"}
  /\ exit \in {"none", "ok", "error", "traceback", "killed"}
  /\ active \subseteq Devs /\ told \subseteq Devs /\ touched \subseteq Devs

\* The usage text: "network devices which are used by Linux - as indicated by
\* having routes in the routing table - cannot be modified" without --force.
\* Of a device that no second group reads anew (its mark is lost then), and
\* that nobody else rebinds, the script takes the driver it saw a route through
\* only if forced, by whatever path it comes to unbind_one (364, 387, 504, 554).
ReadTwice(d) == \E i, j \in DOMAIN Groups : i # j /\ d \in InGroup(i) \cap InGroup(j)
ActiveKept ==
  [][\A d \in active \ touched :
       Script /\ drv'[d] # drv[d] => opts.force \/ ReadTwice(d)]_vars

\* bind_all 529-554: at the end of a bind that reports success, each device that
\* was asked for, by whatever name, and about which nothing was printed has the
\* driver, and its driver_override does not keep it from the next one; but for a
\* free device that was named twice.  The script does not see that it has bound
\* it: 419 writes driver_override again, the kernel refuses the second bind, and
\* 462-463 return without the lines that clear it.
Bound == pc = "done" /\ exit = "ok" /\ opts.stop = "go" /\ opts.flag \in Drivers
Requested == {Named[line.names[i]] : i \in DOMAIN line.names}
FreeTwice(d) ==
  /\ before.drv[d] = None
  /\ \E i, j \in DOMAIN line.names : i # j /\ Named[line.names[i]] = d /\ Named[line.names[j]] = d
SilentMeansDone ==
  Bound =>
    \A d \in Requested \ (told \cup touched) :
      /\ drv[d] = opts.flag
      /\ hasOverride => \/ override[d] = None
                        \/ FreeTwice(d) /\ override[d] = opts.flag

\* bind_all 537-554: a device nobody asked for has the driver it had, although
\* new_id gives the driver all free devices of that identity.
OthersLeftAlone ==
  Bound => \A d \in Devs \ (Requested \cup touched) :
             drv[d] = before.drv[d] /\ override[d] = before.override[d]

\* bind_all 529-532 and unbind_all 498-502: an unknown name ends the script before
\* it changes anything.  Python 3 gets to it only when the devices before it in
\* the list are rebound.
UnknownStopsAll ==
  pc = "done" /\ exit \notin {"none", "killed"} /\ py = 2 /\ None \in Requested =>
    \/ line.names[1] = "dpdk"
    \/ \A d \in Devs \ touched :
         drv[d] = before.drv[d] /\ override[d] = before.override[d]

\* do_arg_actions 709-720: what --status prints after a bind or unbind is what
\* the kernel has, not what it had when the script started.
Kind(d) == CASE drv[d] = None -> "none"
             [] drv[d] \in DpdkDrivers -> "dpdk"
             [] OTHER -> "kernel"
StatusIsFresh == \A s \in shown : s[2] \in touched \/ s[3] = Kind(s[2])

\* bind_one 384, "used to rollback any unbind in case of failure", and 451,
\* "restore any previous driver".
RolledBack ==
  exit \in {"ok", "error"} /\ opts.flag \in Drivers =>
    \A d \in Devs \ touched : before.drv[d] # None => drv[d] # None
=============================================================================
