---------------------------- MODULE DevBindProofs ----------------------------
(***************************************************************************)
(* Proofs about dpdk-devbind.py: for any devices, drivers and command      *)
(* lines, any number of runs and of moves of others between its steps.     *)
(***************************************************************************)
EXTENDS DevBind, Integers, FiniteSetTheorems, SequenceTheorems, TLAPS

-----------------------------------------------------------------------------
(***************************************************************************)
(* Where the script is.                                                    *)
(***************************************************************************)
Phases == {"done", "lspci", "details", "act", "loop", "each", "post", "unbind", "bind",
           "override", "write", "verify", "clear", "status", "show"}

\* One run has begun.
Started == pc # "done" \/ exit # "none"

Scanning == pc \in {"lspci", "details"}

\* It has changed nothing so far.
Early == (Scanning /\ ret = "act") \/ pc = "act"

\* bind_one is at a device of the command line.
OnName == \/ pc \in {"bind", "override", "write", "verify", "clear"}
          \/ pc = "unbind" /\ ret = "override"

\* bind_all is in its first loop, in its second, or beyond.
Looping == pc = "loop" \/ OnName
Checking == pc = "post" \/ (pc = "unbind" /\ ret = "post")
Ending == \/ pc \in {"status", "show"} \/ (Scanning /\ ret = "show")
          \/ pc = "done" /\ exit = "ok" /\ opts.stop = "go"

Binding == Started /\ opts.flag \in Drivers

Located ==
  /\ pc \in Phases /\ py \in {2, 3}
  /\ Started => line \in CmdLines
  /\ Scanning => ret \in {"act", "show"} /\ group \in DOMAIN Groups
  /\ pc = "unbind" => ret \in {"loop", "each", "post", "override"}
  /\ Binding => pc # "each" /\ (pc = "unbind" => ret \in {"post", "override"})
  /\ pc \notin {"done", "lspci", "details", "act", "status", "show"} => Binding \/ Unbinding
  /\ rest # {} => \/ pc \in {"done", "each", "post"}
                  \/ pc = "unbind" /\ ret \in {"each", "post"}
  /\ ret = "show" => Scanning \/ pc \in {"show", "done"}
  /\ shown # {} => pc = "done" /\ \A s \in shown : s[2] \in Devs

-----------------------------------------------------------------------------
(***************************************************************************)
(* What the script knows of the kernel.                                    *)
(***************************************************************************)
\* A driver that has a device is loaded, and was when the run began.
Loaded ==
  /\ \A d \in Devs : drv[d] # None => drv[d] \in modules
  /\ pc # "done" => modules \subseteq loaded /\ dpdk = DpdkDrivers \cap loaded

\* Until it acts, and after it has acted and read again, it has each device's driver.
Fresh ==
  Scanning \/ pc \in {"act", "show"} =>
    /\ \A d \in DOMAIN devices : d \in touched \/ devices[d].drv = drv[d]
    /\ pc = "details" => InGroup(group) \subseteq DOMAIN devices

\* Devices of one identity are read together.
Alike == \A d, e \in Devs : d \in DOMAIN devices /\ Ident[d] = Ident[e] => e \in DOMAIN devices

\* A device whose route it saw keeps its mark and its driver.
Marked(d) == /\ d \in DOMAIN devices /\ devices[d].ssh
             /\ devices[d].drv = drv[d] /\ drv[d] \in KernelDrivers
Kept ==
  /\ active \subseteq InGroup(1)
  /\ active # {} /\ Scanning /\ ret = "act" => group # 1
  /\ pc \notin {"done", "show"} /\ ret # "show" /\ ~opts.force =>
       \A d \in active \ touched : ReadTwice(d) \/ Marked(d)

-----------------------------------------------------------------------------
(***************************************************************************)
(* The devices nobody asked for.                                           *)
(***************************************************************************)
AsFound(d) == drv[d] = before.drv[d] /\ override[d] = before.override[d]

\* Nothing is changed before bind_all and unbind_all have their list of names,
\* and with an unknown name in it they do not get it in Python 2.
Stopping == /\ Started /\ py = 2 /\ None \in Requested /\ line.names[1] # "dpdk"
Untouched ==
  /\ Early \/ Stopping => \A d \in Devs \ touched : AsFound(d)
  /\ Stopping => Early \/ pc \in {"show", "done"}

\* A free device that new_id gave the driver is still to be looked at again.
Taken(d) ==
  /\ before.drv[d] = None /\ ~hasOverride
  /\ \/ Looping /\ d \in DOMAIN devices
     \/ Checking /\ d \in rest
     \/ pc = "unbind" /\ ret = "post" /\ cur = d
     \/ pc = "done" /\ exit # "ok"

Left ==
  Binding => \A d \in Devs \ (Requested \cup touched) :
    /\ override[d] = before.override[d]
    /\ drv[d] = before.drv[d] \/ Taken(d)
    /\ Looping /\ d \in DOMAIN devices => devices[d].drv = before.drv[d]

\* The second loop of bind_all.
Rechecked(d) == d \in Requested \cup touched \/ before.drv[d] = None
Again ==
  Checking =>
    /\ ~hasOverride /\ Binding
    /\ \A d \in rest : devices[d].drv = None /\ Rechecked(d) /\ (py = 2 => d \notin Requested)
    /\ pc = "unbind" => /\ devices[cur].drv # None /\ ~devices[cur].ssh
                        /\ Rechecked(cur) /\ cur \notin Requested

-----------------------------------------------------------------------------
(***************************************************************************)
(* The devices that were asked for.                                        *)
(***************************************************************************)
Handled == Len(line.names) - Len(todo)
Device(i) == Named[line.names[i]]

\* The names that remain are the last ones of the command line.
Remaining == /\ todo \in Seq(Names) /\ Len(todo) <= Len(line.names)
             /\ \A j \in 1..Len(todo) : todo[j] = line.names[Handled + j]
Turn ==
  Binding /\ (Looping \/ Checking \/ Ending) =>
    /\ Remaining
    /\ ~Looping => todo = <<>>
    /\ OnName => Handled >= 1 /\ cur = Device(Handled)
    /\ Looping /\ py = 2 => AllKnown

HasDriver(d) ==
  /\ drv[d] = opts.flag
  /\ hasOverride => override[d] = None \/ (FreeTwice(d) /\ override[d] = opts.flag)

\* The dictionary does not say that bind_one has bound d: it has no driver there,
\* or one of no name, which unbind_one cannot find.
Spent(d) == devices[d].drv = "" \/ (devices[d].drv = None /\ before.drv[d] = None)

\* What is known of the device bind_one is at: it is as the dictionary says, or
\* named a second time.
AtHand ==
  Binding /\ OnName /\ cur \notin told \cup touched =>
    /\ want = opts.flag
    /\ hasOverride /\ pc = "bind" =>
         \/ devices[cur].drv = drv[cur] /\ drv[cur] = before.drv[cur]
         \/ HasDriver(cur) /\ (FreeTwice(cur) \/ devices[cur].drv = "")
    /\ hasOverride /\ pc \in {"override", "write", "verify"} =>
         drv[cur] = None \/ (HasDriver(cur) /\ FreeTwice(cur))
    /\ hasOverride /\ pc \in {"override", "write", "verify", "clear"} => Spent(cur)
    /\ pc = "clear" => drv[cur] = want

\* The devices it has handled, and those it has not.
HandledOK ==
  Looping \/ Checking \/ Ending =>
    \A i \in 1..Handled :
      /\ Device(i) \in Devs
      /\ Device(i) \in told \cup touched \/ (OnName /\ Device(i) = cur) \/ HasDriver(Device(i))
SpentOK ==
  Looping /\ hasOverride =>
    \A i \in 1..Handled :
      /\ Device(i) \in DOMAIN devices
      /\ Device(i) \in told \cup touched \/ (OnName /\ Device(i) = cur) \/ Spent(Device(i))
UnhandledOK ==
  Looping /\ hasOverride =>
    \A d \in DOMAIN devices \ touched :
      \/ devices[d].drv = drv[d] /\ drv[d] = before.drv[d]
      \/ \E i \in 1..Handled : Device(i) = d

Silent == Binding => HandledOK /\ SpentOK /\ UnhandledOK /\ AtHand

\* The parts of TypeOK.
KernelOK ==
  /\ drv \in [Devs -> Drivers \cup {None}]
  /\ override \in [Devs -> DpdkDrivers \cup {None}]
  /\ newIds \subseteq DpdkDrivers \X {Ident[d] : d \in Devs}
  /\ modules \subseteq Drivers
  /\ routed \subseteq {d \in Devs : IsInterface(d)}
  /\ dpdk \subseteq DpdkDrivers /\ loaded \subseteq Drivers
DevicesOK ==
  /\ DOMAIN devices \subseteq Devs
  /\ \A d \in DOMAIN devices : devices[d] \in Snapshots
PlaceOK ==
  /\ rest \subseteq DOMAIN devices
  /\ pc \in {"unbind", "bind", "override", "write", "verify", "clear"} => cur \in DOMAIN devices
  /\ ret \in {"act", "show", "loop", "each", "post", "override"}
  /\ exit \in {"none", "ok", "error", "traceback", "killed"}
  /\ active \subseteq Devs /\ told \subseteq Devs /\ touched \subseteq Devs

IInv == TypeOK /\ Located /\ Loaded /\ Fresh /\ Alike /\ StatusIsFresh /\ Kept /\ Untouched
        /\ Left /\ Again /\ Turn /\ Silent

-----------------------------------------------------------------------------
(***************************************************************************)
(* The groups.                                                             *)
(***************************************************************************)
\* There are seven of them, the network devices first.
LEMMA GroupsFacts ==
  /\ DOMAIN Groups = 1..7 /\ Len(Groups) = 7
  /\ \A i \in 1..7 : Groups[i].name = "net" => i = 1
BY DEF Groups

\* A group is made of devices.
LEMMA InGroupIn == \A i : InGroup(i) \subseteq Devs
BY DEF InGroup

\* The next group asked for is a later one, or there is none.
LEMMA GroupAfterIn ==
  \A i \in 0..7 : GroupAfter(i) = 0 \/ (GroupAfter(i) \in 1..7 /\ GroupAfter(i) > i)
<1> TAKE i \in 0..7
<1> DEFINE more == {j \in (i + 1)..7 : InGroup(j) # {}}
<1>1. GroupAfter(i) = IF more = {} THEN 0 ELSE Min(more)
  BY GroupsFacts DEF GroupAfter
<1>2. ASSUME NEW j \in more PROVE \E x \in more : \A y \in more : x <= y
  <2>1. more \subseteq 1..7
    OBVIOUS
  <2>2. \A k \in 1..7 : k \in more /\ (\A n \in 1..7 : n < k => n \notin more)
                         => \A y \in more : k <= y
    BY <2>1
  <2> HIDE DEF more
  <2>3. QED BY <1>2, <2>1, <2>2
<1>3. ASSUME more # {} PROVE Min(more) \in more
  BY <1>2, <1>3 DEF Min
<1>4. QED BY <1>1, <1>3

\* Whether a device is marked is a truth value.
LEMMA SshIn ==
  \A d, g : /\ IsInterface(d) \in BOOLEAN
            /\ (Groups[g].name = "net" /\ IsInterface(d) /\ d \in routed) \in BOOLEAN
BY SMT DEF IsInterface

\* No driver is none, and none has the name of another kind.
LEMMA NotDrivers ==
  /\ None \notin Drivers /\ "" \notin Drivers /\ None # "" /\ "none" \notin Drivers
  /\ "None" \notin Drivers
  /\ None \notin KernelDrivers /\ None \notin DpdkDrivers /\ None \notin Devs
  /\ KernelDrivers \cap DpdkDrivers = {} /\ Drivers = KernelDrivers \cup DpdkDrivers
BY DriversAssumption DEF Drivers

-----------------------------------------------------------------------------
USE DEF kernel, config, frame, results, history, scanned,
    InScript, InOne, Stop, MapNames, SetDriver, Move, Tell, Restore


\* The empty dictionary has no device.
LEMMA EmptyDomain == DOMAIN <<>> = {}
<1>1. \A q \in Seq(Nat) : DOMAIN q = 1..Len(q)
  OBVIOUS
<1>2. <<>> \in Seq(Nat) /\ Len(<<>>) = 0
  BY EmptySeq
<1>3. QED BY <1>1, <1>2

\* What the start of a run sets.
LEMMA ParseStops == \A l : parse_args(l).stop \in {"go", "ok", "error"}
BY DEF parse_args

\* main() ends on the command line, or begins to read with an empty dictionary.
LEMMA MainSets ==
  ASSUME NEW l \in CmdLines, Main(l)
  PROVE  /\ pc = "done" /\ line' = l /\ before' = [drv |-> drv, override |-> override]
         /\ drv' = drv /\ override' = override /\ newIds' = newIds /\ modules' = modules
         /\ routed' = routed /\ py' = py /\ hasOverride' = hasOverride
         /\ active' = {} /\ told' = {} /\ touched' = {} /\ shown' = {} /\ rest' = {}
         /\ devices' = <<>> /\ DOMAIN devices' = {} /\ todo' = <<>>
         /\ \/ /\ pc' = "done" /\ opts'.stop # "go" /\ exit' \in {"ok", "error"}
               /\ dpdk' = {} /\ loaded' = {} /\ ret' = "loop"
            \/ /\ pc' = "act" \/ (pc' = "lspci" /\ group' \in 1..7)
               /\ exit' = "none" /\ ret' = "act"
               /\ dpdk' = DpdkDrivers \cap modules /\ loaded' = modules
<1>1. /\ pc = "done" /\ line' = l /\ before' = [drv |-> drv, override |-> override]
      /\ drv' = drv /\ override' = override /\ newIds' = newIds /\ modules' = modules
      /\ routed' = routed /\ py' = py /\ hasOverride' = hasOverride
      /\ active' = {} /\ told' = {} /\ touched' = {} /\ shown' = {} /\ rest' = {}
      /\ devices' = <<>> /\ todo' = <<>> /\ opts' = parse_args(l)
  BY DEF Main
<1>2. DOMAIN devices' = {}
  BY <1>1, EmptyDomain
<1>3. CASE opts'.stop # "go"
  <2>1. /\ pc' = "done" /\ exit' = opts'.stop /\ dpdk' = {} /\ loaded' = {} /\ ret' = "loop"
    BY <1>3 DEF Main
  <2>2. opts'.stop \in {"ok", "error"}
    BY <1>1, <1>3, ParseStops
  <2>3. QED BY <1>1, <1>2, <1>3, <2>1, <2>2
<1>4. CASE opts'.stop = "go"
  <2>1. /\ group' = GroupAfter(0) /\ exit' = "none" /\ ret' = "act"
        /\ pc' = IF group' = 0 THEN "act" ELSE "lspci"
        /\ dpdk' = DpdkDrivers \cap modules /\ loaded' = modules
    BY <1>4 DEF Main
  <2>2. group' = 0 \/ group' \in 1..7
    <3>1. 0 \in 0..7
      OBVIOUS
    <3>2. QED BY <2>1, <3>1, GroupAfterIn
  <2>3. QED BY <1>1, <1>2, <2>1, <2>2
<1>5. QED BY <1>3, <1>4

\* What the second loop of bind_all does with a device.
PostCheckOf(d) ==
  /\ rest' = rest \ {d}
  /\ \/ py = 3 /\ pc' = "done" /\ exit' = "traceback" /\ UNCHANGED <<devices, cur, ret>>
     \/ /\ py # 3 /\ cur' = d /\ ret' = "post" /\ UNCHANGED exit
        /\ devices' = [devices EXCEPT
                          ![d] = [drv |-> drv[d], iface |-> IsInterface(d), ssh |-> FALSE]]
        /\ pc' = IF drv[d] # None THEN "unbind" ELSE "post"

\* The second loop of bind_all takes a device out of rest and changes no device.
LEMMA PostCheckIs ==
  ASSUME PostCheck
  PROVE  /\ pc = "post" /\ \E d \in rest : PostCheckOf(d)
         /\ UNCHANGED <<kernel, config, group, dpdk, loaded, opts, todo, want, saved, shown,
                        history, told>>
<1>1. \E d \in rest : PostCheckOf(d)
  BY Zenon DEF PostCheck, PostCheckOf
<1>2. QED BY <1>1 DEF PostCheck

\* Devices of one identity are in the same groups.
LEMMA InGroupAlike ==
  \A i : \A d, e \in Devs : d \in InGroup(i) /\ Ident[d] = Ident[e] => e \in InGroup(i)
BY DEF InGroup, device_type_match

\* What the two reads of a group set.
LEMMA ReadLspciIs ==
  ASSUME ReadLspci
  PROVE  /\ pc = "lspci" /\ pc' = "details"
         /\ DOMAIN devices' = DOMAIN devices \cup InGroup(group)
         /\ \A d \in InGroup(group) : devices'[d] = [drv |-> drv[d], iface |-> FALSE, ssh |-> FALSE]
         /\ \A d \in DOMAIN devices : d \notin InGroup(group) => devices'[d] = devices[d]
         /\ UNCHANGED <<kernel, config, group, dpdk, loaded, opts, todo, rest, frame, results,
                        history, told>>
BY DEF ReadLspci

\* get_device_details reads no driver again; only the network group can add to
\* active, and marks what it adds.
LEMMA ReadDetailsIs ==
  ASSUME ReadDetails, Located, Fresh, DevicesOK
  PROVE  /\ pc = "details" /\ group \in 1..7 /\ InGroup(group) \subseteq DOMAIN devices
         /\ DOMAIN devices' = DOMAIN devices
         /\ \A d \in DOMAIN devices : devices'[d].drv = devices[d].drv
         /\ \A d \in DOMAIN devices : d \notin InGroup(group) => devices'[d] = devices[d]
         /\ active \subseteq active'
         /\ \A d \in active' \ active : d \in InGroup(group) /\ group = 1 /\ IsInterface(d)
         /\ group = 1 => \A d \in active' \ active : devices'[d].ssh
         /\ \/ group' = 0 /\ pc' = ret
            \/ group' \in 1..7 /\ group' > group /\ pc' = "lspci"
         /\ UNCHANGED <<kernel, config, dpdk, loaded, opts, todo, rest, frame, results,
                        runs, moves, before, told, touched>>
<1> DEFINE ssh(d) == Groups[group].name = "net" /\ IsInterface(d) /\ d \in routed
<1>1. pc = "details" /\ group \in 1..7 /\ InGroup(group) \subseteq DOMAIN devices
  BY GroupsFacts DEF ReadDetails, Located, Fresh, Scanning
<1>2. /\ DOMAIN devices' = DOMAIN devices
      /\ \A d \in DOMAIN devices : d \notin InGroup(group) => devices'[d] = devices[d]
      /\ \A d \in InGroup(group) :
           devices'[d] = [devices[d] EXCEPT !.iface = IsInterface(d), !.ssh = ssh(d)]
      /\ active' = active \cup {d \in InGroup(group) : ssh(d)}
  BY <1>1 DEF ReadDetails
<1>3. ASSUME NEW d \in InGroup(group)
      PROVE  devices'[d].drv = devices[d].drv /\ (ssh(d) => devices'[d].ssh)
  <2>1. /\ devices[d] \in Snapshots
        /\ devices'[d] = [devices[d] EXCEPT !.iface = IsInterface(d), !.ssh = ssh(d)]
    BY <1>1, <1>2 DEF DevicesOK
  <2> HIDE DEF ssh
  <2>2. QED BY <2>1 DEF Snapshots
<1>4. \A d \in DOMAIN devices : devices'[d].drv = devices[d].drv
  BY <1>2, <1>3
<1>5. \A d \in active' \ active : d \in InGroup(group) /\ ssh(d)
  BY <1>2
<1>6. \A d \in active' \ active : d \in InGroup(group) /\ group = 1 /\ IsInterface(d)
  BY <1>1, <1>5, GroupsFacts
<1>7. group' = GroupAfter(group) /\ pc' = IF group' = 0 THEN ret ELSE "lspci"
  BY DEF ReadDetails
<1>8. group' = 0 \/ (group' \in 1..7 /\ group' > group)
  BY <1>1, <1>7, GroupAfterIn
<1>9. UNCHANGED <<kernel, config, dpdk, loaded, opts, todo, rest, frame, results,
                  runs, moves, before, told, touched>>
  BY DEF ReadDetails
<1> HIDE DEF ssh
<1>10. QED BY <1>1, <1>2, <1>3, <1>4, <1>5, <1>6, <1>7, <1>8, <1>9

\* The command line stays as it is during a run.
LEMMA SameLine ==
  ASSUME line' = line
  PROVE  Requested' = Requested /\ \A i : Device(i)' = Device(i)
BY DEF Requested, Device

\* An unknown name is not converted.
LEMMA UnknownKnown == DevicesOK /\ None \in Requested => ~AllKnown
<1> SUFFICES ASSUME DevicesOK, NEW i \in DOMAIN line.names, Named[line.names[i]] = None
             PROVE  dev_id_from_dev_name(line.names[i]) = {}
  BY DEF Requested, AllKnown
<1>1. \A d \in DOMAIN devices : d # None
  BY NotDrivers DEF DevicesOK
<1>2. QED BY <1>1 DEF dev_id_from_dev_name

\* When all names are known, they are the devices that were asked for.
LEMMA AskedIs ==
  ASSUME AllKnown PROVE Asked = Requested
<1>1. \A i \in DOMAIN line.names : dev_id_from_dev_name(line.names[i]) = {Named[line.names[i]]}
  BY DEF AllKnown, dev_id_from_dev_name
<1>2. QED BY <1>1 DEF Asked, Requested

\* Every device to be bound or unbound is a device of the command line.
LEMMA AskedIn == Asked \subseteq Requested
BY DEF Asked, Requested, dev_id_from_dev_name

\* bind_one is at a device that was asked for.
LEMMA AtRequested ==
  ASSUME Turn, Located, Binding, OnName
  PROVE  Handled \in DOMAIN line.names /\ cur \in Requested
<1>1. line.names \in Seq(Names)
  BY LinesAssumption DEF Located, Binding
<1>2. todo \in Seq(Names) /\ Handled >= 1 /\ cur = Device(Handled)
  BY DEF Turn, Looping, Remaining
<1>3. /\ Len(todo) \in Nat /\ Len(line.names) \in Nat
      /\ DOMAIN line.names = 1..Len(line.names)
  BY <1>1, <1>2
<1>4. Handled \in DOMAIN line.names
  BY <1>2, <1>3 DEF Handled
<1>5. QED BY <1>2, <1>4 DEF Requested, Device

\* The list of names, and what is known of them.
LEMMA SameNames ==
  ASSUME line' = line, todo' = todo PROVE (Remaining' <=> Remaining) /\ Handled' = Handled
BY DEF Remaining, Handled

\* Whether every name is known depends on the command line and on what lspci and
\* sysfs named.
LEMMA SameKnown ==
  ASSUME line' = line, DOMAIN devices' = DOMAIN devices,
         \A d \in DOMAIN devices : devices'[d].iface = devices[d].iface
  PROVE  AllKnown' <=> AllKnown
<1>1. \A i \in DOMAIN line.names :
        dev_id_from_dev_name(line.names[i])' = dev_id_from_dev_name(line.names[i])
  BY DEF dev_id_from_dev_name
<1>2. QED BY <1>1 DEF AllKnown

\* The next name is taken from the list.
LEMMA NextRemains ==
  ASSUME Remaining, line.names \in Seq(Names), todo # <<>>, line' = line, todo' = Tail(todo)
  PROVE  /\ Remaining' /\ Handled' = Handled + 1 /\ Handled' \in DOMAIN line.names
         /\ Head(todo) = line.names[Handled'] /\ Handled \in Nat
<1>1. /\ todo \in Seq(Names) /\ Len(todo) \in Nat /\ Len(todo) > 0 /\ Head(todo) = todo[1]
      /\ todo' \in Seq(Names) /\ Len(todo') = Len(todo) - 1
      /\ \A j \in 1..Len(todo') : todo'[j] = todo[j + 1]
      /\ Len(line.names) \in Nat /\ DOMAIN line.names = 1..Len(line.names)
  <2>1. todo \in Seq(Names)
    BY DEF Remaining
  <2> DEFINE n == line.names
  <2>2. n \in Seq(Names) /\ Len(n) \in Nat /\ DOMAIN n = 1..Len(n)
    <3>1. n \in Seq(Names)
      OBVIOUS
    <3> HIDE DEF n
    <3>2. QED BY <3>1
  <2>3. QED BY <2>1, <2>2, HeadTailProperties, LenProperties, EmptySeq
<1>2. Len(todo) <= Len(line.names) /\ \A j \in 1..Len(todo) : todo[j] = line.names[Handled + j]
  BY DEF Remaining
<1>3. Handled = Len(line.names) - Len(todo) /\ Handled' = Len(line.names) - Len(todo')
  BY DEF Handled
<1>4. Handled' = Handled + 1 /\ Handled \in Nat /\ Handled' \in DOMAIN line.names
  BY <1>1, <1>2, <1>3
<1>5. Head(todo) = line.names[Handled']
  BY <1>1, <1>2, <1>4
<1>6. ASSUME NEW j \in 1..Len(todo') PROVE todo'[j] = line'.names[Handled' + j]
  <2>1. j + 1 \in 1..Len(todo) /\ j \in Nat
    BY <1>1
  <2>2. Handled' + j = Handled + (j + 1)
    BY <1>4, <2>1
  <2>3. QED BY <1>1, <1>2, <2>1, <2>2
<1>7. QED BY <1>1, <1>2, <1>4, <1>5, <1>6 DEF Remaining

\* All names are to be handled.
LEMMA AllRemain ==
  ASSUME line.names \in Seq(Names), line' = line, todo' = line.names
  PROVE  Remaining' /\ Handled' = 0
<1> DEFINE n == line.names
<1>1. n \in Seq(Names) /\ n = line'.names
  OBVIOUS
<1> HIDE DEF n
<1>2. Len(n) \in Nat /\ \A j \in 1..Len(n) : j = 0 + j
  BY <1>1
<1>3. todo' = n /\ Len(n) - Len(n) = 0
  BY <1>2 DEF n
<1>4. Handled' = 0
  BY <1>1, <1>3 DEF Handled
<1>5. QED BY <1>1, <1>2, <1>3, <1>4 DEF Remaining

\* A free device that is handled again was named twice.
LEMMA HandledTwice ==
  ASSUME line.names \in Seq(Names), NEW k \in DOMAIN line.names, NEW i \in 1..(k - 1),
         Device(i) = Device(k), before.drv[Device(k)] = None
  PROVE  FreeTwice(Device(k))
<1>1. i \in DOMAIN line.names /\ i # k
  <2> DEFINE n == line.names
  <2>1. Len(n) \in Nat /\ DOMAIN n = 1..Len(n)
    <3>1. n \in Seq(Names)
      OBVIOUS
    <3> HIDE DEF n
    <3>2. QED BY <3>1
  <2> HIDE DEF n
  <2>2. k \in DOMAIN n
    BY DEF n
  <2>3. i \in DOMAIN n /\ i # k
    BY <2>1, <2>2
  <2>4. QED BY <2>3 DEF n
<1>2. QED BY <1>1 DEF FreeTwice, Device

\* Whether a free device was named twice is known from the start of the run.
LEMMA SameTwice ==
  ASSUME line' = line, before' = before PROVE \A d : FreeTwice(d)' <=> FreeTwice(d)
BY DEF FreeTwice

\* Each name handled so far is a name of the command line.
LEMMA HandledRequested ==
  ASSUME Turn, Located, Binding, Looping \/ Checking \/ Ending
  PROVE  /\ line.names \in Seq(Names) /\ Handled \in Nat
         /\ \A i \in 1..Handled : i \in DOMAIN line.names /\ Device(i) \in Requested
<1>1. line.names \in Seq(Names)
  BY LinesAssumption DEF Located, Binding
<1>2. todo \in Seq(Names) /\ Len(todo) <= Len(line.names)
  BY DEF Turn, Remaining
<1>3. Len(todo) \in Nat /\ Len(line.names) \in Nat /\ DOMAIN line.names = 1..Len(line.names)
  BY <1>1, <1>2
<1>4. Handled \in Nat /\ \A i \in 1..Handled : i \in DOMAIN line.names
  BY <1>2, <1>3 DEF Handled
<1>5. QED BY <1>1, <1>4 DEF Requested, Device

\* What a step must leave alone for those it has handled to stay so.
LEMMA HandledKept ==
  ASSUME HandledOK, Turn, Located, Binding,
         UNCHANGED <<line, todo, opts, hasOverride, before>>,
         told \subseteq told', touched \subseteq touched',
         Looping' \/ Checking' \/ Ending' => Looping \/ Checking \/ Ending,
         \A d \in Devs : \/ d \notin Requested \/ d \in touched'
                        \/ (OnName /\ d = cur) \/ drv[d] # opts.flag
                        \/ (drv'[d] = drv[d] /\ override'[d] = override[d]),
         OnName => \/ OnName' /\ cur' = cur
                   \/ cur \in told' \cup touched'
                   \/ drv'[cur] = opts.flag /\ (hasOverride => override'[cur] = None)
                   \/ HasDriver(cur) /\ UNCHANGED <<drv, override>>
                   \/ ~(Looping' \/ Checking' \/ Ending')
  PROVE  HandledOK'
<1> DEFINE Has(d) ==
      /\ drv'[d] = opts.flag
      /\ hasOverride => override'[d] = None \/ (FreeTwice(d) /\ override'[d] = opts.flag)
<1> SUFFICES ASSUME Looping' \/ Checking' \/ Ending', NEW i \in 1..Handled,
                    Device(i) \notin told' \cup touched', ~(OnName' /\ Device(i) = cur')
             PROVE  Device(i) \in Devs /\ Has(Device(i))
  <2>1. Handled' = Handled /\ \A i : Device(i)' = Device(i)
    BY DEF Handled, Device
  <2>2. ASSUME Looping' \/ Checking' \/ Ending' PROVE \A i \in 1..Handled : Device(i) \in Devs
    BY <2>2 DEF HandledOK
  <2>3. \A i : HasDriver(Device(i))' <=> Has(Device(i))
    BY <2>1, SameTwice DEF HasDriver
  <2> HIDE DEF Has
  <2>4. QED BY <2>1, <2>2, <2>3 DEF HandledOK
<1> DEFINE d == Device(i)
<1>1. d \in Devs /\ d \in Requested
  BY HandledRequested DEF HandledOK
<1>2. (OnName /\ d = cur) \/ HasDriver(d)
  BY DEF HandledOK
<1> HIDE DEF d
<1>3. CASE OnName /\ d = cur
  BY <1>1, <1>3 DEF d, HasDriver
<1>4. CASE HasDriver(d) /\ ~(OnName /\ d = cur)
  <2>1. drv'[d] = drv[d] /\ override'[d] = override[d]
    BY <1>1, <1>4 DEF HasDriver, d
  <2>2. QED BY <1>1, <1>4, <2>1 DEF HasDriver, d
<1>5. QED BY <1>2, <1>3, <1>4

-----------------------------------------------------------------------------
(***************************************************************************)
(* Each step preserves the types.                                          *)
(***************************************************************************)
\* The kernel's state keeps its types.
LEMMA KernelStep ==
  ASSUME KernelOK, DevicesOK, PlaceOK, Located, [Next]_vars PROVE KernelOK'
<1> USE DEF KernelOK, DevicesOK, PlaceOK, IsInterface, Drivers
<1>1. CASE ReadLspci \/ ReadDetails \/ NothingToDo \/ StatusOnly
  BY <1>1 DEF ReadLspci, ReadDetails, NothingToDo, StatusOnly
<1>2. CASE unbind_all \/ bind_all \/ NextName \/ EndOfNames
  BY <1>2 DEF unbind_all, bind_all, NextName, EndOfNames
<1>3. CASE EachDpdk \/ PostCheck \/ EndOfDevices \/ UnbindSkip
  BY <1>3 DEF EachDpdk, PostCheck, EndOfDevices, UnbindSkip
<1>4. CASE UnbindNoFile \/ UnbindWrite \/ BindSkip \/ BindOne
  BY <1>4 DEF UnbindNoFile, UnbindWrite, BindSkip, BindOne
<1>5. CASE OverrideSkip \/ OverrideWrite \/ OverrideFail \/ BindNoFile
  BY <1>5 DEF OverrideSkip, OverrideWrite, OverrideFail, BindNoFile
<1>6. CASE BindWrite \/ Verify \/ ClearOverride \/ Refresh
  BY <1>6 DEF BindWrite, Verify, ClearOverride, Refresh
<1>7. CASE NoStatus \/ show_status \/ Kill
  BY <1>7 DEF NoStatus, show_status, Kill
<1>8. CASE NewIdWrite
  <2>1. /\ newIds' = newIds \cup {<<want, Ident[cur]>>} /\ want \in DpdkDrivers \cap modules
        /\ UNCHANGED <<override, modules, routed, dpdk, loaded>> /\ cur \in Devs
        /\ drv' = [d \in Devs |-> IF drv[d] = None /\ Ident[d] = Ident[cur] THEN want ELSE drv[d]]
    BY <1>8 DEF NewIdWrite
  <2>2. newIds' \subseteq DpdkDrivers \X {Ident[d] : d \in Devs}
    <3>1. want \in DpdkDrivers /\ Ident[cur] \in {Ident[d] : d \in Devs}
      BY <2>1
    <3> HIDE DEF DpdkDrivers
    <3>2. <<want, Ident[cur]>> \in DpdkDrivers \X {Ident[d] : d \in Devs}
      BY <3>1
    <3>3. QED BY <2>1, <3>2
  <2>3. drv' \in [Devs -> Drivers \cup {None}]
    BY <2>1
  <2>4. \A d \in Devs : IsInterface(d) => drv'[d] = drv[d]
    BY <2>1, NotDrivers
  <2>5. QED BY <2>1, <2>2, <2>3, <2>4
<1>9. ASSUME NEW d \in Devs, NEW f \in Drivers, OtherBind(d, f) PROVE KernelOK'
  BY <1>9 DEF OtherBind
<1>10. ASSUME NEW d \in Devs, OtherUnbind(d) PROVE KernelOK'
  BY <1>10 DEF OtherUnbind
<1>11. ASSUME NEW d \in Devs, RouteAdded(d) PROVE KernelOK'
  BY <1>11 DEF RouteAdded
<1>12. ASSUME NEW f \in Drivers, Rmmod(f) PROVE KernelOK'
  BY <1>12 DEF Rmmod
<1>13. ASSUME NEW l \in CmdLines, Main(l) PROVE KernelOK'
  BY <1>13, MainSets
<1>14. CASE UNCHANGED vars
  BY <1>14 DEF vars
<1>15. QED
  BY <1>1, <1>2, <1>3, <1>4, <1>5, <1>6, <1>7, <1>8, <1>9,
     <1>10, <1>11, <1>12, <1>13, <1>14 DEF Next, Script, Others

\* So does the script's dictionary.
LEMMA DevicesStep ==
  ASSUME KernelOK, DevicesOK, PlaceOK, Located, [Next]_vars PROVE DevicesOK'
<1> USE DEF DevicesOK, Snapshots
<1>1. CASE NothingToDo \/ StatusOnly \/ unbind_all \/ bind_all
  BY InGroupIn, <1>1 DEF NothingToDo, StatusOnly, unbind_all, bind_all
<1>2. CASE NextName \/ EndOfNames \/ EachDpdk \/ EndOfDevices
  BY InGroupIn, <1>2 DEF NextName, EndOfNames, EachDpdk, EndOfDevices
<1>3. CASE UnbindSkip \/ UnbindNoFile \/ BindSkip \/ BindOne
  BY InGroupIn, <1>3 DEF UnbindSkip, UnbindNoFile, BindSkip, BindOne
<1>4. CASE OverrideSkip \/ OverrideWrite \/ NewIdWrite \/ OverrideFail
  BY InGroupIn, <1>4 DEF OverrideSkip, OverrideWrite, NewIdWrite, OverrideFail
<1>5. CASE BindNoFile \/ BindWrite \/ Verify \/ ClearOverride
  BY InGroupIn, <1>5 DEF BindNoFile, BindWrite, Verify, ClearOverride
<1>6. CASE NoStatus \/ show_status \/ Kill
  BY InGroupIn, <1>6 DEF NoStatus, show_status, Kill
<1>7. CASE ReadLspci
  <2>1. /\ DOMAIN devices' = DOMAIN devices \cup InGroup(group) /\ InGroup(group) \subseteq Devs
        /\ \A d \in DOMAIN devices' :
             devices'[d] = IF d \in InGroup(group)
                           THEN [drv |-> drv[d], iface |-> FALSE, ssh |-> FALSE]
                           ELSE devices[d]
    BY InGroupIn, <1>7 DEF ReadLspci
  <2>2. \A d \in Devs : [drv |-> drv[d], iface |-> FALSE, ssh |-> FALSE] \in Snapshots
    BY DEF KernelOK
  <2> HIDE DEF Snapshots
  <2>3. QED BY <2>1, <2>2
<1>8. CASE ReadDetails
  <2> DEFINE ssh(d) == Groups[group].name = "net" /\ IsInterface(d) /\ d \in routed
  <2>1. /\ DOMAIN devices' = DOMAIN devices
        /\ \A d \in DOMAIN devices : \/ devices'[d] = devices[d]
             \/ devices'[d] = [devices[d] EXCEPT !.iface = IsInterface(d), !.ssh = ssh(d)]
    BY <1>8 DEF ReadDetails
  <2>2. \A d \in DOMAIN devices : IsInterface(d) \in BOOLEAN /\ ssh(d) \in BOOLEAN
    BY SshIn
  <2> HIDE DEF ssh
  <2>4. ASSUME NEW d \in DOMAIN devices PROVE devices'[d] \in Snapshots
    <3> DEFINE x == IsInterface(d)
               y == ssh(d)
    <3>1. x \in BOOLEAN /\ y \in BOOLEAN
      BY <2>2
    <3>2. devices'[d] = devices[d] \/ devices'[d] = [devices[d] EXCEPT !.iface = x, !.ssh = y]
      BY <2>1
    <3> HIDE DEF x, y
    <3>3. [devices[d] EXCEPT !.iface = x, !.ssh = y] \in Snapshots
      BY <3>1
    <3> HIDE DEF Snapshots
    <3>4. QED BY <3>2, <3>3
  <2>5. QED BY <2>1, <2>4
<1>9. CASE PostCheck
  <2>1. PICK d \in rest : PostCheckOf(d)
    BY <1>9, PostCheckIs
  <2>2. [drv |-> drv[d], iface |-> IsInterface(d), ssh |-> FALSE] \in Snapshots
    <3>1. IsInterface(d) \in BOOLEAN
      BY SshIn
    <3>2. d \in Devs
      BY DEF PlaceOK
    <3>3. QED BY <3>1, <3>2 DEF KernelOK
  <2> HIDE DEF Snapshots
  <2>3. QED BY <2>1, <2>2 DEF PostCheckOf
<1>10. CASE UnbindWrite
  <2>1. devices' \in {devices, [devices EXCEPT ![cur].drv = ""]}
    BY <1>10 DEF UnbindWrite
  <2>2. \A s \in Snapshots : [s EXCEPT !.drv = ""] \in Snapshots
    OBVIOUS
  <2>3. ASSUME NEW d \in DOMAIN devices
        PROVE  devices'[d] \in {devices[d], [devices[d] EXCEPT !.drv = ""]}
    BY <2>1
  <2> HIDE DEF Snapshots
  <2>4. DOMAIN devices' = DOMAIN devices
    BY <2>1
  <2>5. QED BY <2>2, <2>3, <2>4
<1>11. CASE Refresh
  BY <1>11, EmptyDomain DEF Refresh
<1>12. ASSUME NEW d \in Devs, NEW f \in Drivers, OtherBind(d, f) PROVE DevicesOK'
  BY InGroupIn, <1>12 DEF OtherBind
<1>13. ASSUME NEW d \in Devs, OtherUnbind(d) PROVE DevicesOK'
  BY InGroupIn, <1>13 DEF OtherUnbind
<1>14. ASSUME NEW d \in Devs, RouteAdded(d) PROVE DevicesOK'
  BY InGroupIn, <1>14 DEF RouteAdded
<1>15. ASSUME NEW f \in Drivers, Rmmod(f) PROVE DevicesOK'
  BY InGroupIn, <1>15 DEF Rmmod
<1>16. ASSUME NEW l \in CmdLines, Main(l) PROVE DevicesOK'
  BY <1>16, MainSets
<1>17. CASE UNCHANGED vars
  BY InGroupIn, <1>17 DEF vars
<1>18. QED
  BY <1>1, <1>2, <1>3, <1>4, <1>5, <1>6, <1>7, <1>8, <1>9, <1>10, <1>11,
     <1>12, <1>13, <1>14, <1>15, <1>16, <1>17 DEF Next, Script, Others

\* And the device it is at is in the dictionary.
LEMMA PlaceStep ==
  ASSUME KernelOK, DevicesOK, PlaceOK, Located, [Next]_vars PROVE PlaceOK'
<1> USE DEF PlaceOK, DevicesOK, Located, Scanning, dev_id_from_dev_name
<1>1. CASE ReadLspci \/ ReadDetails \/ NothingToDo \/ StatusOnly
  BY InGroupIn, <1>1 DEF ReadLspci, ReadDetails, NothingToDo, StatusOnly
<1>2. CASE unbind_all \/ bind_all \/ NextName \/ EndOfNames
  BY InGroupIn, <1>2 DEF unbind_all, bind_all, NextName, EndOfNames
<1>3. CASE EachDpdk \/ EndOfDevices \/ UnbindSkip \/ UnbindNoFile
  BY InGroupIn, <1>3 DEF EachDpdk, EndOfDevices, UnbindSkip, UnbindNoFile
<1>4. CASE UnbindWrite \/ BindSkip \/ BindOne \/ OverrideSkip
  BY InGroupIn, <1>4 DEF UnbindWrite, BindSkip, BindOne, OverrideSkip
<1>5. CASE OverrideWrite \/ NewIdWrite \/ OverrideFail \/ BindWrite
  BY InGroupIn, <1>5 DEF OverrideWrite, NewIdWrite, OverrideFail, BindWrite
<1>6. CASE ClearOverride \/ Refresh \/ NoStatus \/ show_status
  BY InGroupIn, <1>6 DEF ClearOverride, Refresh, NoStatus, show_status
<1>7. CASE Kill
  BY InGroupIn, <1>7 DEF Kill
<1>8. CASE PostCheck
  <2>1. PICK d \in rest : PostCheckOf(d)
    BY <1>8, PostCheckIs
  <2>2. UNCHANGED <<active, told, touched>>
    BY <1>8, PostCheckIs
  <2>3. QED BY <2>1, <2>2 DEF PostCheckOf
<1>9. CASE BindNoFile
  <2>1. /\ UNCHANGED <<rest, devices, ret, exit, cur, active, touched>>
        /\ cur \in DOMAIN devices /\ cur \in Devs
    BY <1>9 DEF BindNoFile
  <2>2. told' \in {told, told \cup {cur}} /\ pc' \in {"loop", "bind"}
    BY <1>9, Zenon DEF BindNoFile
  <2>3. QED BY <2>1, <2>2
<1>10. CASE Verify
  <2>1. /\ UNCHANGED <<rest, devices, ret, exit, cur, active, touched>>
        /\ cur \in DOMAIN devices /\ cur \in Devs
    BY <1>10 DEF Verify
  <2>2. told' \in {told, told \cup {cur}} /\ pc' \in {"loop", "bind"}
    BY <1>10, Zenon DEF Verify
  <2>3. QED BY <2>1, <2>2
<1>11. ASSUME NEW d \in Devs, NEW f \in Drivers, OtherBind(d, f) PROVE PlaceOK'
  BY InGroupIn, <1>11 DEF OtherBind
<1>12. ASSUME NEW d \in Devs, OtherUnbind(d) PROVE PlaceOK'
  BY InGroupIn, <1>12 DEF OtherUnbind
<1>13. ASSUME NEW d \in Devs, RouteAdded(d) PROVE PlaceOK'
  BY InGroupIn, <1>13 DEF RouteAdded
<1>14. ASSUME NEW f \in Drivers, Rmmod(f) PROVE PlaceOK'
  BY InGroupIn, <1>14 DEF Rmmod
<1>15. ASSUME NEW l \in CmdLines, Main(l) PROVE PlaceOK'
  BY <1>15, MainSets
<1>16. CASE UNCHANGED vars
  BY InGroupIn, <1>16 DEF vars
<1>17. QED
  BY <1>1, <1>2, <1>3, <1>4, <1>5, <1>6, <1>7, <1>8, <1>9, <1>10,
     <1>11, <1>12, <1>13, <1>14, <1>15, <1>16 DEF Next, Script, Others

-----------------------------------------------------------------------------
(***************************************************************************)
(* Each step leaves the script where it may be.                            *)
(***************************************************************************)
\* One step leads to another.
LEMMA LocatedStep ==
  ASSUME KernelOK, DevicesOK, PlaceOK, Located, [Next]_vars PROVE Located'
<1> USE DEF Located, Phases, Scanning, Binding, Started, Unbinding, DevicesOK, PlaceOK, KernelOK
<1>1. CASE ReadLspci \/ NothingToDo \/ StatusOnly \/ unbind_all
  BY GroupsFacts, GroupAfterIn, DriversAssumption, <1>1 DEF ReadLspci, NothingToDo, StatusOnly,
       unbind_all
<1>2. CASE bind_all \/ NextName \/ EndOfNames \/ EachDpdk
  BY GroupsFacts, GroupAfterIn, DriversAssumption, <1>2 DEF bind_all, NextName, EndOfNames,
       EachDpdk
<1>3. CASE PostCheck \/ EndOfDevices \/ UnbindSkip \/ UnbindNoFile
  BY GroupsFacts, GroupAfterIn, DriversAssumption, <1>3 DEF PostCheck, EndOfDevices,
       UnbindSkip, UnbindNoFile
<1>4. CASE UnbindWrite \/ BindSkip \/ BindOne \/ OverrideSkip
  BY GroupsFacts, GroupAfterIn, DriversAssumption, <1>4 DEF UnbindWrite, BindSkip, BindOne,
       OverrideSkip
<1>5. CASE OverrideWrite \/ NewIdWrite \/ OverrideFail \/ BindNoFile
  BY GroupsFacts, GroupAfterIn, DriversAssumption, <1>5 DEF OverrideWrite, NewIdWrite,
       OverrideFail, BindNoFile
<1>6. CASE BindWrite \/ Verify \/ ClearOverride \/ NoStatus
  BY ZenonT(40), GroupsFacts, GroupAfterIn, DriversAssumption, <1>6 DEF BindWrite, Verify, ClearOverride,
       NoStatus
<1>7. CASE Kill
  BY GroupsFacts, GroupAfterIn, DriversAssumption, <1>7 DEF Kill
<1>8. CASE ReadDetails
  <2>1. /\ pc' = IF group' = 0 THEN ret ELSE "lspci"
        /\ group' = 0 \/ group' \in DOMAIN Groups
        /\ UNCHANGED <<py, line, ret, rest, shown, exit, opts>> /\ pc = "details"
    <3>1. group \in 0..7 /\ group' = GroupAfter(group)
      <4>1. group' = GroupAfter(group) /\ group \in DOMAIN Groups
        BY <1>8 DEF ReadDetails
      <4>2. QED BY <4>1, GroupsFacts
    <3>2. group' = 0 \/ group' \in DOMAIN Groups
      BY <3>1, GroupAfterIn, GroupsFacts
    <3>3. QED BY <1>8, <3>2 DEF ReadDetails
  <2>2. QED BY <2>1
<1>9. CASE Refresh
  <2>1. /\ pc' = (IF group' = 0 THEN "show" ELSE "lspci") /\ ret' = "show"
        /\ group' = 0 \/ group' \in DOMAIN Groups
        /\ UNCHANGED <<py, line, rest, shown, exit, opts>> /\ pc = "status"
    <3>1. group' = 0 \/ group' \in DOMAIN Groups
      <4>1. group' = GroupAfter(0) /\ 0 \in 0..7
        BY <1>9 DEF Refresh
      <4>2. QED BY <4>1, GroupAfterIn, GroupsFacts
    <3>3. QED BY <1>9, <3>1 DEF Refresh
  <2>2. QED BY <2>1
<1>10. CASE show_status
  <2>1. \A s \in shown' : s[2] \in DOMAIN devices
    BY <1>10 DEF show_status
  <2>2. /\ pc' = "done" /\ UNCHANGED <<py, line, ret, rest, opts>> /\ pc = "show"
    BY <1>10 DEF show_status
  <2>3. QED BY <2>1, <2>2
<1>11. ASSUME NEW d \in Devs, NEW f \in Drivers, OtherBind(d, f) PROVE Located'
  BY GroupsFacts, GroupAfterIn, DriversAssumption, <1>11 DEF OtherBind
<1>12. ASSUME NEW d \in Devs, OtherUnbind(d) PROVE Located'
  BY GroupsFacts, GroupAfterIn, DriversAssumption, <1>12 DEF OtherUnbind
<1>13. ASSUME NEW d \in Devs, RouteAdded(d) PROVE Located'
  BY GroupsFacts, GroupAfterIn, DriversAssumption, <1>13 DEF RouteAdded
<1>14. ASSUME NEW f \in Drivers, Rmmod(f) PROVE Located'
  BY GroupsFacts, GroupAfterIn, DriversAssumption, <1>14 DEF Rmmod
<1>15. ASSUME NEW l \in CmdLines, Main(l) PROVE Located'
  BY <1>15, MainSets, GroupsFacts
<1>16. CASE UNCHANGED vars
  BY GroupsFacts, GroupAfterIn, DriversAssumption, <1>16 DEF vars
<1>17. QED
  BY <1>1, <1>2, <1>3, <1>4, <1>5, <1>6, <1>7, <1>8, <1>9, <1>10,
     <1>11, <1>12, <1>13, <1>14, <1>15, <1>16 DEF Next, Script, Others

-----------------------------------------------------------------------------
(***************************************************************************)
(* What the script knows of the kernel.                                    *)
(***************************************************************************)
\* Drivers are unloaded only when no device is left with them.
LEMMA LoadedStep ==
  ASSUME KernelOK, DevicesOK, PlaceOK, Located, Loaded, [Next]_vars PROVE Loaded'
<1> USE DEF Loaded, KernelOK, DevicesOK, PlaceOK
<1>1. CASE ReadLspci \/ ReadDetails \/ NothingToDo \/ StatusOnly
  BY NotDrivers, <1>1 DEF ReadLspci, ReadDetails, NothingToDo, StatusOnly
<1>2. CASE unbind_all \/ bind_all \/ NextName \/ EndOfNames
  BY NotDrivers, <1>2 DEF unbind_all, bind_all, NextName, EndOfNames
<1>3. CASE EachDpdk \/ PostCheck \/ EndOfDevices \/ UnbindSkip
  BY NotDrivers, <1>3 DEF EachDpdk, PostCheck, EndOfDevices, UnbindSkip
<1>4. CASE UnbindNoFile \/ UnbindWrite \/ BindSkip \/ BindOne
  BY NotDrivers, <1>4 DEF UnbindNoFile, UnbindWrite, BindSkip, BindOne
<1>5. CASE OverrideSkip \/ OverrideWrite \/ NewIdWrite \/ OverrideFail
  BY NotDrivers, <1>5 DEF OverrideSkip, OverrideWrite, NewIdWrite, OverrideFail
<1>6. CASE BindNoFile \/ BindWrite \/ Verify \/ ClearOverride
  BY ZenonT(40), NotDrivers, <1>6 DEF BindNoFile, BindWrite, Verify, ClearOverride
<1>7. CASE Refresh \/ NoStatus \/ show_status \/ Kill
  BY NotDrivers, <1>7 DEF Refresh, NoStatus, show_status, Kill
<1>8. ASSUME NEW d \in Devs, NEW f \in Drivers, OtherBind(d, f) PROVE Loaded'
  BY NotDrivers, <1>8 DEF OtherBind
<1>9. ASSUME NEW d \in Devs, OtherUnbind(d) PROVE Loaded'
  BY NotDrivers, <1>9 DEF OtherUnbind
<1>10. ASSUME NEW d \in Devs, RouteAdded(d) PROVE Loaded'
  BY NotDrivers, <1>10 DEF RouteAdded
<1>11. ASSUME NEW f \in Drivers, Rmmod(f) PROVE Loaded'
  BY NotDrivers, <1>11 DEF Rmmod
<1>12. ASSUME NEW l \in CmdLines, Main(l) PROVE Loaded'
  BY <1>12, MainSets
<1>13. CASE UNCHANGED vars
  BY NotDrivers, <1>13 DEF vars
<1>14. QED
  BY <1>1, <1>2, <1>3, <1>4, <1>5, <1>6, <1>7, <1>8,
     <1>9, <1>10, <1>11, <1>12, <1>13 DEF Next, Script, Others

\* Each group is read before it is used.
LEMMA FreshStep ==
  ASSUME KernelOK, DevicesOK, PlaceOK, Located, Fresh, [Next]_vars PROVE Fresh'
<1> USE DEF Fresh, Scanning, Located, KernelOK, DevicesOK, PlaceOK
<1>1. CASE NothingToDo \/ StatusOnly \/ unbind_all \/ bind_all
  BY <1>1 DEF NothingToDo, StatusOnly, unbind_all, bind_all
<1>2. CASE NextName \/ EndOfNames \/ EachDpdk \/ PostCheck
  BY <1>2 DEF NextName, EndOfNames, EachDpdk, PostCheck
<1>3. CASE EndOfDevices \/ UnbindSkip \/ UnbindNoFile \/ UnbindWrite
  BY <1>3 DEF EndOfDevices, UnbindSkip, UnbindNoFile, UnbindWrite
<1>4. CASE BindSkip \/ BindOne \/ OverrideSkip \/ OverrideWrite
  BY <1>4 DEF BindSkip, BindOne, OverrideSkip, OverrideWrite
<1>5. CASE NewIdWrite \/ OverrideFail \/ BindNoFile \/ BindWrite
  BY <1>5 DEF NewIdWrite, OverrideFail, BindNoFile, BindWrite
<1>6. CASE Verify \/ ClearOverride \/ NoStatus \/ show_status
  BY <1>6 DEF Verify, ClearOverride, NoStatus, show_status
<1>7. CASE Kill
  BY <1>7 DEF Kill
<1>8. CASE ReadLspci
  BY <1>8, ReadLspciIs, InGroupIn
<1>9. CASE ReadDetails
  BY <1>9, ReadDetailsIs
<1>10. CASE Refresh
  BY <1>10, EmptyDomain DEF Refresh
<1>11. ASSUME NEW d \in Devs, NEW f \in Drivers, OtherBind(d, f) PROVE Fresh'
  BY <1>11 DEF OtherBind
<1>12. ASSUME NEW d \in Devs, OtherUnbind(d) PROVE Fresh'
  BY <1>12 DEF OtherUnbind
<1>13. ASSUME NEW d \in Devs, RouteAdded(d) PROVE Fresh'
  BY <1>13 DEF RouteAdded
<1>14. ASSUME NEW f \in Drivers, Rmmod(f) PROVE Fresh'
  BY <1>14 DEF Rmmod
<1>15. ASSUME NEW l \in CmdLines, Main(l) PROVE Fresh'
  BY <1>15, MainSets
<1>16. CASE UNCHANGED vars
  BY <1>16 DEF vars
<1>17. QED
  BY <1>1, <1>2, <1>3, <1>4, <1>5, <1>6, <1>7, <1>8, <1>9, <1>10,
     <1>11, <1>12, <1>13, <1>14, <1>15, <1>16 DEF Next, Script, Others

\* A group is read as a whole.
LEMMA AlikeStep ==
  ASSUME KernelOK, DevicesOK, PlaceOK, Located, Alike, [Next]_vars PROVE Alike'
<1> USE DEF Alike
<1>1. CASE ReadDetails \/ NothingToDo \/ StatusOnly \/ unbind_all
  BY InGroupAlike, <1>1 DEF ReadDetails, NothingToDo, StatusOnly, unbind_all
<1>2. CASE bind_all \/ NextName \/ EndOfNames \/ EachDpdk
  BY InGroupAlike, <1>2 DEF bind_all, NextName, EndOfNames, EachDpdk
<1>3. CASE EndOfDevices \/ UnbindSkip \/ UnbindNoFile \/ UnbindWrite
  BY InGroupAlike, <1>3 DEF EndOfDevices, UnbindSkip, UnbindNoFile, UnbindWrite
<1>4. CASE BindSkip \/ BindOne \/ OverrideSkip \/ OverrideWrite
  BY InGroupAlike, <1>4 DEF BindSkip, BindOne, OverrideSkip, OverrideWrite
<1>5. CASE NewIdWrite \/ OverrideFail \/ BindNoFile \/ BindWrite
  BY InGroupAlike, <1>5 DEF NewIdWrite, OverrideFail, BindNoFile, BindWrite
<1>6. CASE Verify \/ ClearOverride \/ NoStatus \/ show_status
  BY InGroupAlike, <1>6 DEF Verify, ClearOverride, NoStatus, show_status
<1>7. CASE Kill
  BY InGroupAlike, <1>7 DEF Kill
<1>8. CASE ReadLspci
  BY <1>8, InGroupAlike, Zenon DEF ReadLspci
<1>9. CASE PostCheck
  BY <1>9, PostCheckIs DEF PostCheckOf
<1>10. CASE Refresh
  BY <1>10, EmptyDomain DEF Refresh
<1>11. ASSUME NEW d \in Devs, NEW f \in Drivers, OtherBind(d, f) PROVE Alike'
  BY InGroupAlike, <1>11 DEF OtherBind
<1>12. ASSUME NEW d \in Devs, OtherUnbind(d) PROVE Alike'
  BY InGroupAlike, <1>12 DEF OtherUnbind
<1>13. ASSUME NEW d \in Devs, RouteAdded(d) PROVE Alike'
  BY InGroupAlike, <1>13 DEF RouteAdded
<1>14. ASSUME NEW f \in Drivers, Rmmod(f) PROVE Alike'
  BY InGroupAlike, <1>14 DEF Rmmod
<1>15. ASSUME NEW l \in CmdLines, Main(l) PROVE Alike'
  BY <1>15, MainSets
<1>16. CASE UNCHANGED vars
  BY InGroupAlike, <1>16 DEF vars
<1>17. QED
  BY <1>1, <1>2, <1>3, <1>4, <1>5, <1>6, <1>7, <1>8, <1>9, <1>10,
     <1>11, <1>12, <1>13, <1>14, <1>15, <1>16 DEF Next, Script, Others

\* What was displayed is true still of the devices that keep their driver.
LEMMA StatusKept ==
  ASSUME StatusIsFresh, Located, touched \subseteq touched', shown' = shown,
         \A d \in Devs : d \in touched' \/ drv'[d] = drv[d]
  PROVE  StatusIsFresh'
<1> SUFFICES ASSUME NEW s \in shown, s[2] \notin touched' PROVE s[3] = Kind(s[2])'
  BY DEF StatusIsFresh
<1>1. s[2] \in Devs /\ s[3] = Kind(s[2])
  BY DEF Located, StatusIsFresh
<1>2. QED BY <1>1 DEF Kind


\* Nothing is displayed but what was just read.
LEMMA StatusStep ==
  ASSUME KernelOK, DevicesOK, PlaceOK, Located, Loaded, Fresh, StatusIsFresh,
         [Next]_vars
  PROVE  StatusIsFresh'
<1> USE DEF StatusIsFresh, Kind, KernelOK, DevicesOK, PlaceOK
<1>1. CASE ReadLspci \/ ReadDetails \/ NothingToDo \/ StatusOnly
  BY NotDrivers, <1>1 DEF ReadLspci, ReadDetails, NothingToDo, StatusOnly
<1>2. CASE unbind_all \/ bind_all \/ NextName \/ EndOfNames
  BY NotDrivers, <1>2 DEF unbind_all, bind_all, NextName, EndOfNames
<1>3. CASE EachDpdk \/ PostCheck \/ EndOfDevices \/ UnbindSkip
  BY NotDrivers, <1>3 DEF EachDpdk, PostCheck, EndOfDevices, UnbindSkip
<1>4. CASE UnbindNoFile \/ BindSkip \/ BindOne \/ OverrideSkip
  BY NotDrivers, <1>4 DEF UnbindNoFile, BindSkip, BindOne, OverrideSkip
<1>5. CASE OverrideWrite \/ OverrideFail \/ BindNoFile \/ Verify
  BY NotDrivers, <1>5 DEF OverrideWrite, OverrideFail, BindNoFile, Verify
<1>6. CASE ClearOverride \/ Refresh \/ NoStatus \/ Kill
  BY NotDrivers, <1>6 DEF ClearOverride, Refresh, NoStatus, Kill
<1>7. CASE UnbindWrite
  BY <1>7 DEF UnbindWrite, Located
<1>8. CASE NewIdWrite
  BY <1>8 DEF NewIdWrite, Located
<1>9. CASE BindWrite
  BY <1>9 DEF BindWrite, Located
<1>10. CASE show_status
  <2>1. ASSUME NEW d \in DOMAIN devices PROVE d \in touched \/ Category(d) = Kind(d)
    <3>1. d \in Devs /\ (d \in touched \/ devices[d].drv = drv[d])
      BY <1>10 DEF show_status, Fresh
    <3>2. drv[d] \in dpdk <=> drv[d] \in DpdkDrivers
      BY <1>10, <3>1, NotDrivers DEF show_status, Loaded
    <3>3. QED BY <3>1, <3>2 DEF Category
  <2>2. \A s \in shown' : \E d \in DOMAIN devices : s[2] = d /\ s[3] = Category(d)
    BY <1>10 DEF show_status
  <2>3. UNCHANGED <<drv, touched>>
    BY <1>10 DEF show_status
  <2>4. QED BY <2>1, <2>2, <2>3
<1>11. ASSUME NEW d \in Devs, NEW f \in Drivers, OtherBind(d, f) PROVE StatusIsFresh'
  <2>1. /\ shown' = shown /\ touched \subseteq touched'
        /\ \A e \in Devs : e \in touched' \/ drv'[e] = drv[e]
    BY <1>11 DEF OtherBind
  <2>2. QED BY <2>1, StatusKept
<1>12. ASSUME NEW d \in Devs, OtherUnbind(d) PROVE StatusIsFresh'
  <2>1. /\ shown' = shown /\ touched \subseteq touched'
        /\ \A e \in Devs : e \in touched' \/ drv'[e] = drv[e]
    BY <1>12 DEF OtherUnbind
  <2>2. QED BY <2>1, StatusKept
<1>13. ASSUME NEW d \in Devs, RouteAdded(d) PROVE StatusIsFresh'
  BY NotDrivers, <1>13 DEF RouteAdded
<1>14. ASSUME NEW f \in Drivers, Rmmod(f) PROVE StatusIsFresh'
  <2>1. /\ shown' = shown /\ touched \subseteq touched'
        /\ \A e \in Devs : e \in touched' \/ drv'[e] = drv[e]
    BY <1>14 DEF Rmmod
  <2>2. QED BY <2>1, StatusKept
<1>15. ASSUME NEW l \in CmdLines, Main(l) PROVE StatusIsFresh'
  BY <1>15, MainSets
<1>16. CASE UNCHANGED vars
  BY NotDrivers, <1>16 DEF vars
<1>17. QED
  BY <1>1, <1>2, <1>3, <1>4, <1>5, <1>6, <1>7, <1>8, <1>9, <1>10,
     <1>11, <1>12, <1>13, <1>14, <1>15, <1>16 DEF Next, Script, Others

\* A device with a route loses neither mark nor driver.
LEMMA KeptStep ==
  ASSUME KernelOK, DevicesOK, PlaceOK, Located, Fresh, Kept, Again, [Next]_vars PROVE Kept'
<1> USE DEF Kept, Marked, Scanning, Located, KernelOK, DevicesOK, PlaceOK
<1>1. CASE NothingToDo \/ StatusOnly \/ unbind_all \/ bind_all
  BY NotDrivers, <1>1 DEF NothingToDo, StatusOnly, unbind_all, bind_all
<1>2. CASE NextName \/ EndOfNames \/ EachDpdk \/ EndOfDevices
  BY NotDrivers, <1>2 DEF NextName, EndOfNames, EachDpdk, EndOfDevices
<1>3. CASE UnbindSkip \/ UnbindNoFile \/ BindSkip \/ BindOne
  BY NotDrivers, <1>3 DEF UnbindSkip, UnbindNoFile, BindSkip, BindOne
<1>4. CASE OverrideSkip \/ OverrideWrite \/ OverrideFail \/ BindNoFile
  BY NotDrivers, <1>4 DEF OverrideSkip, OverrideWrite, OverrideFail, BindNoFile
<1>5. CASE Verify \/ ClearOverride \/ Refresh \/ NoStatus
  BY NotDrivers, <1>5 DEF Verify, ClearOverride, Refresh, NoStatus
<1>6. CASE show_status \/ Kill
  BY NotDrivers, <1>6 DEF show_status, Kill
<1>7. CASE ReadLspci
  <2>1. \A d \in active : ReadTwice(d) \/ group = 1 \/ d \notin InGroup(group)
    BY GroupsFacts, <1>7, ReadLspciIs DEF ReadTwice
  <2>2. QED BY <1>7, <2>1, ReadLspciIs DEF ReadTwice
<1>8. CASE ReadDetails
  <2>1. active' \subseteq InGroup(1)
    BY <1>8, ReadDetailsIs
  <2>2. \A d \in active' \ active : d \in DOMAIN devices' /\ devices'[d].ssh /\ IsInterface(d)
    BY <1>8, ReadDetailsIs
  <2>3. \A d \in DOMAIN devices : d \in touched \/ devices'[d].drv = drv[d]
    BY <1>8, ReadDetailsIs DEF Fresh
  <2>4. \A d \in active : ReadTwice(d) \/ group = 1 \/ d \notin InGroup(group)
    BY <1>8, ReadDetailsIs, GroupsFacts DEF ReadTwice
  <2>5. ASSUME ret = "act" PROVE active # {} => group # 1
    BY <1>8, ReadDetailsIs, <2>5
  <2>6. QED BY <1>8, ReadDetailsIs, <2>1, <2>2, <2>3, <2>4, <2>5 DEF ReadTwice, IsInterface
<1>9. CASE PostCheck
  <2>1. PICK d \in rest : PostCheckOf(d)
    BY <1>9, PostCheckIs
  <2>2. devices[d].drv = None
    BY <1>9, PostCheckIs DEF Again, Checking
  <2>3. /\ UNCHANGED <<drv, active, touched, opts, group>> /\ pc = "post"
        /\ ret' \in {ret, "post"} /\ ret # "show" /\ pc' \in {"unbind", "post", "done"}
    BY <1>9, PostCheckIs, <2>1 DEF PostCheckOf
  <2>4. \A e \in Devs : Marked(e) => Marked(e)'
    <3>1. \A e \in Devs : Marked(e) => e # d
      BY <2>2, NotDrivers
    <3>2. /\ DOMAIN devices' = DOMAIN devices
          /\ \A e \in DOMAIN devices : e # d => devices'[e] = devices[e]
      BY <2>1 DEF PostCheckOf
    <3>3. QED BY <2>3, <3>1, <3>2
  <2>5. \A e : ReadTwice(e)' <=> ReadTwice(e)
    BY DEF ReadTwice
  <2> HIDE DEF Marked
  <2>6. QED BY <2>3, <2>4, <2>5, InGroupIn
<1>10. CASE UnbindWrite
  <2>1. ASSUME NEW d \in active \ touched, ~opts.force, Marked(d), pc # "done", ret # "show"
        PROVE  Marked(d)'
    <3>1. d # cur
      BY <1>10, <2>1 DEF UnbindWrite, Protected
    <3>2. drv'[d] = drv[d] /\ DOMAIN devices' = DOMAIN devices /\ devices'[d] = devices[d]
      BY <1>10, <2>1, <3>1 DEF UnbindWrite
    <3>3. QED BY <2>1, <3>2
  <2>2. UNCHANGED <<active, touched, opts, ret>> /\ pc = "unbind"
    BY <1>10 DEF UnbindWrite
  <2> HIDE DEF Marked
  <2>3. QED BY <2>1, <2>2 DEF ReadTwice
<1>11. CASE NewIdWrite
  BY NotDrivers, <1>11 DEF NewIdWrite
<1>12. CASE BindWrite
  <2>1. ASSUME NEW d \in active \ touched, Marked(d) PROVE Marked(d)'
    <3>1. d \in Devs /\ drv[d] # None
      BY <2>1, NotDrivers
    <3>2. drv'[d] = drv[d] /\ devices' = devices
      BY <1>12, <3>1 DEF BindWrite
    <3>3. QED BY <2>1, <3>2
  <2>2. /\ UNCHANGED <<active, touched, opts, ret>> /\ pc = "write"
        /\ pc' \in {"loop", "clear", "verify"}
    BY <1>12 DEF BindWrite
  <2> HIDE DEF Marked
  <2>3. QED BY <2>1, <2>2 DEF ReadTwice
<1>13. ASSUME NEW d \in Devs, NEW f \in Drivers, OtherBind(d, f) PROVE Kept'
  BY NotDrivers, <1>13 DEF OtherBind
<1>14. ASSUME NEW d \in Devs, OtherUnbind(d) PROVE Kept'
  BY NotDrivers, <1>14 DEF OtherUnbind
<1>15. ASSUME NEW d \in Devs, RouteAdded(d) PROVE Kept'
  BY NotDrivers, <1>15 DEF RouteAdded
<1>16. ASSUME NEW f \in Drivers, Rmmod(f) PROVE Kept'
  BY NotDrivers, <1>16 DEF Rmmod
<1>17. ASSUME NEW l \in CmdLines, Main(l) PROVE Kept'
  BY <1>17, MainSets
<1>18. CASE UNCHANGED vars
  BY NotDrivers, <1>18 DEF vars
<1>19. QED
  BY <1>1, <1>2, <1>3, <1>4, <1>5, <1>6, <1>7, <1>8, <1>9, <1>10, <1>11, <1>12,
     <1>13, <1>14, <1>15, <1>16, <1>17, <1>18 DEF Next, Script, Others

-----------------------------------------------------------------------------
(***************************************************************************)
(* The devices nobody asked for.                                           *)
(***************************************************************************)
\* The script acts only after it has converted the names.
LEMMA UntouchedStep ==
  ASSUME KernelOK, DevicesOK, PlaceOK, Located, Fresh, Untouched, [Next]_vars PROVE Untouched'
<1> USE DEF Untouched, Early, Stopping, Started, Scanning, AsFound, KernelOK, DevicesOK,
     PlaceOK, Located
<1>1. CASE NothingToDo \/ StatusOnly \/ unbind_all \/ bind_all
  BY SameLine, UnknownKnown, <1>1 DEF NothingToDo, StatusOnly, unbind_all, bind_all
<1>2. CASE NextName \/ EndOfNames \/ EachDpdk \/ EndOfDevices
  BY SameLine, UnknownKnown, <1>2 DEF NextName, EndOfNames, EachDpdk, EndOfDevices
<1>3. CASE UnbindSkip \/ UnbindNoFile \/ UnbindWrite \/ BindSkip
  BY SameLine, UnknownKnown, <1>3 DEF UnbindSkip, UnbindNoFile, UnbindWrite, BindSkip
<1>4. CASE BindOne \/ OverrideSkip \/ OverrideWrite \/ NewIdWrite
  BY SameLine, UnknownKnown, <1>4 DEF BindOne, OverrideSkip, OverrideWrite, NewIdWrite
<1>5. CASE OverrideFail \/ BindNoFile \/ BindWrite \/ Verify
  BY SameLine, UnknownKnown, <1>5 DEF OverrideFail, BindNoFile, BindWrite, Verify
<1>6. CASE ClearOverride \/ Refresh \/ NoStatus \/ show_status
  BY SameLine, UnknownKnown, <1>6 DEF ClearOverride, Refresh, NoStatus, show_status
<1>7. CASE Kill
  BY SameLine, UnknownKnown, <1>7 DEF Kill
<1>8. CASE ReadLspci
  BY <1>8, ReadLspciIs, SameLine
<1>9. CASE ReadDetails
  BY <1>9, ReadDetailsIs, SameLine
<1>10. CASE PostCheck
  BY <1>10, PostCheckIs, SameLine DEF PostCheckOf
<1>11. ASSUME NEW d \in Devs, NEW f \in Drivers, OtherBind(d, f) PROVE Untouched'
  BY SameLine, UnknownKnown, <1>11 DEF OtherBind
<1>12. ASSUME NEW d \in Devs, OtherUnbind(d) PROVE Untouched'
  BY SameLine, UnknownKnown, <1>12 DEF OtherUnbind
<1>13. ASSUME NEW d \in Devs, RouteAdded(d) PROVE Untouched'
  BY SameLine, UnknownKnown, <1>13 DEF RouteAdded
<1>14. ASSUME NEW f \in Drivers, Rmmod(f) PROVE Untouched'
  BY SameLine, UnknownKnown, <1>14 DEF Rmmod
<1>15. ASSUME NEW l \in CmdLines, Main(l) PROVE Untouched'
  BY <1>15, MainSets
<1>16. CASE UNCHANGED vars
  BY SameLine, UnknownKnown, <1>16 DEF vars
<1>17. QED
  BY <1>1, <1>2, <1>3, <1>4, <1>5, <1>6, <1>7, <1>8, <1>9, <1>10,
     <1>11, <1>12, <1>13, <1>14, <1>15, <1>16 DEF Next, Script, Others

\* It changes others by new_id alone.
LEMMA LeftStep ==
  ASSUME KernelOK, DevicesOK, PlaceOK, Located, Alike, Fresh, Untouched, Left, Again, Turn,
         [Next]_vars
  PROVE  Left'
<1> USE DEF Left, Taken, Looping, Checking, OnName, Binding, Started, Unbinding, KernelOK,
     DevicesOK, PlaceOK
<1>1. CASE ReadLspci \/ NothingToDo \/ StatusOnly \/ unbind_all
  BY SameLine, NotDrivers, <1>1 DEF ReadLspci, NothingToDo, StatusOnly, unbind_all
<1>2. CASE EachDpdk \/ EndOfDevices \/ UnbindNoFile \/ BindSkip
  BY SameLine, NotDrivers, <1>2 DEF EachDpdk, EndOfDevices, UnbindNoFile, BindSkip
<1>3. CASE BindOne \/ OverrideSkip \/ OverrideFail \/ BindNoFile
  BY SameLine, NotDrivers, <1>3 DEF BindOne, OverrideSkip, OverrideFail, BindNoFile
<1>4. CASE Verify \/ Refresh \/ NoStatus \/ show_status
  BY SameLine, NotDrivers, <1>4 DEF Verify, Refresh, NoStatus, show_status
<1>5. CASE Kill
  BY SameLine, NotDrivers, <1>5 DEF Kill
<1>6. CASE ReadDetails
  BY <1>6, ReadDetailsIs, SameLine DEF Located, Scanning
<1>7. CASE bind_all
  <2>1. ASSUME opts.flag \in Drivers, NEW d \in DOMAIN devices, d \notin Requested \cup touched
        PROVE  devices[d].drv = before.drv[d]
    BY <1>7, <2>1 DEF bind_all, Fresh
  <2>2. /\ UNCHANGED <<drv, override, devices, ret, cur, opts, hasOverride, rest, line,
                       touched, before>>
        /\ pc = "act" /\ (pc' = "loop" \/ (pc' = "done" /\ exit' # "ok"))
    BY <1>7 DEF bind_all
  <2>3. QED BY <2>1, <2>2, SameLine
<1>8. CASE NextName
  BY SameLine, NotDrivers, <1>8 DEF NextName
<1>9. CASE EndOfNames
  <2>1. /\ UNCHANGED <<drv, override, devices, ret, cur, exit, opts, hasOverride, line,
                       touched, before>>
        /\ pc = "loop"
    BY <1>9 DEF EndOfNames
  <2>2. CASE hasOverride \/ Unbinding
    <3>1. pc' = "status"
      BY <1>9, <2>2 DEF EndOfNames
    <3>2. QED BY <2>1, <2>2, <3>1, SameLine, NotDrivers
  <2>3. CASE ~(hasOverride \/ Unbinding)
    <3>1. /\ pc' = "post"
          /\ \A d \in DOMAIN devices :
               devices[d].drv = None /\ d \notin Requested => d \in rest'
      BY <1>9, <2>3, AskedIn DEF EndOfNames
    <3>2. QED BY <2>1, <2>3, <3>1, SameLine
  <2>4. QED BY <2>2, <2>3
<1>10. CASE PostCheck
  BY SameLine, NotDrivers, <1>10 DEF PostCheck
<1>11. CASE UnbindSkip
  <2>1. ret # "post"
    BY <1>11 DEF UnbindSkip, Again, Protected
  <2>2. /\ UNCHANGED <<drv, override, devices, ret, cur, exit, opts, hasOverride, rest, line,
                       touched, before>>
        /\ pc = "unbind" /\ pc' = ret
    BY <1>11 DEF UnbindSkip
  <2>3. QED BY <2>1, <2>2, SameLine DEF Located
<1>12. CASE UnbindWrite
  <2>1. ASSUME Binding, ret = "override" PROVE cur \in Requested
    BY <1>12, <2>1, AtRequested DEF UnbindWrite
  <2>2. ASSUME Binding, ret = "post", cur \notin Requested \cup touched PROVE before.drv[cur] = None
    BY <1>12, <2>2 DEF UnbindWrite, Again, Rechecked
  <2>3. /\ UNCHANGED <<override, ret, cur, opts, hasOverride, rest, line, touched, before>>
        /\ pc = "unbind" /\ DOMAIN devices' = DOMAIN devices /\ cur \in Devs
        /\ \A d \in Devs : d # cur => /\ drv'[d] = drv[d]
                                      /\ d \in DOMAIN devices => devices'[d] = devices[d]
        /\ \/ pc' = ret /\ exit' = exit /\ drv'[cur] = None
           \/ pc' = "done" /\ exit' = "traceback" /\ drv'[cur] = drv[cur]
    BY <1>12 DEF UnbindWrite
  <2>4. Binding => ret \in {"post", "override"}
    BY <2>3 DEF Located
  <2>5. QED BY <2>1, <2>2, <2>3, <2>4, SameLine
<1>13. CASE OverrideWrite
  <2>1. ASSUME Binding PROVE cur \in Requested
    BY <1>13, <2>1, AtRequested DEF OverrideWrite
  <2>2. /\ UNCHANGED <<drv, devices, ret, cur, exit, opts, hasOverride, rest, line, touched,
                       before>>
        /\ \A d \in Devs : d # cur => override'[d] = override[d]
        /\ pc' = "write" /\ pc = "override"
    BY <1>13 DEF OverrideWrite
  <2>3. QED BY <2>1, <2>2, SameLine
<1>14. CASE NewIdWrite
  <2>1. /\ UNCHANGED <<override, devices, ret, cur, exit, opts, hasOverride, rest, line,
                       touched, before>>
        /\ pc = "override" /\ pc' = "write" /\ ~hasOverride /\ cur \in DOMAIN devices
        /\ \A d \in Devs : drv'[d] = drv[d] \/ (drv[d] = None /\ Ident[d] = Ident[cur])
    BY <1>14 DEF NewIdWrite
  <2>2. \A d \in Devs : Ident[d] = Ident[cur] => d \in DOMAIN devices
    BY <2>1 DEF Alike
  <2>3. QED BY <2>1, <2>2, SameLine
<1>15. CASE BindWrite
  <2>1. ASSUME Binding PROVE cur \in Requested
    BY <1>15, <2>1, AtRequested DEF BindWrite
  <2>2. /\ UNCHANGED <<override, devices, ret, cur, exit, opts, hasOverride, rest, line,
                       touched, before>>
        /\ \A d \in Devs : d # cur => drv'[d] = drv[d]
        /\ pc' \in {"loop", "clear", "verify"} /\ pc = "write"
    BY <1>15 DEF BindWrite
  <2>3. QED BY <2>1, <2>2, SameLine
<1>16. CASE ClearOverride
  <2>1. ASSUME Binding PROVE cur \in Requested
    BY <1>16, <2>1, AtRequested DEF ClearOverride
  <2>2. /\ UNCHANGED <<drv, devices, ret, cur, opts, hasOverride, rest, line, touched, before>>
        /\ \A d \in Devs : d # cur => override'[d] = override[d]
        /\ pc = "clear" /\ (pc' = "loop" \/ (pc' = "done" /\ exit' # "ok"))
    BY <1>16 DEF ClearOverride
  <2>3. QED BY <2>1, <2>2, SameLine
<1>17. ASSUME NEW d \in Devs, NEW f \in Drivers, OtherBind(d, f) PROVE Left'
  <2>1. /\ UNCHANGED <<override, devices, ret, cur, exit, opts, hasOverride, rest, line,
                       before, pc>>
        /\ touched' = touched \cup {d} /\ \A e \in Devs : e # d => drv'[e] = drv[e]
    BY <1>17 DEF OtherBind
  <2>2. QED BY <2>1, SameLine
<1>18. ASSUME NEW d \in Devs, OtherUnbind(d) PROVE Left'
  <2>1. /\ UNCHANGED <<override, devices, ret, cur, exit, opts, hasOverride, rest, line,
                       before, pc>>
        /\ touched' = touched \cup {d} /\ \A e \in Devs : e # d => drv'[e] = drv[e]
    BY <1>18 DEF OtherUnbind
  <2>2. QED BY <2>1, SameLine
<1>19. ASSUME NEW d \in Devs, RouteAdded(d) PROVE Left'
  BY SameLine, NotDrivers, <1>19 DEF RouteAdded
<1>20. ASSUME NEW f \in Drivers, Rmmod(f) PROVE Left'
  BY SameLine, NotDrivers, <1>20 DEF Rmmod
<1>21. ASSUME NEW l \in CmdLines, Main(l) PROVE Left'
  BY <1>21, MainSets
<1>22. CASE UNCHANGED vars
  BY SameLine, NotDrivers, <1>22 DEF vars
<1>23. QED
  BY <1>1, <1>2, <1>3, <1>4, <1>5, <1>6, <1>7, <1>8, <1>9, <1>10, <1>11, <1>12, <1>13, <1>14,
     <1>15, <1>16, <1>17, <1>18, <1>19, <1>20, <1>21, <1>22 DEF Next, Script, Others

\* The second loop takes back what new_id gave.
LEMMA AgainStep ==
  ASSUME KernelOK, DevicesOK, PlaceOK, Located, Fresh, Left, Again, Turn,
         [Next]_vars
  PROVE  Again'
<1> USE DEF Again, Checking, Binding, Started, Unbinding, Rechecked, KernelOK, DevicesOK,
     PlaceOK
<1>1. CASE ReadLspci \/ NothingToDo \/ StatusOnly \/ unbind_all
  BY SameLine, NotDrivers, <1>1 DEF ReadLspci, NothingToDo, StatusOnly, unbind_all
<1>2. CASE bind_all \/ NextName \/ EachDpdk \/ EndOfDevices
  BY SameLine, NotDrivers, <1>2 DEF bind_all, NextName, EachDpdk, EndOfDevices
<1>3. CASE UnbindSkip \/ UnbindNoFile \/ UnbindWrite \/ BindSkip
  BY SameLine, NotDrivers, <1>3 DEF UnbindSkip, UnbindNoFile, UnbindWrite, BindSkip
<1>4. CASE BindOne \/ OverrideSkip \/ OverrideWrite \/ NewIdWrite
  BY SameLine, NotDrivers, <1>4 DEF BindOne, OverrideSkip, OverrideWrite, NewIdWrite
<1>5. CASE OverrideFail \/ BindNoFile \/ BindWrite \/ Verify
  BY SameLine, NotDrivers, <1>5 DEF OverrideFail, BindNoFile, BindWrite, Verify
<1>6. CASE ClearOverride \/ Refresh \/ NoStatus \/ show_status
  BY SameLine, NotDrivers, <1>6 DEF ClearOverride, Refresh, NoStatus, show_status
<1>7. CASE Kill
  BY SameLine, NotDrivers, <1>7 DEF Kill
<1>8. CASE ReadDetails
  BY <1>8, ReadDetailsIs DEF Located, Scanning
<1>9. CASE EndOfNames
  <2>1. CASE Unbinding \/ hasOverride
    BY <1>9, <2>1 DEF EndOfNames
  <2>2. CASE ~(Unbinding \/ hasOverride)
    <3>1. /\ pc = "loop" /\ todo = <<>> /\ pc' = "post" /\ ~hasOverride
          /\ rest' = {d \in DOMAIN devices : devices[d].drv = None} \ (IF py = 2 THEN Asked ELSE {})
          /\ UNCHANGED <<devices, hasOverride, exit, opts, line, touched, before, py>>
      BY <1>9, <2>2 DEF EndOfNames
    <3>2. Binding
      BY <1>9, <2>2 DEF Located, Looping, EndOfNames
    <3>3. py = 2 => Asked = Requested
      BY <3>1, <3>2, AskedIs DEF Turn, Looping
    <3>4. \A d \in rest' : devices[d].drv = None /\ Rechecked(d) /\ (py = 2 => d \notin Requested)
      BY <3>1, <3>2, <3>3 DEF Left, Looping
    <3>5. QED BY <3>1, <3>2, <3>4, SameLine
  <2>3. QED BY <2>1, <2>2
<1>10. CASE PostCheck
  <2>1. PICK d \in rest : PostCheckOf(d)
    BY <1>10, PostCheckIs
  <2>2. /\ devices[d].drv = None /\ Rechecked(d) /\ (py = 2 => d \notin Requested)
        /\ d \in DOMAIN devices
        /\ ~hasOverride /\ Binding
    BY <1>10, PostCheckIs
  <2>3. /\ Requested' = Requested /\ UNCHANGED <<hasOverride, opts, touched, before, py>>
        /\ rest' = rest \ {d} /\ pc = "post" /\ py \in {2, 3}
    BY <1>10, <2>1, PostCheckIs, SameLine DEF Located, PostCheckOf
  <2>4. \A e \in rest' : devices'[e] = devices[e]
    BY <2>1 DEF PostCheckOf
  <2>5. pc' = "unbind" => /\ devices'[d].drv # None /\ ~devices'[d].ssh /\ cur' = d /\ py = 2
                          /\ exit' = exit
    BY <2>1, <2>2, <2>3 DEF PostCheckOf
  <2>6. QED BY <2>1, <2>2, <2>3, <2>4, <2>5 DEF PostCheckOf
<1>11. ASSUME NEW d \in Devs, NEW f \in Drivers, OtherBind(d, f) PROVE Again'
  BY SameLine, NotDrivers, <1>11 DEF OtherBind
<1>12. ASSUME NEW d \in Devs, OtherUnbind(d) PROVE Again'
  BY SameLine, NotDrivers, <1>12 DEF OtherUnbind
<1>13. ASSUME NEW d \in Devs, RouteAdded(d) PROVE Again'
  BY SameLine, NotDrivers, <1>13 DEF RouteAdded
<1>14. ASSUME NEW f \in Drivers, Rmmod(f) PROVE Again'
  BY SameLine, NotDrivers, <1>14 DEF Rmmod
<1>15. ASSUME NEW l \in CmdLines, Main(l) PROVE Again'
  BY <1>15, MainSets
<1>16. CASE UNCHANGED vars
  BY SameLine, NotDrivers, <1>16 DEF vars
<1>17. QED
  BY <1>1, <1>2, <1>3, <1>4, <1>5, <1>6, <1>7, <1>8, <1>9, <1>10,
     <1>11, <1>12, <1>13, <1>14, <1>15, <1>16 DEF Next, Script, Others

-----------------------------------------------------------------------------
(***************************************************************************)
(* The devices that were asked for.                                        *)
(***************************************************************************)
\* Names are handled in the order of the command line.
LEMMA TurnStep ==
  ASSUME KernelOK, DevicesOK, PlaceOK, Located, Fresh, Left, Again, Turn,
         [Next]_vars
  PROVE  Turn'
<1> USE DEF Turn, Looping, Checking, OnName, Ending, Binding, Started, Unbinding, Scanning
<1>1. CASE ReadLspci \/ NothingToDo \/ StatusOnly \/ unbind_all
  BY SameLine, SameNames, SameKnown, NotDrivers, <1>1 DEF ReadLspci, NothingToDo, StatusOnly,
       unbind_all
<1>2. CASE EndOfNames \/ EachDpdk \/ PostCheck \/ UnbindNoFile
  BY SameLine, SameNames, SameKnown, NotDrivers, <1>2 DEF EndOfNames, EachDpdk, PostCheck,
       UnbindNoFile
<1>3. CASE BindSkip \/ BindOne \/ OverrideSkip \/ OverrideWrite
  BY SameLine, SameNames, SameKnown, NotDrivers, <1>3 DEF BindSkip, BindOne, OverrideSkip,
       OverrideWrite
<1>4. CASE NewIdWrite \/ OverrideFail \/ BindNoFile \/ BindWrite
  BY SameLine, SameNames, SameKnown, NotDrivers, <1>4 DEF NewIdWrite, OverrideFail, BindNoFile,
       BindWrite
<1>5. CASE Verify \/ ClearOverride \/ Refresh \/ NoStatus
  BY SameLine, SameNames, SameKnown, NotDrivers, <1>5 DEF Verify, ClearOverride, Refresh,
       NoStatus
<1>6. CASE show_status \/ Kill
  BY SameLine, SameNames, SameKnown, NotDrivers, <1>6 DEF show_status, Kill
<1>7. CASE ReadDetails
  BY <1>7, ReadDetailsIs, SameLine, SameNames DEF Located
<1>8. CASE bind_all
  <2>1. /\ UNCHANGED <<line, devices, opts, py, ret, cur>> /\ pc = "act"
        /\ \/ pc' = "loop" /\ todo' = line.names /\ (py = 2 => AllKnown)
           \/ pc' = "done" /\ exit' = "error"
    BY <1>8 DEF bind_all
  <2>2. line.names \in Seq(Names)
    BY <2>1, LinesAssumption DEF Located
  <2>3. QED BY <2>1, <2>2, AllRemain, SameKnown
<1>9. CASE NextName
  <2>1. /\ UNCHANGED <<line, devices, opts, py, exit>> \/ (pc' = "done" /\ exit' = "traceback")
        /\ pc = "loop" /\ line' = line /\ todo # <<>> /\ todo' = Tail(todo)
        /\ \/ pc' = "done"
           \/ /\ pc' = IF Unbinding THEN "unbind" ELSE "bind"
              /\ ret' = "loop" /\ cur' = Named[Head(todo)]
    BY <1>9 DEF NextName, dev_id_from_dev_name
  <2>2. line.names \in Seq(Names)
    BY <2>1, LinesAssumption DEF Located, Started
  <2>3. CASE Binding /\ pc' # "done"
    <3>1. /\ Remaining' /\ Handled' = Handled + 1 /\ Handled \in Nat
          /\ Head(todo) = line.names[Handled']
      BY <2>1, <2>2, <2>3, NextRemains
    <3>2. pc' = "bind" /\ line' = line /\ cur' = Named[Head(todo)]
      BY <2>1, <2>3, NotDrivers
    <3>3. Handled' >= 1 /\ cur' = Device(Handled)'
      BY <3>1, <3>2 DEF Device
    <3>4. QED BY <2>1, <2>3, <3>1, <3>2, <3>3, SameKnown
  <2>4. CASE ~Binding /\ pc' # "done"
    BY <2>1, <2>4, NotDrivers
  <2>5. CASE pc' = "done"
    BY <1>9, <2>1, <2>5 DEF NextName
  <2>6. QED BY <2>3, <2>4, <2>5
<1>10. CASE EndOfDevices
  BY SameLine, SameNames, SameKnown, <1>10 DEF EndOfDevices, Located
<1>11. CASE UnbindSkip
  BY SameLine, SameNames, SameKnown, <1>11 DEF UnbindSkip, Located
<1>12. CASE UnbindWrite
  <2>1. /\ DOMAIN devices' = DOMAIN devices
        /\ \A d \in DOMAIN devices : devices'[d].iface = devices[d].iface
    <3>1. devices' \in {devices, [devices EXCEPT ![cur].drv = ""]}
      BY <1>12 DEF UnbindWrite
    <3>2. \A s \in Snapshots : [s EXCEPT !.drv = ""].iface = s.iface
      BY DEF Snapshots
    <3>3. QED BY <3>1, <3>2 DEF DevicesOK
  <2>2. /\ UNCHANGED <<line, todo, cur, opts, py, ret>> /\ pc = "unbind"
        /\ pc' = ret \/ (pc' = "done" /\ exit' = "traceback")
    BY <1>12 DEF UnbindWrite
  <2>3. QED BY <2>1, <2>2, SameLine, SameNames, SameKnown DEF Located
<1>13. ASSUME NEW d \in Devs, NEW f \in Drivers, OtherBind(d, f) PROVE Turn'
  BY SameLine, SameNames, SameKnown, NotDrivers, <1>13 DEF OtherBind
<1>14. ASSUME NEW d \in Devs, OtherUnbind(d) PROVE Turn'
  BY SameLine, SameNames, SameKnown, NotDrivers, <1>14 DEF OtherUnbind
<1>15. ASSUME NEW d \in Devs, RouteAdded(d) PROVE Turn'
  BY SameLine, SameNames, SameKnown, NotDrivers, <1>15 DEF RouteAdded
<1>16. ASSUME NEW f \in Drivers, Rmmod(f) PROVE Turn'
  BY SameLine, SameNames, SameKnown, NotDrivers, <1>16 DEF Rmmod
<1>17. ASSUME NEW l \in CmdLines, Main(l) PROVE Turn'
  BY <1>17, MainSets
<1>18. CASE UNCHANGED vars
  BY SameLine, SameNames, SameKnown, NotDrivers, <1>18 DEF vars
<1>19. QED
  BY <1>1, <1>2, <1>3, <1>4, <1>5, <1>6, <1>7, <1>8, <1>9, <1>10, <1>11, <1>12,
     <1>13, <1>14, <1>15, <1>16, <1>17, <1>18 DEF Next, Script, Others

\* A device that was handled stays as it is.
LEMMA HandledStep ==
  ASSUME KernelOK, DevicesOK, PlaceOK, Located, Binding, Fresh, Untouched, Again, Turn,
       HandledOK, SpentOK, UnhandledOK, AtHand,
         [Next]_vars
  PROVE  HandledOK'
<1> USE DEF DevicesOK, PlaceOK, KernelOK
<1>1. CASE ReadLspci
  <2>1. /\ UNCHANGED <<line, todo, opts, hasOverride, before, touched>> /\ told \subseteq told'
        /\ UNCHANGED <<drv, override, told>> /\ ret' = ret /\ pc = "lspci" /\ pc' = "details"
    BY <1>1 DEF ReadLspci
  <2>9. QED BY <2>1, HandledKept DEF Looping, Checking, Ending, OnName, Scanning
<1>2. CASE ReadDetails
  <2>1. /\ UNCHANGED <<line, todo, opts, hasOverride, before, drv, override, told, touched, ret>>
        /\ pc = "details" /\ pc' \in {ret, "lspci"} /\ ret \in {"act", "show"}
    BY <1>2, ReadDetailsIs DEF Located, Scanning
  <2>2. QED BY <2>1, HandledKept DEF Looping, Checking, Ending, OnName, Scanning
<1>3. CASE NothingToDo
  BY <1>3 DEF NothingToDo, HandledOK, Looping, Checking, Ending, OnName, Scanning
<1>4. CASE StatusOnly
  BY <1>4, NotDrivers DEF StatusOnly, Binding, Started, HandledOK
<1>5. CASE unbind_all
  BY <1>5, NotDrivers DEF unbind_all, Binding, Unbinding, Started, HandledOK
<1>6. CASE bind_all
  <2>1. line.names \in Seq(Names) /\ line' = line
    BY <1>6, LinesAssumption DEF bind_all, Located, Binding
  <2>2. CASE pc' = "done"
    BY <1>6, <2>2 DEF bind_all, HandledOK, Looping, Checking, Ending, OnName, Scanning
  <2>3. CASE pc' # "done"
    <3>1. todo' = line.names
      BY <1>6, <2>3 DEF bind_all
    <3>2. 1..Handled' = {}
      BY <2>1, <3>1, AllRemain
    <3>3. QED BY <3>2 DEF HandledOK
  <2>4. QED BY <2>2, <2>3
<1>7. CASE NextName
  <2>1. /\ UNCHANGED <<line, opts, hasOverride, before, drv, override, told, touched, devices>>
        /\ pc = "loop" /\ todo # <<>> /\ todo' = Tail(todo)
    BY <1>7 DEF NextName
  <2>2. CASE pc' = "done"
    BY <1>7, <2>2 DEF NextName, HandledOK, Looping, Checking, Ending, OnName, Scanning
  <2>3. CASE pc' # "done"
    <3>1. pc' = "bind" /\ cur' = Named[Head(todo)] /\ cur' \in Devs
      BY <1>7, <2>3, NotDrivers DEF NextName, dev_id_from_dev_name, Binding, Unbinding,
           DevicesOK
    <3>2. /\ Handled' = Handled + 1 /\ Handled \in Nat /\ Head(todo) = line.names[Handled']
      <4>1. Remaining /\ line.names \in Seq(Names)
        BY <2>1, HandledRequested DEF Turn, Looping
      <4>2. QED BY <2>1, <4>1, NextRemains
    <3>3. ASSUME NEW i \in 1..Handled
          PROVE  /\ Device(i)' \in Devs
                 /\ Device(i)' \in told' \cup touched' \/ HasDriver(Device(i))'
      <4>1. Device(i)' = Device(i) /\ Device(i) \in Devs
        BY <2>1, SameLine DEF HandledOK, Looping
      <4>2. Device(i) \in told \cup touched \/ HasDriver(Device(i))
        BY <2>1 DEF HandledOK, Looping, OnName
      <4>3. \A d : HasDriver(d)' <=> HasDriver(d)
        BY <2>1, SameTwice DEF HasDriver
      <4>4. QED BY <2>1, <4>1, <4>2, <4>3
    <3>4. OnName' /\ Device(Handled)' = cur'
      BY <2>1, <3>1, <3>2 DEF OnName, Device
    <3>5. \A i \in 1..Handled' : i \in 1..Handled \/ i = Handled'
      BY <3>2
    <3>6. QED BY <3>1, <3>3, <3>4, <3>5 DEF HandledOK
  <2>4. QED BY <2>2, <2>3
<1>8. CASE EndOfNames
  <2>1. /\ UNCHANGED <<line, todo, opts, hasOverride, before, touched>> /\ told \subseteq told'
        /\ UNCHANGED <<drv, override, told>> /\ pc = "loop" /\ pc' \in {"status", "post"}
    BY <1>8 DEF EndOfNames
  <2>9. QED BY <2>1, HandledKept DEF Looping, Checking, Ending, OnName, Scanning
<1>9. CASE EachDpdk
  BY <1>9 DEF EachDpdk, Located
<1>10. CASE PostCheck
  <2>1. /\ UNCHANGED <<line, todo, opts, hasOverride, before, touched>> /\ told \subseteq told'
        /\ UNCHANGED <<drv, override, told>> /\ pc = "post"
        /\ pc' \in {"unbind", "post", "done"} /\ (pc' = "unbind" => ret' = "post")
        /\ (pc' = "done" => exit' = "traceback")
    BY PostCheckIs, <1>10 DEF PostCheckOf
  <2>9. QED BY <2>1, HandledKept DEF Looping, Checking, Ending, OnName, Scanning
<1>11. CASE EndOfDevices
  <2>1. /\ UNCHANGED <<line, todo, opts, hasOverride, before, touched>> /\ told \subseteq told'
        /\ UNCHANGED <<drv, override, told>> /\ pc = "post" /\ pc' = "status"
    BY <1>11 DEF EndOfDevices, Located, Binding
  <2>9. QED BY <2>1, HandledKept DEF Looping, Checking, Ending, OnName, Scanning
<1>12. CASE UnbindSkip
  <2>1. /\ UNCHANGED <<line, todo, opts, hasOverride, before, touched>> /\ told \subseteq told'
        /\ UNCHANGED <<drv, override, cur, ret>> /\ told' = told \cup {cur} /\ pc = "unbind"
        /\ pc' = ret /\ ret \in {"post", "override"}
    BY <1>12 DEF UnbindSkip, Located
  <2>9. QED BY <2>1, HandledKept DEF Looping, Checking, Ending, OnName, Scanning
<1>13. CASE UnbindNoFile
  BY <1>13 DEF UnbindNoFile, HandledOK, Looping, Checking, Ending, OnName, Scanning
<1>14. CASE UnbindWrite
  <2>1. /\ UNCHANGED <<line, todo, opts, hasOverride, before, touched>> /\ told \subseteq told'
        /\ UNCHANGED <<override, cur, ret, told>> /\ pc = "unbind"
        /\ (pc' = ret \/ (pc' = "done" /\ exit' = "traceback"))
        /\ ret \in {"post", "override"} /\ \A d \in Devs : d = cur \/ drv'[d] = drv[d]
    BY <1>14 DEF UnbindWrite, Located
  <2>2. ret = "post" => cur \notin Requested
    BY <2>1 DEF Again, Checking
  <2>9. QED BY <2>1, <2>2, HandledKept DEF Looping, Checking, Ending, OnName, Scanning
<1>15. CASE BindSkip
  <2>1. /\ UNCHANGED <<line, todo, opts, hasOverride, before, touched>> /\ told \subseteq told'
        /\ UNCHANGED <<drv, override, cur>> /\ told' = told \cup {cur} /\ pc = "bind"
        /\ pc' = "loop"
    BY <1>15 DEF BindSkip
  <2>9. QED BY <2>1, HandledKept DEF Looping, Checking, Ending, OnName, Scanning
<1>16. CASE BindOne
  <2>1. /\ UNCHANGED <<line, todo, opts, hasOverride, before, touched>> /\ told \subseteq told'
        /\ UNCHANGED <<drv, override, cur, told>> /\ pc = "bind"
        /\ (pc' = "override" \/ (pc' = "unbind" /\ ret' = "override"))
    BY <1>16 DEF BindOne
  <2>9. QED BY <2>1, HandledKept DEF Looping, Checking, Ending, OnName, Scanning
<1>17. CASE OverrideSkip
  <2>1. /\ UNCHANGED <<line, todo, opts, hasOverride, before, touched>> /\ told \subseteq told'
        /\ UNCHANGED <<drv, override, cur, told>> /\ pc = "override" /\ pc' = "write"
    BY <1>17 DEF OverrideSkip
  <2>9. QED BY <2>1, HandledKept DEF Looping, Checking, Ending, OnName, Scanning
<1>18. CASE OverrideWrite
  <2>1. /\ UNCHANGED <<line, todo, opts, hasOverride, before, touched>> /\ told \subseteq told'
        /\ UNCHANGED <<drv, cur, told>>
        /\ (\A d \in Devs : d = cur \/ override'[d] = override[d]) /\ pc = "override"
        /\ pc' = "write"
    BY <1>18 DEF OverrideWrite
  <2>9. QED BY <2>1, HandledKept DEF Looping, Checking, Ending, OnName, Scanning
<1>19. CASE NewIdWrite
  <2>1. /\ UNCHANGED <<line, todo, opts, hasOverride, before, touched>> /\ told \subseteq told'
        /\ UNCHANGED <<override, cur, told>> /\ pc = "override" /\ pc' = "write"
        /\ \A d \in Devs : drv[d] = None \/ drv'[d] = drv[d]
    BY <1>19 DEF NewIdWrite
  <2>2. opts.flag # None
    BY NotDrivers DEF Binding
  <2>9. QED BY <2>1, <2>2, HandledKept DEF Looping, Checking, Ending, OnName, Scanning
<1>20. CASE OverrideFail
  <2>1. /\ UNCHANGED <<line, todo, opts, hasOverride, before, touched>> /\ told \subseteq told'
        /\ UNCHANGED <<drv, override, cur>> /\ told' = told \cup {cur} /\ pc = "override"
        /\ pc' = "loop"
    BY <1>20 DEF OverrideFail
  <2>9. QED BY <2>1, HandledKept DEF Looping, Checking, Ending, OnName, Scanning
<1>21. CASE BindNoFile
  <2>1. /\ UNCHANGED <<line, todo, opts, hasOverride, before, touched>> /\ told \subseteq told'
        /\ UNCHANGED <<drv, override, cur, ret>> /\ told' = told \cup {cur} /\ pc = "write"
        /\ pc' \in {"loop", "bind"}
    BY <1>21 DEF BindNoFile
  <2>9. QED BY <2>1, HandledKept DEF Looping, Checking, Ending, OnName, Scanning
<1>22. CASE BindWrite
  <2>1. /\ UNCHANGED <<line, todo, opts, hasOverride, before, touched>> /\ told \subseteq told'
        /\ UNCHANGED <<override, cur, told>> /\ pc = "write"
        /\ (\A d \in Devs : d = cur \/ drv'[d] = drv[d])
        /\ pc' \in {"clear", "verify"} \/ (pc' = "loop" /\ drv'[cur] = want /\ ~hasOverride)
    BY <1>22 DEF BindWrite
  <2>2. cur \in told \cup touched \/ want = opts.flag
    BY <2>1 DEF AtHand, OnName
  <2>9. QED BY <2>1, <2>2, HandledKept DEF Looping, Checking, Ending, OnName, Scanning
<1>23. CASE Verify
  <2>1. /\ UNCHANGED <<line, todo, opts, hasOverride, before, touched>> /\ told \subseteq told'
        /\ UNCHANGED <<drv, override, cur>> /\ pc = "verify"
        /\ \/ pc' = "loop" /\ drv[cur] = want
           \/ told' = told \cup {cur} /\ pc' \in {"loop", "bind"}
    BY <1>23 DEF Verify
  <2>2. \/ cur \in told \cup touched
        \/ want = opts.flag /\ (hasOverride => drv[cur] = None \/ HasDriver(cur))
    BY <2>1 DEF AtHand, OnName
  <2>3. opts.flag # None
    BY NotDrivers DEF Binding
  <2>9. QED BY <2>1, <2>2, <2>3, HandledKept DEF Looping, Checking, Ending, OnName, Scanning
<1>24. CASE ClearOverride
  <2>1. /\ UNCHANGED <<line, todo, opts, hasOverride, before, touched, drv, cur, told>> /\ pc = "clear"
        /\ \A d \in Devs : d = cur \/ override'[d] = override[d]
        /\ \/ pc' = "loop" /\ override'[cur] = None
           \/ pc' = "done" /\ exit' = "error"
    BY <1>24 DEF ClearOverride
  <2>2. cur \in told \cup touched \/ drv[cur] = opts.flag
    BY <2>1 DEF AtHand, OnName
  <2>3. QED BY <2>1, <2>2, HandledKept DEF Looping, Checking, Ending, OnName, Scanning
<1>25. CASE Refresh
  <2>1. /\ UNCHANGED <<line, todo, opts, hasOverride, before, touched>> /\ told \subseteq told'
        /\ UNCHANGED <<drv, override, told>> /\ pc = "status"
    BY <1>25 DEF Refresh
  <2>9. QED BY <2>1, HandledKept DEF Looping, Checking, Ending, OnName, Scanning
<1>26. CASE NoStatus
  <2>1. /\ UNCHANGED <<line, todo, opts, hasOverride, before, touched>> /\ told \subseteq told'
        /\ UNCHANGED <<drv, override, told>> /\ pc = "status"
    BY <1>26 DEF NoStatus
  <2>9. QED BY <2>1, HandledKept DEF Looping, Checking, Ending, OnName, Scanning
<1>27. CASE show_status
  <2>1. /\ UNCHANGED <<line, todo, opts, hasOverride, before, touched>> /\ told \subseteq told'
        /\ UNCHANGED <<drv, override, told>> /\ pc = "show" /\ pc' = "done"
    BY <1>27 DEF show_status
  <2>9. QED BY <2>1, HandledKept DEF Looping, Checking, Ending, OnName, Scanning
<1>28. CASE Kill
  BY <1>28 DEF Kill, HandledOK, Looping, Checking, Ending, OnName, Scanning
<1>29. ASSUME NEW d \in Devs, NEW f \in Drivers, OtherBind(d, f) PROVE HandledOK'
  <2>1. /\ UNCHANGED <<line, todo, opts, hasOverride, before, override, told, cur, pc, ret, exit>>
        /\ touched \subseteq touched' /\ \A e \in Devs : e \in touched' \/ drv'[e] = drv[e]
    BY <1>29 DEF OtherBind
  <2>2. QED BY <2>1, HandledKept DEF Looping, Checking, Ending, OnName, Scanning
<1>30. ASSUME NEW d \in Devs, OtherUnbind(d) PROVE HandledOK'
  <2>1. /\ UNCHANGED <<line, todo, opts, hasOverride, before, override, told, cur, pc, ret, exit>>
        /\ touched \subseteq touched' /\ \A e \in Devs : e \in touched' \/ drv'[e] = drv[e]
    BY <1>30 DEF OtherUnbind
  <2>2. QED BY <2>1, HandledKept DEF Looping, Checking, Ending, OnName, Scanning
<1>31. ASSUME NEW d \in Devs, RouteAdded(d) PROVE HandledOK'
  <2>1. /\ UNCHANGED <<line, todo, opts, hasOverride, before, override, told, cur, pc, ret, exit>>
        /\ touched \subseteq touched' /\ \A e \in Devs : e \in touched' \/ drv'[e] = drv[e]
    BY <1>31 DEF RouteAdded
  <2>2. QED BY <2>1, HandledKept DEF Looping, Checking, Ending, OnName, Scanning
<1>32. ASSUME NEW f \in Drivers, Rmmod(f) PROVE HandledOK'
  <2>1. /\ UNCHANGED <<line, todo, opts, hasOverride, before, override, told, cur, pc, ret, exit>>
        /\ touched \subseteq touched' /\ \A e \in Devs : e \in touched' \/ drv'[e] = drv[e]
    BY <1>32 DEF Rmmod
  <2>2. QED BY <2>1, HandledKept DEF Looping, Checking, Ending, OnName, Scanning
<1>33. ASSUME NEW l \in CmdLines, Main(l) PROVE HandledOK'
  BY <1>33, MainSets DEF HandledOK, Looping, Checking, Ending, OnName, Scanning
<1>34. CASE UNCHANGED vars
  <2>1. UNCHANGED <<line, todo, opts, hasOverride, before, override, told, cur, pc, ret, exit, drv,
                    touched>>
    BY <1>34 DEF vars
  <2>2. QED BY <2>1, HandledKept DEF Looping, Checking, Ending, OnName, Scanning
<1>35. QED
  BY <1>1, <1>2, <1>3, <1>4, <1>5, <1>6, <1>7, <1>8, <1>9, <1>10, <1>11, <1>12, <1>13, <1>14,
       <1>15, <1>16, <1>17, <1>18, <1>19, <1>20, <1>21, <1>22,
     <1>23, <1>24, <1>25, <1>26, <1>27, <1>28, <1>29, <1>30, <1>31, <1>32, <1>33, <1>34
     DEF Next, Script, Others

\* What a step must leave alone for the dictionary to stay so.
LEMMA SpentKept ==
  ASSUME SpentOK, UNCHANGED <<line, todo, hasOverride, before>>,
         told \subseteq told', touched \subseteq touched',
         Looping' => Looping,
         Looping' => /\ DOMAIN devices' = DOMAIN devices
                     /\ \A d \in DOMAIN devices : (OnName /\ d = cur) \/ devices'[d] = devices[d],
         OnName => \/ OnName' /\ cur' = cur
                   \/ cur \in told' \cup touched'
                   \/ hasOverride => Spent(cur) /\ devices' = devices
                   \/ ~Looping'
  PROVE  SpentOK'
<1> SUFFICES ASSUME Looping', hasOverride, NEW i \in 1..Handled,
                    Device(i) \notin told' \cup touched', ~(OnName' /\ Device(i) = cur')
             PROVE  \/ devices'[Device(i)].drv = ""
                    \/ devices'[Device(i)].drv = None /\ before.drv[Device(i)] = None
  <2>1. Handled' = Handled /\ \A i : Device(i)' = Device(i)
    BY DEF Handled, Device
  <2>2. ASSUME Looping', hasOverride PROVE \A i \in 1..Handled : Device(i) \in DOMAIN devices'
    BY <2>2 DEF SpentOK
  <2>3. QED BY <2>1, <2>2 DEF SpentOK, Spent
<1> DEFINE d == Device(i)
<1>1. d \in DOMAIN devices /\ (Spent(d) \/ (OnName /\ d = cur))
  BY DEF SpentOK
<1> HIDE DEF d
<1>2. CASE OnName /\ d = cur
  BY <1>2 DEF Spent, d
<1>3. CASE Spent(d) /\ ~(OnName /\ d = cur)
  BY <1>1, <1>3 DEF Spent, d
<1>4. QED BY <1>1, <1>2, <1>3

\* What was handled is not taken for a device that has the driver.
LEMMA SpentStep ==
  ASSUME KernelOK, DevicesOK, PlaceOK, Located, Binding, Fresh, Turn,
         HandledOK, SpentOK, UnhandledOK, AtHand, [Next]_vars
  PROVE  SpentOK'
<1> USE DEF DevicesOK, PlaceOK, KernelOK
<1>1. CASE ReadLspci \/ NothingToDo \/ StatusOnly \/ EndOfNames \/ EachDpdk
  BY <1>1, NotDrivers DEF ReadLspci, NothingToDo, StatusOnly, EndOfNames, EachDpdk, SpentOK,
     Looping, OnName
<1>2. CASE EndOfDevices \/ UnbindNoFile \/ Refresh \/ NoStatus
  BY <1>2 DEF EndOfDevices, UnbindNoFile, Refresh, NoStatus, SpentOK, Looping, OnName
<1>3. CASE show_status \/ Kill
  BY <1>3 DEF show_status, Kill, SpentOK, Looping, OnName
<1>4. CASE ReadDetails
  BY <1>4, ReadDetailsIs DEF Located, Scanning, Fresh, SpentOK, Looping, OnName
<1>5. CASE unbind_all
  BY <1>5, NotDrivers DEF unbind_all, Binding, Unbinding
<1>6. CASE PostCheck
  BY <1>6, PostCheckIs DEF PostCheckOf, SpentOK, Looping, OnName
<1>7. CASE bind_all
  <2>1. line.names \in Seq(Names) /\ line' = line
    BY <1>7, LinesAssumption DEF bind_all, Located, Binding
  <2>2. CASE pc' = "done"
    BY <2>2 DEF SpentOK, Looping, OnName
  <2>3. CASE pc' # "done"
    <3>1. todo' = line.names
      BY <1>7, <2>3 DEF bind_all
    <3>2. 1..Handled' = {}
      BY <2>1, <3>1, AllRemain
    <3>3. QED BY <3>2 DEF SpentOK
  <2>4. QED BY <2>2, <2>3
<1>8. CASE NextName
  <2>1. /\ UNCHANGED <<line, opts, hasOverride, before, told, touched, devices>>
        /\ pc = "loop" /\ todo # <<>> /\ todo' = Tail(todo)
    BY <1>8 DEF NextName
  <2>2. CASE pc' = "done"
    BY <2>2 DEF SpentOK, Looping, OnName
  <2>3. CASE pc' # "done"
    <3>1. pc' = "bind" /\ cur' = Named[Head(todo)] /\ cur' \in DOMAIN devices
      BY <1>8, <2>3, NotDrivers DEF NextName, dev_id_from_dev_name, Binding, Unbinding
    <3>2. /\ Handled' = Handled + 1 /\ Handled \in Nat /\ Head(todo) = line.names[Handled']
      <4>1. Remaining /\ line.names \in Seq(Names)
        BY <2>1, HandledRequested DEF Turn, Looping
      <4>2. QED BY <2>1, <4>1, NextRemains
    <3>3. ASSUME NEW i \in 1..Handled, hasOverride
          PROVE  /\ Device(i)' \in DOMAIN devices'
                 /\ Device(i)' \in told' \cup touched' \/ Spent(Device(i))'
      <4>1. Device(i)' = Device(i)
        BY <2>1, SameLine
      <4>2. /\ Device(i) \in DOMAIN devices
            /\ Device(i) \in told \cup touched \/ Spent(Device(i))
        BY <2>1, <3>3 DEF SpentOK, Looping, OnName
      <4>3. QED BY <2>1, <4>1, <4>2 DEF Spent
    <3>4. OnName' /\ Device(Handled)' = cur'
      BY <2>1, <3>1, <3>2 DEF OnName, Device
    <3>5. \A i \in 1..Handled' : i \in 1..Handled \/ i = Handled'
      BY <3>2
    <3>6. QED BY <2>1, <3>1, <3>3, <3>4, <3>5 DEF SpentOK
  <2>4. QED BY <2>2, <2>3
<1>9. CASE UnbindSkip
  <2>1. /\ UNCHANGED <<line, todo, hasOverride, before, touched, devices, cur>> /\ told \subseteq told'
        /\ pc = "unbind" /\ pc' = ret /\ told' = told \cup {cur} /\ ret \in {"post", "override"}
    BY <1>9 DEF UnbindSkip, Located
  <2>2. QED BY <2>1, SpentKept DEF Looping, OnName
<1>10. CASE BindSkip
  <2>1. /\ UNCHANGED <<line, todo, hasOverride, before, touched, devices, cur>> /\ told \subseteq told'
        /\ pc = "bind" /\ told' = told \cup {cur}
    BY <1>10 DEF BindSkip
  <2>2. QED BY <2>1, SpentKept DEF Looping, OnName
<1>11. CASE BindOne
  <2>1. /\ UNCHANGED <<line, todo, hasOverride, before, touched, devices, cur>> /\ told \subseteq told'
        /\ pc = "bind" /\ (pc' = "override" \/ (pc' = "unbind" /\ ret' = "override"))
    BY <1>11 DEF BindOne
  <2>2. QED BY <2>1, SpentKept DEF Looping, OnName
<1>12. CASE OverrideSkip
  <2>1. /\ UNCHANGED <<line, todo, hasOverride, before, touched, devices, cur>> /\ told \subseteq told'
        /\ pc = "override" /\ pc' = "write"
    BY <1>12 DEF OverrideSkip
  <2>2. QED BY <2>1, SpentKept DEF Looping, OnName
<1>13. CASE OverrideWrite
  <2>1. /\ UNCHANGED <<line, todo, hasOverride, before, touched, devices, cur>> /\ told \subseteq told'
        /\ pc = "override" /\ pc' = "write"
    BY <1>13 DEF OverrideWrite
  <2>2. QED BY <2>1, SpentKept DEF Looping, OnName
<1>14. CASE NewIdWrite
  <2>1. /\ UNCHANGED <<line, todo, hasOverride, before, touched, devices, cur>> /\ told \subseteq told'
        /\ pc = "override" /\ pc' = "write"
    BY <1>14 DEF NewIdWrite
  <2>2. QED BY <2>1, SpentKept DEF Looping, OnName
<1>15. CASE OverrideFail
  <2>1. /\ UNCHANGED <<line, todo, hasOverride, before, touched, devices, cur>> /\ told \subseteq told'
        /\ pc = "override" /\ told' = told \cup {cur}
    BY <1>15 DEF OverrideFail
  <2>2. QED BY <2>1, SpentKept DEF Looping, OnName
<1>16. CASE BindNoFile
  <2>1. /\ UNCHANGED <<line, todo, hasOverride, before, touched, devices, cur>> /\ told \subseteq told'
        /\ pc = "write" /\ told' = told \cup {cur}
    BY <1>16 DEF BindNoFile
  <2>2. QED BY <2>1, SpentKept DEF Looping, OnName
<1>17. CASE BindWrite
  <2>1. /\ UNCHANGED <<line, todo, hasOverride, before, touched, devices, cur>> /\ told \subseteq told'
        /\ pc = "write" /\ (pc' \in {"clear", "verify"} \/ ~hasOverride)
    BY <1>17 DEF BindWrite
  <2>2. QED BY <2>1, SpentKept DEF Looping, OnName
<1>18. CASE UnbindWrite
  <2>1. /\ UNCHANGED <<line, todo, hasOverride, before, touched, told, cur, ret>> /\ pc = "unbind"
        /\ pc' = ret \/ pc' = "done"
        /\ ret \in {"post", "override"}
        /\ DOMAIN devices' = DOMAIN devices /\ cur \in DOMAIN devices
        /\ \A d \in DOMAIN devices : devices'[d] = devices[d] \/ d = cur
    BY <1>18 DEF UnbindWrite, Located
  <2>2. QED BY <2>1, SpentKept DEF Looping, OnName
<1>19. CASE Verify
  <2>1. /\ UNCHANGED <<line, todo, hasOverride, before, touched, devices, cur>> /\ told \subseteq told'
        /\ pc = "verify" /\ (pc' = "loop" \/ told' = told \cup {cur})
    BY <1>19 DEF Verify
  <2>2. cur \in told \cup touched \/ (hasOverride => Spent(cur))
    BY <2>1 DEF AtHand, OnName
  <2>3. QED BY <2>1, <2>2, SpentKept DEF Looping, OnName
<1>20. CASE ClearOverride
  <2>1. /\ UNCHANGED <<line, todo, hasOverride, before, touched, devices, cur, told>>
        /\ pc = "clear"
    BY <1>20 DEF ClearOverride
  <2>2. cur \in told \cup touched \/ (hasOverride => Spent(cur))
    BY <2>1 DEF AtHand, OnName
  <2>3. QED BY <2>1, <2>2, SpentKept DEF Looping, OnName
<1>21. ASSUME NEW d \in Devs, NEW f \in Drivers, OtherBind(d, f) PROVE SpentOK'
  <2>1. /\ UNCHANGED <<line, todo, hasOverride, before, told, devices, cur, pc, ret>>
        /\ touched \subseteq touched'
    BY <1>21 DEF OtherBind
  <2>2. QED BY <2>1, SpentKept DEF Looping, OnName
<1>22. ASSUME NEW d \in Devs, OtherUnbind(d) PROVE SpentOK'
  <2>1. /\ UNCHANGED <<line, todo, hasOverride, before, told, devices, cur, pc, ret>>
        /\ touched \subseteq touched'
    BY <1>22 DEF OtherUnbind
  <2>2. QED BY <2>1, SpentKept DEF Looping, OnName
<1>23. ASSUME NEW d \in Devs, RouteAdded(d) PROVE SpentOK'
  <2>1. /\ UNCHANGED <<line, todo, hasOverride, before, told, devices, cur, pc, ret>>
        /\ touched \subseteq touched'
    BY <1>23 DEF RouteAdded
  <2>2. QED BY <2>1, SpentKept DEF Looping, OnName
<1>24. ASSUME NEW f \in Drivers, Rmmod(f) PROVE SpentOK'
  <2>1. /\ UNCHANGED <<line, todo, hasOverride, before, told, devices, cur, pc, ret>>
        /\ touched \subseteq touched'
    BY <1>24 DEF Rmmod
  <2>2. QED BY <2>1, SpentKept DEF Looping, OnName
<1>25. ASSUME NEW l \in CmdLines, Main(l) PROVE SpentOK'
  BY <1>25, MainSets DEF SpentOK, Looping, OnName
<1>26. CASE UNCHANGED vars
  <2>1. UNCHANGED <<line, todo, hasOverride, before, told, touched, devices, cur, pc, ret>>
    BY <1>26 DEF vars
  <2>2. QED BY <2>1, SpentKept DEF Looping, OnName
<1>27. QED
  BY <1>1, <1>2, <1>3, <1>4, <1>5, <1>6, <1>7, <1>8, <1>9, <1>10, <1>11,
     <1>12, <1>13, <1>14, <1>15, <1>16, <1>17, <1>18, <1>19, <1>20, <1>21, <1>22, <1>23, <1>24, <1>25, <1>26
     DEF Next, Script, Others

\* The others are as the dictionary says.
LEMMA UnhandledStep ==
  ASSUME KernelOK, DevicesOK, PlaceOK, Located, Binding, Fresh, Untouched, Again, Turn,
       HandledOK, SpentOK, UnhandledOK, AtHand,
         [Next]_vars
  PROVE  UnhandledOK'
<1> USE DEF UnhandledOK, Looping, OnName, DevicesOK, PlaceOK, KernelOK
<1>1. CASE ReadLspci \/ NothingToDo \/ StatusOnly \/ EndOfNames
  BY SameLine, SameNames, NotDrivers, <1>1 DEF ReadLspci, NothingToDo, StatusOnly, EndOfNames
<1>2. CASE EachDpdk \/ PostCheck \/ EndOfDevices \/ UnbindNoFile
  BY SameLine, SameNames, NotDrivers, <1>2 DEF EachDpdk, PostCheck, EndOfDevices, UnbindNoFile
<1>3. CASE BindSkip \/ BindOne \/ OverrideSkip \/ OverrideWrite
  BY SameLine, SameNames, NotDrivers, <1>3 DEF BindSkip, BindOne, OverrideSkip, OverrideWrite
<1>4. CASE NewIdWrite \/ OverrideFail \/ BindNoFile \/ Verify
  BY SameLine, SameNames, NotDrivers, <1>4 DEF NewIdWrite, OverrideFail, BindNoFile, Verify
<1>5. CASE ClearOverride \/ Refresh \/ NoStatus \/ show_status
  BY SameLine, SameNames, NotDrivers, <1>5 DEF ClearOverride, Refresh, NoStatus, show_status
<1>6. CASE Kill
  BY SameLine, SameNames, NotDrivers, <1>6 DEF Kill
<1>7. CASE ReadDetails
  BY <1>7, ReadDetailsIs DEF Located, Scanning
<1>8. CASE unbind_all
  BY <1>8, NotDrivers DEF unbind_all, Binding, Unbinding
<1>9. CASE bind_all
  BY <1>9 DEF bind_all, Fresh, Untouched, Early, AsFound
<1>10. CASE NextName
  <2>1. UNCHANGED <<line, hasOverride, before, drv, touched,
                    devices>> /\ pc = "loop" /\ todo # <<>> /\ todo' = Tail(todo)
    BY <1>10 DEF NextName
  <2>2. Handled' = Handled + 1 /\ Handled \in Nat
    <3>1. Remaining /\ line.names \in Seq(Names)
      BY <2>1, HandledRequested DEF Turn
    <3>2. QED BY <2>1, <3>1, NextRemains
  <2>3. \A i \in 1..Handled : i \in 1..Handled' /\ Device(i)' = Device(i)
    BY <2>1, <2>2, SameLine
  <2>4. QED BY <2>1, <2>3
<1>11. CASE UnbindSkip
  BY SameLine, SameNames, <1>11 DEF UnbindSkip, Located, Binding
<1>12. CASE UnbindWrite
  <2>1. /\ UNCHANGED <<line, todo, hasOverride, before, touched, ret>> /\ pc = "unbind"
        /\ ret \in {"post", "override"}
        /\ pc' \in {ret, "done"} /\ DOMAIN devices' = DOMAIN devices /\ cur \in Devs
        /\ \A d \in Devs : \/ d = cur
                           \/ /\ drv'[d] = drv[d]
                              /\ d \in DOMAIN devices => devices'[d] = devices[d]
    BY <1>12 DEF UnbindWrite, Located
  <2>2. Handled' = Handled /\ \A i : Device(i)' = Device(i)
    BY <2>1, SameNames, SameLine
  <2>3. ret = "override" => Handled \in 1..Handled /\ Device(Handled) = cur
    <3>1. ASSUME ret = "override" PROVE Handled \in Nat /\ Handled >= 1 /\ Device(Handled) = cur
      BY <2>1, <3>1, HandledRequested DEF Turn
    <3>2. QED BY <3>1
  <2>4. QED BY <2>1, <2>2, <2>3
<1>13. CASE BindWrite
  <2>1. /\ UNCHANGED <<line, todo, hasOverride, before, touched, devices>> /\ pc = "write"
        /\ \A d \in Devs : d = cur \/ drv'[d] = drv[d]
    BY <1>13 DEF BindWrite
  <2>2. Handled' = Handled /\ \A i : Device(i)' = Device(i)
    BY <2>1, SameNames, SameLine
  <2>3. Handled \in 1..Handled /\ Device(Handled) = cur
    <3>1. Handled \in Nat /\ Handled >= 1 /\ Device(Handled) = cur
      BY <2>1, HandledRequested DEF Turn
    <3>2. QED BY <3>1
  <2>4. QED BY <2>1, <2>2, <2>3
<1>14. ASSUME NEW d \in Devs, NEW f \in Drivers, OtherBind(d, f) PROVE UnhandledOK'
  BY SameLine, SameNames, NotDrivers, <1>14 DEF OtherBind
<1>15. ASSUME NEW d \in Devs, OtherUnbind(d) PROVE UnhandledOK'
  BY SameLine, SameNames, NotDrivers, <1>15 DEF OtherUnbind
<1>16. ASSUME NEW d \in Devs, RouteAdded(d) PROVE UnhandledOK'
  BY SameLine, SameNames, NotDrivers, <1>16 DEF RouteAdded
<1>17. ASSUME NEW f \in Drivers, Rmmod(f) PROVE UnhandledOK'
  BY SameLine, SameNames, NotDrivers, <1>17 DEF Rmmod
<1>18. ASSUME NEW l \in CmdLines, Main(l) PROVE UnhandledOK'
  BY <1>18, MainSets DEF UnhandledOK, Looping, OnName
<1>19. CASE UNCHANGED vars
  BY SameLine, SameNames, NotDrivers, <1>19 DEF vars
<1>20. QED
  BY <1>1, <1>2, <1>3, <1>4, <1>5, <1>6, <1>7, <1>8, <1>9, <1>10, <1>11, <1>12,
     <1>13, <1>14, <1>15, <1>16, <1>17, <1>18, <1>19 DEF Next, Script, Others

\* What others do to other devices is nothing to the one at hand.
LEMMA AtHandKept ==
  ASSUME AtHand, PlaceOK, DevicesOK,
         UNCHANGED <<line, opts, hasOverride, before, override, want, told, devices, cur, pc, ret,
                     exit>>,
         touched \subseteq touched', \A d \in Devs : d \in touched' \/ drv'[d] = drv[d]
  PROVE  AtHand'
<1> SUFFICES ASSUME Binding', OnName', cur \notin told' \cup touched'
             PROVE  AtHand'
  BY DEF AtHand
<1>1. Binding /\ OnName /\ cur \notin told \cup touched /\ cur \in Devs
  BY DEF Binding, Started, OnName, PlaceOK, DevicesOK
<1>2. drv'[cur] = drv[cur]
  BY <1>1
<1>3. (HasDriver(cur)' <=> HasDriver(cur)) /\ (FreeTwice(cur)' <=> FreeTwice(cur))
  BY <1>2, SameTwice DEF HasDriver
<1>4. Spent(cur)' <=> Spent(cur)
  BY DEF Spent
<1>5. QED BY <1>1, <1>2, <1>3, <1>4 DEF AtHand

\* From unbind to driver_override's end.
LEMMA AtHandStep ==
  ASSUME KernelOK, DevicesOK, PlaceOK, Located, Binding, Fresh, Untouched, Again, Turn,
       HandledOK, SpentOK, UnhandledOK, AtHand,
         [Next]_vars
  PROVE  AtHand'
<1> USE DEF AtHand, OnName, Binding, Started, Looping, DevicesOK, PlaceOK, KernelOK
<1>1. CASE ReadLspci \/ NothingToDo \/ StatusOnly \/ unbind_all
  BY SameLine, SameNames, NotDrivers, <1>1 DEF ReadLspci, NothingToDo, StatusOnly, unbind_all
<1>2. CASE bind_all \/ EndOfNames \/ EachDpdk \/ PostCheck
  BY SameLine, SameNames, NotDrivers, <1>2 DEF bind_all, EndOfNames, EachDpdk, PostCheck
<1>3. CASE EndOfDevices \/ UnbindSkip \/ UnbindNoFile \/ BindSkip
  BY <1>3 DEF EndOfDevices, UnbindSkip, UnbindNoFile, BindSkip
<1>4. CASE UnbindWrite
  <2>1. /\ UNCHANGED <<opts, want, cur, told, touched>> /\ pc = "unbind"
        /\ pc' \in {"done", ret} /\ cur \in DOMAIN devices
    BY <1>4 DEF UnbindWrite
  <2>2. ret \in {"post", "override"}
    BY <2>1 DEF Located
  <2>3. CASE pc' = "done" \/ ret = "post"
    BY <2>1, <2>2, <2>3
  <2>4. CASE pc' = "override" /\ ret = "override"
    <3>1. devices' = [devices EXCEPT ![cur].drv = ""] /\ drv' = [drv EXCEPT ![cur] = None]
      BY <1>4, <2>4 DEF UnbindWrite, SetDriver
    <3>2. drv'[cur] = None
      BY <2>1, <3>1
    <3>3. devices[cur] \in Snapshots
      BY <2>1
    <3>4. devices'[cur].drv = ""
      BY <2>1, <3>1, <3>3 DEF Snapshots
    <3>5. QED BY <2>1, <2>4, <3>2, <3>4 DEF Spent
  <2>5. QED BY <2>1, <2>2, <2>3, <2>4
<1>5. CASE BindOne
  <2>1. /\ UNCHANGED <<line, opts, hasOverride, before, drv, override, want, cur, told, touched,
                       devices>>
        /\ pc = "bind"
        /\ \/ pc' = "override" /\ devices[cur].drv = None
           \/ pc' = "unbind"
    BY <1>5 DEF BindOne
  <2>2. CASE pc' = "unbind" \/ cur \in told \cup touched \/ ~hasOverride
    BY <2>1, <2>2
  <2>3. CASE pc' = "override" /\ cur \notin told \cup touched /\ hasOverride
    <3>1. \/ drv[cur] = None /\ before.drv[cur] = None
          \/ HasDriver(cur) /\ FreeTwice(cur)
      BY <2>1, <2>3, NotDrivers
    <3>2. Spent(cur)
      BY <2>1, <2>3, <3>1 DEF Spent, FreeTwice
    <3>3. (HasDriver(cur)' <=> HasDriver(cur)) /\ (FreeTwice(cur)' <=> FreeTwice(cur))
      BY <2>1, SameTwice DEF HasDriver
    <3>4. Spent(cur)' <=> Spent(cur)
      BY <2>1 DEF Spent
    <3>5. QED BY <2>1, <2>3, <3>1, <3>2, <3>3, <3>4
  <2>4. QED BY <2>1, <2>2, <2>3
<1>6. CASE OverrideSkip \/ OverrideWrite \/ NewIdWrite
  <2>1. /\ UNCHANGED <<line, opts, hasOverride, before, want, cur, told, touched, devices>>
        /\ pc = "override" /\ pc' = "write"
        /\ hasOverride => /\ drv' = drv
                          /\ override'[cur] = override[cur] \/ override'[cur] = want
    BY <1>6 DEF OverrideSkip, OverrideWrite, NewIdWrite
  <2>2. FreeTwice(cur)' <=> FreeTwice(cur)
    BY <2>1, SameTwice
  <2>3. ASSUME cur \notin told \cup touched, hasOverride, HasDriver(cur), FreeTwice(cur)
        PROVE  HasDriver(cur)'
    BY <2>1, <2>2, <2>3 DEF HasDriver
  <2>4. Spent(cur)' <=> Spent(cur)
    BY <2>1 DEF Spent
  <2>5. QED BY <2>1, <2>2, <2>3, <2>4
<1>16. CASE OverrideFail \/ BindNoFile \/ Verify \/ ClearOverride
  BY <1>16 DEF OverrideFail, BindNoFile, Verify, ClearOverride
<1>17. CASE BindWrite
  <2>1. /\ UNCHANGED <<line, opts, hasOverride, before, override, want, cur, told, touched,
                       devices>>
        /\ pc = "write"
        /\ \/ pc' = "verify" /\ drv' = drv
           \/ pc' = "clear" /\ drv'[cur] = want
           \/ pc' = "loop"
    BY <1>17 DEF BindWrite
  <2>2. FreeTwice(cur)' <=> FreeTwice(cur)
    BY <2>1, SameTwice
  <2>3. drv' = drv => (HasDriver(cur)' <=> HasDriver(cur))
    BY <2>1, <2>2 DEF HasDriver
  <2>4. Spent(cur)' <=> Spent(cur)
    BY <2>1 DEF Spent
  <2>5. QED BY <2>1, <2>2, <2>3, <2>4
<1>18. CASE Refresh \/ NoStatus
  BY <1>18 DEF Refresh, NoStatus
<1>7. CASE show_status \/ Kill
  BY SameLine, SameNames, NotDrivers, <1>7 DEF show_status, Kill
<1>8. CASE ReadDetails
  BY <1>8, ReadDetailsIs DEF Located, Scanning
<1>9. CASE NextName
  <2>1. UNCHANGED <<line, opts, hasOverride, before, drv, override, told, touched,
                    devices>> /\ pc = "loop" /\ todo # <<>> /\ todo' = Tail(todo)
    BY <1>9 DEF NextName
  <2>2. CASE pc' = "done"
    BY <2>2
  <2>3. CASE pc' # "done"
    <3>1. /\ pc' = "bind" /\ want' = opts.flag /\ cur' = Named[Head(todo)]
          /\ cur' \in DOMAIN devices
      BY <1>9, <2>3, NotDrivers DEF NextName, dev_id_from_dev_name, Unbinding
    <3>2. line.names \in Seq(Names) /\ Remaining
      BY <2>1, HandledRequested DEF Turn
    <3>3. /\ Handled' = Handled + 1 /\ Handled \in Nat /\ Head(todo) = line.names[Handled']
          /\ Handled' \in DOMAIN line.names
      BY <2>1, <3>2, NextRemains
    <3>4. cur' = Named[line.names[Handled']]
      BY <3>1, <3>3
    <3>5. ASSUME hasOverride, cur' \notin told \cup touched
          PROVE  \/ devices[cur'].drv = drv[cur'] /\ drv[cur'] = before.drv[cur']
                 \/ HasDriver(cur') /\ (FreeTwice(cur') \/ devices[cur'].drv = "")
      <4>1. CASE \E i \in 1..Handled : Device(i) = cur'
        <5>1. PICK i \in 1..Handled : Device(i) = cur'
          BY <4>1
        <5>2. HasDriver(cur') /\ Spent(cur')
          BY <2>1, <3>5, <5>1 DEF HandledOK, SpentOK
        <5>3. ASSUME before.drv[cur'] = None PROVE FreeTwice(cur')
          <6> DEFINE k == Handled'
          <6>1. k \in DOMAIN line.names /\ k = Handled + 1
            BY <3>3
          <6>2. cur' = Device(k)
            BY <3>4 DEF Device
          <6> HIDE DEF k
          <6>3. Handled \in Nat /\ i \in 1..Handled
            BY <3>3, <5>1
          <6> HIDE DEF Handled
          <6>4. i \in 1..(k - 1)
            BY ONLY <6>1, <6>3, SMT
          <6>5. QED BY <3>2, <5>1, <5>3, <6>1, <6>2, <6>4, HandledTwice
        <5>4. QED BY <5>2, <5>3 DEF Spent
      <4>2. CASE ~\E i \in 1..Handled : Device(i) = cur'
        BY <2>1, <3>1, <3>5, <4>2 DEF UnhandledOK
      <4>3. QED BY <4>1, <4>2
    <3>6. /\ want' = opts'.flag /\ pc' = "bind"
          /\ hasOverride' /\ cur' \notin told' \cup touched' =>
               \/ devices'[cur'].drv = drv'[cur'] /\ drv'[cur'] = before'.drv[cur']
               \/ /\ drv'[cur'] = opts'.flag
                  /\ hasOverride' => \/ override'[cur'] = None
                                     \/ FreeTwice(cur') /\ override'[cur'] = opts'.flag
                  /\ FreeTwice(cur') \/ devices'[cur'].drv = ""
      BY <2>1, <3>1, <3>5 DEF HasDriver
    <3>7. FreeTwice(cur') => FreeTwice(cur)'
      BY <2>1 DEF FreeTwice
    <3>8. QED BY <3>6, <3>7 DEF HasDriver
  <2>4. QED BY <2>2, <2>3
<1>10. ASSUME NEW d \in Devs, NEW f \in Drivers, OtherBind(d, f) PROVE AtHand'
  <2>1. /\ UNCHANGED <<line, opts, hasOverride, before, override, want, told, devices, cur,
                       pc, ret, exit>>
        /\ touched \subseteq touched' /\ \A e \in Devs : e \in touched' \/ drv'[e] = drv[e]
    BY <1>10 DEF OtherBind
  <2>2. QED BY <2>1, AtHandKept
<1>11. ASSUME NEW d \in Devs, OtherUnbind(d) PROVE AtHand'
  <2>1. /\ UNCHANGED <<line, opts, hasOverride, before, override, want, told, devices, cur,
                       pc, ret, exit>>
        /\ touched \subseteq touched' /\ \A e \in Devs : e \in touched' \/ drv'[e] = drv[e]
    BY <1>11 DEF OtherUnbind
  <2>2. QED BY <2>1, AtHandKept
<1>12. ASSUME NEW d \in Devs, RouteAdded(d) PROVE AtHand'
  <2>1. /\ UNCHANGED <<line, opts, hasOverride, before, override, want, told, devices, cur,
                       pc, ret, exit>>
        /\ touched \subseteq touched' /\ \A e \in Devs : e \in touched' \/ drv'[e] = drv[e]
    BY <1>12 DEF RouteAdded
  <2>2. QED BY <2>1, AtHandKept
<1>13. ASSUME NEW f \in Drivers, Rmmod(f) PROVE AtHand'
  <2>1. /\ UNCHANGED <<line, opts, hasOverride, before, override, want, told, devices, cur,
                       pc, ret, exit>>
        /\ touched \subseteq touched' /\ \A e \in Devs : e \in touched' \/ drv'[e] = drv[e]
    BY <1>13 DEF Rmmod
  <2>2. QED BY <2>1, AtHandKept
<1>14. ASSUME NEW l \in CmdLines, Main(l) PROVE AtHand'
  BY <1>14, MainSets DEF AtHand, OnName
<1>15. CASE UNCHANGED vars
  <2>1. UNCHANGED <<line, opts, hasOverride, before, drv, override, want, told, touched, devices,
                    cur, pc, ret, exit>>
    BY <1>15 DEF vars
  <2>2. QED BY <2>1, AtHandKept
<1>19. QED
  BY <1>1, <1>2, <1>3, <1>4, <1>5, <1>6, <1>7, <1>8, <1>9, <1>10, <1>11, <1>12,
     <1>13, <1>14, <1>15, <1>16, <1>17, <1>18 DEF Next, Script, Others

\* The command line and the options change only when a run begins.
RunGoesOn == opts' = opts /\ line' = line /\ (Started' => Started)
\* A step is one of a run, or begins one.
LEMMA RunStep ==
  [Next]_vars => RunGoesOn \/ \E l \in CmdLines : Main(l)
<1> USE DEF RunGoesOn, Started
<1>1. CASE Script \/ Kill
  <2>1. pc # "done" /\ opts' = opts /\ line' = line
    BY <1>1 DEF Script, Kill, ReadLspci, ReadDetails, NothingToDo, StatusOnly, unbind_all,
       bind_all, NextName, EndOfNames, EachDpdk, PostCheck, EndOfDevices, UnbindSkip,
       UnbindNoFile, UnbindWrite, BindSkip, BindOne, OverrideSkip, OverrideWrite, NewIdWrite,
       OverrideFail, BindNoFile, BindWrite, Verify, ClearOverride, Refresh, NoStatus, show_status
  <2>2. QED BY <2>1
<1>2. ASSUME Others PROVE RunGoesOn
  BY <1>2 DEF Others, OtherBind, OtherUnbind, RouteAdded, Rmmod
<1>3. ASSUME UNCHANGED vars PROVE RunGoesOn
  BY <1>3 DEF vars
<1>4. QED BY <1>1, <1>2, <1>3 DEF Next

\* The type invariant, part by part.
LEMMA Parts == TypeOK <=> KernelOK /\ DevicesOK /\ PlaceOK
BY DEF TypeOK, KernelOK, DevicesOK, PlaceOK

-----------------------------------------------------------------------------
(***************************************************************************)
(* The inductive invariant.                                                *)
(***************************************************************************)
\* It holds at first.
LEMMA InitHolds == Init => IInv
<1> SUFFICES ASSUME Init PROVE IInv
  OBVIOUS
<1>1. DOMAIN devices = {}
  BY EmptyDomain DEF Init
<1>2. /\ drv \in [Devs -> Drivers \cup {None}] /\ modules \subseteq Drivers
      /\ \A d \in Devs : drv[d] # None => drv[d] \in modules
      /\ routed \subseteq {d \in Devs : drv[d] \in KernelDrivers}
  BY SystemsAssumption DEF Init
<1>3. /\ override \in [Devs -> DpdkDrivers \cup {None}] /\ newIds = {} /\ dpdk = {} /\ loaded = {}
      /\ pc = "done" /\ exit = "none" /\ ret = "loop" /\ rest = {} /\ shown = {} /\ py \in {2, 3}
      /\ active = {} /\ told = {} /\ touched = {}
  BY DEF Init
<1>4. ~Started /\ ~Scanning /\ ~Early /\ ~OnName /\ ~Looping /\ ~Checking /\ ~Binding /\ ~Stopping
  BY <1>3 DEF Started, Scanning, Early, OnName, Looping, Checking, Binding, Stopping
<1>5. KernelOK /\ DevicesOK /\ PlaceOK
  BY <1>1, <1>2, <1>3 DEF KernelOK, DevicesOK, PlaceOK, IsInterface
<1>6. Located
  BY <1>3, <1>4 DEF Located, Phases
<1>7. Loaded /\ Fresh /\ Alike /\ StatusIsFresh
  BY <1>1, <1>2, <1>3, <1>4 DEF Loaded, Fresh, Alike, StatusIsFresh
<1>8. Kept /\ Untouched /\ Left /\ Again /\ Turn /\ Silent
  BY <1>3, <1>4 DEF Kept, Untouched, Left, Again, Turn, Silent
<1>9. QED BY <1>5, <1>6, <1>7, <1>8, Parts DEF IInv

\* Each step preserves what is known of the devices that were asked for.
LEMMA SilentStep ==
  ASSUME IInv, [Next]_vars PROVE Silent'
<1> SUFFICES ASSUME Binding' PROVE HandledOK' /\ SpentOK' /\ UnhandledOK' /\ AtHand'
  BY DEF Silent
<1> USE Parts DEF IInv
<1>1. ASSUME NEW l \in CmdLines, Main(l) PROVE HandledOK' /\ SpentOK' /\ UnhandledOK' /\ AtHand'
  BY <1>1, MainSets
     DEF HandledOK, SpentOK, UnhandledOK, AtHand, Looping, Checking, Ending, OnName, Scanning
<1>2. CASE RunGoesOn
  <2>1. Binding
    BY <1>2, SameLine DEF Binding, RunGoesOn
  <2>2. HandledOK /\ SpentOK /\ UnhandledOK /\ AtHand
    BY <2>1 DEF Silent
  <2>3. QED BY <2>1, <2>2, HandledStep, SpentStep, UnhandledStep, AtHandStep
<1>3. QED BY <1>1, <1>2, RunStep

\* Each step preserves it.
LEMMA IInvStep == IInv /\ [Next]_vars => IInv'
<1> SUFFICES ASSUME IInv, [Next]_vars PROVE IInv'
  OBVIOUS
<1>1. KernelOK /\ DevicesOK /\ PlaceOK
  BY Parts DEF IInv
<1>2. /\ Located /\ Loaded /\ Fresh /\ Alike /\ StatusIsFresh
      /\ Kept /\ Untouched /\ Left /\ Again /\ Turn
  BY DEF IInv
<1>3. KernelOK' /\ DevicesOK' /\ PlaceOK' /\ Located'
  BY <1>1, <1>2, KernelStep, DevicesStep, PlaceStep, LocatedStep
<1>4. Loaded' /\ Fresh' /\ Alike' /\ StatusIsFresh'
  BY <1>1, <1>2, LoadedStep, FreshStep, AlikeStep, StatusStep
<1>5. Kept' /\ Untouched' /\ Left'
  BY <1>1, <1>2, KeptStep, UntouchedStep, LeftStep
<1>6. Again' /\ Turn' /\ Silent'
  BY <1>1, <1>2, AgainStep, TurnStep, SilentStep
<1>7. TypeOK'
  BY <1>3, Parts DEF TypeOK, KernelOK, DevicesOK, PlaceOK
<1>8. QED BY <1>3, <1>4, <1>5, <1>6, <1>7 DEF IInv

\* What every state satisfies, for any devices, drivers and command lines.
THEOREM IInvHolds == Spec => []IInv
BY InitHolds, IInvStep, PTL DEF Spec

-----------------------------------------------------------------------------
(***************************************************************************)
(* The properties.                                                         *)
(***************************************************************************)
\* The kernel's state and the script's variables stay in their types, and the
\* functions of the script are only called with devices it knows.
THEOREM TypeCorrect == Spec => []TypeOK
<1>1. IInv => TypeOK
  BY DEF IInv
<1>2. QED BY <1>1, IInvHolds, PTL

\* What --status displays is what the kernel has.
THEOREM StatusIsTrue == Spec => []StatusIsFresh
<1>1. IInv => StatusIsFresh
  BY DEF IInv
<1>2. QED BY <1>1, IInvHolds, PTL

\* A bind that reports success leaves the other devices as it found them.
THEOREM OthersAreLeft == Spec => []OthersLeftAlone
<1>1. IInv => OthersLeftAlone
  <2> SUFFICES ASSUME Left, Bound, NEW d \in Devs \ (Requested \cup touched)
               PROVE  drv[d] = before.drv[d] /\ override[d] = before.override[d]
    BY DEF IInv, OthersLeftAlone
  <2>1. Binding /\ pc = "done" /\ exit = "ok"
    BY DEF Bound, Binding, Started
  <2>2. ~Taken(d)
    BY <2>1 DEF Taken, Looping, Checking, OnName
  <2>3. QED BY <2>1, <2>2 DEF Left
<1>2. QED BY <1>1, IInvHolds, PTL

\* In Python 2 an unknown name stops the script before it changes anything.
THEOREM UnknownNameStops == Spec => []UnknownStopsAll
<1>1. IInv => UnknownStopsAll
  <2> SUFFICES ASSUME Untouched, pc = "done", exit \notin {"none", "killed"}, py = 2,
                      None \in Requested, line.names[1] # "dpdk"
               PROVE  \A d \in Devs \ touched : AsFound(d)
    BY DEF IInv, UnknownStopsAll, AsFound
  <2>1. Stopping
    BY DEF Stopping, Started
  <2>2. QED BY <2>1 DEF Untouched
<1>2. QED BY <1>1, IInvHolds, PTL

\* A bind that reports success, and says nothing of a device, has bound it.
THEOREM SilenceMeansBound == Spec => []SilentMeansDone
<1>1. IInv => SilentMeansDone
  <2> SUFFICES ASSUME IInv, Bound, NEW d \in Requested \ (told \cup touched)
               PROVE  HasDriver(d)
    BY DEF SilentMeansDone, HasDriver
  <2>1. /\ Binding /\ Ending /\ ~OnName /\ ~Looping
    BY DEF Bound, Binding, Started, Ending, OnName, Looping
  <2>2. HandledOK /\ Turn /\ Located
    BY <2>1 DEF IInv, Silent
  <2>3. line.names \in Seq(Names)
    BY <2>1, <2>2, HandledRequested
  <2>4. Handled = Len(line.names)
    <3> DEFINE n == Len(line.names)
    <3>1. todo = <<>> /\ Len(todo) = 0
      BY <2>1, <2>2, EmptySeq DEF Turn
    <3>2. n \in Nat
      BY <2>3
    <3> HIDE DEF n
    <3>3. n - 0 = n
      BY <3>2
    <3>4. QED BY <3>1, <3>3 DEF Handled, n
  <2>5. PICK i \in DOMAIN line.names : d = Device(i)
    BY DEF Requested, Device
  <2>6. i \in 1..Handled
    <3> DEFINE n == line.names
    <3>1. \A q \in Seq(Names) : DOMAIN q = 1..Len(q)
      OBVIOUS
    <3>2. n \in Seq(Names) /\ i \in DOMAIN n /\ Handled = Len(n)
      BY <2>3, <2>4
    <3> HIDE DEF n
    <3>3. QED BY <3>1, <3>2
  <2>7. QED BY <2>1, <2>2, <2>5, <2>6 DEF HandledOK
<1>2. QED BY <1>1, IInvHolds, PTL

\* The script takes a device's driver, when it saw a route through it, only if
\* it is forced, or a second group has read the device again.
RouteKept ==
  \A d \in active \ touched : Script /\ drv'[d] # drv[d] => opts.force \/ ReadTwice(d)
\* A step of the script changes the driver of no device it saw a route through,
\* but with -F or if two groups listed it.
LEMMA RouteStep == IInv /\ [Next]_vars => RouteKept
<1> SUFFICES ASSUME IInv, Script, NEW d \in active \ touched, drv'[d] # drv[d],
                    ~opts.force, ~ReadTwice(d)
             PROVE  FALSE
  BY DEF RouteKept
<1>1. KernelOK /\ DevicesOK /\ PlaceOK /\ Kept /\ Located
  BY Parts DEF IInv
<1>2. UnbindWrite \/ NewIdWrite \/ BindWrite
  BY DEF Script, ReadLspci, ReadDetails, NothingToDo, StatusOnly, unbind_all, bind_all,
     NextName, EndOfNames, EachDpdk, PostCheck, EndOfDevices, UnbindSkip, UnbindNoFile,
     BindSkip, BindOne, OverrideSkip, OverrideWrite, OverrideFail, BindNoFile,
     Verify, ClearOverride, Refresh, NoStatus, show_status
<1>3. pc \in {"unbind", "override", "write"}
  BY <1>2 DEF UnbindWrite, NewIdWrite, BindWrite
<1>4. Marked(d)
  BY <1>1, <1>3 DEF Kept, Located, Scanning
<1>5. d \in Devs /\ drv[d] # None
  BY <1>1, <1>4, NotDrivers DEF Marked, DevicesOK
<1>6. CASE UnbindWrite
  <2>1. d = cur
    BY <1>1, <1>5, <1>6 DEF UnbindWrite, KernelOK
  <2>2. QED BY <1>4, <1>6, <2>1 DEF UnbindWrite, Protected, Marked
<1>7. CASE NewIdWrite
  BY <1>5, <1>7 DEF NewIdWrite
<1>8. CASE BindWrite
  BY <1>1, <1>5, <1>8 DEF BindWrite, KernelOK
<1>9. QED BY <1>2, <1>6, <1>7, <1>8

\* Nothing the script does unbinds a device it saw a route through, unless -F is
\* given or two groups listed it: the checks in unbind_one (363-367) and bind_one
\* (386-390) on what get_device_details marked.
THEOREM RoutesAreKept == Spec => ActiveKept
<1>1. IInv /\ [Next]_vars => [RouteKept]_vars
  BY RouteStep
<1>2. Spec => [][RouteKept]_vars
  BY <1>1, IInvHolds, PTL DEF Spec
<1>3. QED BY <1>2 DEF ActiveKept, RouteKept
=============================================================================
