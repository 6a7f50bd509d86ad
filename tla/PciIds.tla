------------------------------- MODULE PciIds -------------------------------
(***************************************************************************)
(* The PCI database of dpdk-pmdinfo.py (classes PCIIds, Vendor, Device and *)
(* SubDevice): how the lines of pci.ids become dictionaries and how the    *)
(* names of a driver's ids are found in them.                              *)
(*                                                                         *)
(* A key of the dictionaries is text.  Of a text in hexadecimal the number *)
(* and how many digits show it matter: the file writes four.               *)
(***************************************************************************)
EXTENDS Naturals, Sequences, SequencesExt

FileId(n) == <<n, 4>>

\* hex(n)[2:] writes no more digits than n needs.
Digits(n) == CASE n < 16 -> 1 [] n \in 16..255 -> 2 [] n \in 256..4095 -> 3 [] OTHER -> 4
Hex(n) == <<n, Digits(n)>>

Empty == <<>>
Put(f, k, v) == [x \in DOMAIN f \cup {k} |-> IF x = k THEN v ELSE f[x]]

Vendor(name) == [name |-> name, devices |-> Empty]
Device(name) == [name |-> name, subdevices |-> Empty]

-----------------------------------------------------------------------------
(***************************************************************************)
(* parse.  A line is a comment, or belongs to a vendor, a device (one tab) *)
(* or a subdevice (two tabs); sub is the second id of a subdevice.         *)
(***************************************************************************)
Kinds == {"comment", "vendor", "device", "subdevice"}
Lines == [kind : Kinds, id : Nat, sub : Nat, name : STRING]
Line(kind, id, sub, name) == [kind |-> kind, id |-> id, sub |-> sub, name |-> name]

ParseStart == [vendors |-> Empty, vendorID |-> <<>>, deviceID |-> <<>>, keyError |-> FALSE]

HasVendor(s) == s.vendorID \in DOMAIN s.vendors
HasDevice(s) == HasVendor(s) /\ s.deviceID \in DOMAIN s.vendors[s.vendorID].devices
KeyError(s) == [s EXCEPT !.keyError = TRUE]

addSubDevice(s, l) ==
  IF ~HasDevice(s) THEN KeyError(s)
  ELSE [s EXCEPT !.vendors[s.vendorID].devices[s.deviceID].subdevices =
                    Put(@, <<FileId(l.id), FileId(l.sub)>>, l.name)]

\* A device that is listed again keeps its first entry.
addDevice(s, l) ==
  LET t == [s EXCEPT !.deviceID = FileId(l.id)] IN
  IF ~HasVendor(t) THEN KeyError(t)
  ELSE IF HasDevice(t) THEN t
  ELSE [t EXCEPT !.vendors[t.vendorID].devices = Put(@, t.deviceID, Device(l.name))]

\* A vendor that is listed again replaces its first entry, devices and all.
addVendor(s, l) ==
  [s EXCEPT !.vendorID = FileId(l.id), !.vendors = Put(@, FileId(l.id), Vendor(l.name))]

ParseLine(s, l) == IF s.keyError THEN s
                   ELSE CASE l.kind = "comment" -> s
                          [] l.kind = "subdevice" -> addSubDevice(s, l)
                          [] l.kind = "device" -> addDevice(s, l)
                          [] l.kind = "vendor" -> addVendor(s, l)

parse(lines) == FoldLeft(ParseLine, ParseStart, lines)

-----------------------------------------------------------------------------
(***************************************************************************)
(* The lookups of pretty_print_pmdinfo.                                    *)
(***************************************************************************)
find_vendor(vendors, n) ==
  IF Hex(n) \in DOMAIN vendors THEN vendors[Hex(n)] ELSE Vendor("Unknown Vendor")

find_device(vendor, n) ==
  IF Hex(n) \in DOMAIN vendor.devices THEN vendor.devices[Hex(n)] ELSE Device("Unknown Device")

\* FFFF, which stands for every subdevice.
AnyId == 65535

find_subid(device, subven, subdev) ==
  LET key == <<Hex(subven), Hex(subdev)>> IN
  IF key \in DOMAIN device.subdevices THEN device.subdevices[key]
  ELSE IF subven = AnyId /\ subdev = AnyId THEN "(All Subdevices)"
  ELSE "(Unknown Subdevice)"

\* i is an entry of pci_ids: vendor, device, subvendor, subdevice.
Names(vendors, i) ==
  LET vendor == find_vendor(vendors, i[1])
      device == find_device(vendor, i[2])
  IN  <<vendor.name, device.name, find_subid(device, i[3], i[4])>>

-----------------------------------------------------------------------------
(***************************************************************************)
(* What the lines say, for comparison: the names of an entry by the places *)
(* of the lines, without any dictionary.                                   *)
(***************************************************************************)
LinesOf(lines, kind, id) ==
  {k \in DOMAIN lines : lines[k].kind = kind /\ lines[k].id = id}

\* No line of one of the kinds stands between j and k.
Within(lines, j, k, kinds) == j < k /\ \A m \in (j + 1)..(k - 1) : lines[m].kind \notin kinds

VendorLines(lines, i) == LinesOf(lines, "vendor", i[1])
DeviceLines(lines, i) ==
  {k \in LinesOf(lines, "device", i[2]) :
     VendorLines(lines, i) # {} /\ Within(lines, Max(VendorLines(lines, i)), k, {"vendor"})}
SubdeviceLines(lines, i) ==
  {k \in LinesOf(lines, "subdevice", i[3]) :
     /\ lines[k].sub = i[4]
     /\ \E d \in DeviceLines(lines, i) : Within(lines, d, k, {"vendor", "device"})}

ListedNames(lines, i) ==
  LET vs == VendorLines(lines, i)
      ds == DeviceLines(lines, i)
      ss == SubdeviceLines(lines, i)
  IN  << IF vs = {} THEN "Unknown Vendor" ELSE lines[Max(vs)].name,
         IF ds = {} THEN "Unknown Device" ELSE lines[Min(ds)].name,
         IF ss # {} THEN lines[Max(ss)].name
         ELSE IF i[3] = AnyId /\ i[4] = AnyId THEN "(All Subdevices)"
         ELSE "(Unknown Subdevice)" >>

\* The ids hex writes as the file does.
FullIds(i) == \A k \in 1..4 : Digits(i[k]) = 4
=============================================================================
