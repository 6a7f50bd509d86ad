------------------------------- MODULE PmdInfo -------------------------------
(***************************************************************************)
(* dpdk-pmdinfo.py prints what hardware the drivers support that a program *)
(* is linked with, or that it loads from a directory of plugins.  It walks *)
(* libraries by their DT_NEEDED entries, or the directory, and looks for   *)
(* strings in the .rodata section of each.                                 *)
(*                                                                         *)
(* What it is given is a world: the options, the file, the libraries, the  *)
(* directories and pci.ids.  A section is a sequence of bytes, where "pmd" *)
(* and "path" stand for the texts PMD_INFO_STRING=... and                  *)
(* DPDK_PLUGIN_PATH=..., "txt" for any other printable byte, "bin" for     *)
(* one that is not, and "nul" for 0.                                       *)
(***************************************************************************)
EXTENDS PciIds

CONSTANTS Worlds,
          PciEntries,  \* the pci_ids of every PMD_INFO_STRING
          MaxDepth     \* Python's recursion limit

ASSUME DepthAssumption == MaxDepth \in Nat \ {0}

VARIABLES world,
          pc,
          pcidb,    \* <<vendors>>, or <<>> for None
          scanned,  \* what search_for_autoload_path looks for its string in
          stack,    \* process_dt_needed_entries: files and the tag each is at
          todo,     \* scan_autoload_path: what is left of the listings
          out,      \* what was printed: the file, its strings and names
          exit
vars == <<world, pc, pcidb, scanned, stack, todo, out, exit>>

Init ==
  /\ world \in Worlds
  /\ pc = "main" /\ pcidb = <<>> /\ scanned = "none"
  /\ stack = <<>> /\ todo = <<>> /\ out = <<>>
  /\ exit = "none"

Stop(e) == pc' = "done" /\ exit' = e

-----------------------------------------------------------------------------
(***************************************************************************)
(* Strings of a section: a string starts at the first byte that can be     *)
(* printed, and ends before the next 0.                                    *)
(***************************************************************************)
Bytes == {"nul", "bin", "txt", "pmd", "path"}
Printable == {"txt", "pmd", "path"}

\* A directory is listed in one other, all of them below the first.
IsTree(tree, first, files) ==
  /\ first \in DOMAIN tree
  /\ \A d \in DOMAIN tree : /\ tree[d] \in Seq(files \cup DOMAIN tree)
                            /\ first \notin ToSet(tree[d])
  /\ \A d, e \in DOMAIN tree : \A i \in DOMAIN tree[d], j \in DOMAIN tree[e] :
       tree[d][i] = tree[e][j] => d = e /\ i = j
  /\ \A S \in SUBSET (DOMAIN tree \ {first}) : S # {} =>
       \E d \in S, e \in DOMAIN tree \ S : d \in ToSet(tree[e])

ASSUME WorldsAssumption ==
  \A w \in Worlds :
    /\ w.needed \in [DOMAIN w.needed -> Seq(DOMAIN w.needed)]
    /\ w.elf \cap w.dynamic \subseteq DOMAIN w.needed
    /\ w.elf \subseteq DOMAIN w.rodata /\ \A f \in DOMAIN w.rodata : w.rodata[f] \in Seq(Bytes)
    /\ w.pci \in Seq(Lines)
    /\ w.elf \cap DOMAIN w.tree = {} /\ IsTree(w.tree, w.plugins, DOMAIN w.rodata)

FirstFrom(data, p, bytes) ==
  LET qs == {q \in p..Len(data) : data[q] \in bytes}
  IN  IF qs = {} THEN Len(data) + 1 ELSE Min(qs)

\* Mutant: a string ends at the first byte that cannot be printed.
StringsWith_EndsEarly(mark, data) ==
  LET next[p \in 1..(Len(data) + 1)] ==
        LET b == FirstFrom(data, p, Printable)
            e == FirstFrom(data, b, Bytes \ Printable)
            m == FirstFrom(SubSeq(data, 1, e - 1), b, {mark})
        IN  IF b > Len(data) THEN <<>>
            ELSE (IF m < e THEN <<SubSeq(data, m, e - 1)>> ELSE <<>>) \o next[e]
  IN  next[1]

\* The strings that contain mark, from it on.
StringsWith(mark, data) ==
  LET next[p \in 1..(Len(data) + 1)] ==
        LET b == FirstFrom(data, p, Printable)
            e == FirstFrom(data, b, {"nul"})
            m == FirstFrom(SubSeq(data, 1, e - 1), b, {mark})
        IN  IF b > Len(data) THEN <<>>
            ELSE (IF m < e THEN <<SubSeq(data, m, e - 1)>> ELSE <<>>) \o next[e]
  IN  next[1]

\* parse_pmd_info_string prints the ids with their names, if it has a database.
Printed(f) == [file |-> f,
               strings |-> StringsWith("pmd", world.rodata[f]),
               names |-> IF pcidb = <<>> \/ world.raw THEN <<>>
                         ELSE [i \in DOMAIN PciEntries |-> Names(pcidb[1], PciEntries[i])]]

display_pmd_info_strings(f) == out' = Append(out, Printed(f))

-----------------------------------------------------------------------------
(***************************************************************************)
(* main.  The database is read even if it is not used.                     *)
(***************************************************************************)
ReadPciIds ==
  /\ pc = "main" /\ ~world.pciMissing
  /\ LET db == parse(world.pci) IN
     IF db.keyError THEN Stop("traceback") /\ UNCHANGED pcidb
     ELSE /\ pcidb' = (IF world.table THEN <<>> ELSE <<db.vendors>>)
          /\ pc' = "args" /\ UNCHANGED exit
  /\ UNCHANGED <<world, scanned, stack, todo, out>>

NoPciIds ==
  /\ pc = "main" /\ world.pciMissing
  /\ Stop("traceback") /\ UNCHANGED <<world, pcidb, scanned, stack, todo, out>>

Usage ==
  /\ pc = "args" /\ world.file = "none"
  /\ Stop("error") /\ UNCHANGED <<world, pcidb, scanned, stack, todo, out>>

\* search_file calls string.split, which Python 3 does not have.
NotFound ==
  /\ pc = "args" /\ world.file # "none" /\ ~world.pdir
  /\ world.file \notin world.here
  /\ \/ world.py = 3 /\ Stop("traceback")
     \/ world.py = 2 /\ world.file \notin world.found /\ Stop("error")
  /\ UNCHANGED <<world, pcidb, scanned, stack, todo, out>>

Open ==
  /\ pc = "args" /\ world.file # "none" /\ ~world.pdir
  /\ \/ world.file \in world.here
     \/ world.py = 2 /\ world.file \in world.found
  /\ IF world.file \in world.elf THEN stack' = <<<<world.file, 1>>>> /\ pc' = "needed" /\ UNCHANGED exit
     ELSE Stop("error") /\ UNCHANGED stack
  /\ UNCHANGED <<world, pcidb, scanned, todo, out>>

-----------------------------------------------------------------------------
(***************************************************************************)
(* process_dt_needed_entries and, for the file it was called on, the       *)
(* display that follows every call of it.                                  *)
(***************************************************************************)
Top == stack[Len(stack)]
Below == SubSeq(stack, 1, Len(stack) - 1)
Tags(f) == IF f \in world.dynamic THEN world.needed[f] ELSE <<>>
Advance == Append(Below, <<Top[1], Top[2] + 1>>)

AtTag == pc = "needed" /\ Top[2] <= Len(Tags(Top[1]))

NeededPython3 ==
  /\ AtTag /\ world.py = 3
  /\ Stop("traceback") /\ UNCHANGED <<world, pcidb, scanned, stack, todo, out>>

\* Mutant: the first library that is not found or not an ELF file ends the loop.
NeededSkip_Ends ==
  /\ AtTag /\ world.py = 2
  /\ Tags(Top[1])[Top[2]] \notin world.found \cap world.elf
  /\ stack' = Append(Below, <<Top[1], Len(Tags(Top[1])) + 1>>)
  /\ UNCHANGED <<world, pc, pcidb, scanned, todo, out, exit>>

\* A library that is not found or not an ELF file is passed over.
NeededSkip ==
  /\ AtTag /\ world.py = 2
  /\ Tags(Top[1])[Top[2]] \notin world.found \cap world.elf
  /\ stack' = Advance
  /\ UNCHANGED <<world, pc, pcidb, scanned, todo, out, exit>>

\* Nothing remembers what has been visited.
NeededEnter ==
  LET lib == Tags(Top[1])[Top[2]] IN
  /\ AtTag /\ world.py = 2 /\ lib \in world.found \cap world.elf
  /\ IF Len(stack) < MaxDepth
     THEN stack' = Append(Advance, <<lib, 1>>) /\ UNCHANGED <<pc, exit>>
     ELSE Stop("recursion") /\ UNCHANGED stack
  /\ UNCHANGED <<world, pcidb, scanned, todo, out>>

NeededReturn ==
  /\ pc = "needed" /\ Top[2] > Len(Tags(Top[1]))
  /\ display_pmd_info_strings(Top[1])
  /\ stack' = Below
  /\ IF Below = <<>> THEN Stop("ok") ELSE UNCHANGED <<pc, exit>>
  /\ UNCHANGED <<world, pcidb, scanned, todo>>

-----------------------------------------------------------------------------
(***************************************************************************)
(* scan_for_autoload_pmds, search_for_autoload_path, scan_autoload_path.   *)
(***************************************************************************)
\* The handler names ElfError, which does not exist.
NotAnElf ==
  /\ pc = "args" /\ world.file # "none" /\ world.pdir
  /\ IF world.file \in world.here THEN world.file \notin world.elf /\ Stop("traceback")
     ELSE Stop("ok")
  /\ UNCHANGED <<world, pcidb, scanned, stack, todo, out>>

\* A program linked with librte_eal keeps the path in the library, one that is
\* not dynamic in itself.  In Python 3 search_file's AttributeError is taken for
\* a program that is not dynamic.
FindLibrary ==
  /\ pc = "args" /\ world.pdir /\ world.file \in world.here \cap world.elf
  /\ \/ /\ world.eal = "none" \/ world.file \notin world.dynamic \/ world.py = 3
        /\ scanned' = world.file /\ pc' = "scan" /\ UNCHANGED exit
     \/ /\ world.eal # "none" /\ world.file \in world.dynamic /\ world.py = 2
        /\ IF world.eal \in world.found \cap world.elf
           THEN scanned' = world.eal /\ pc' = "scan" /\ UNCHANGED exit
           ELSE Stop("ok") /\ UNCHANGED scanned
  /\ UNCHANGED <<world, pcidb, stack, todo, out>>

FindPath ==
  /\ pc = "scan"
  /\ IF StringsWith("path", world.rodata[scanned]) # <<>>
     THEN todo' = world.tree[world.plugins] /\ pc' = "walk" /\ UNCHANGED exit
     ELSE Stop("ok") /\ UNCHANGED todo
  /\ UNCHANGED <<world, pcidb, scanned, stack, out>>

Walk ==
  /\ pc = "walk" /\ todo # <<>>
  /\ IF Head(todo) \in DOMAIN world.tree
     THEN todo' = world.tree[Head(todo)] \o Tail(todo) /\ UNCHANGED out
     ELSE /\ todo' = Tail(todo)
          /\ IF Head(todo) \in world.elf THEN display_pmd_info_strings(Head(todo))
             ELSE UNCHANGED out
  /\ UNCHANGED <<world, pc, pcidb, scanned, stack, exit>>

WalkEnd ==
  /\ pc = "walk" /\ todo = <<>>
  /\ Stop("ok") /\ UNCHANGED <<world, pcidb, scanned, stack, todo, out>>

Next == \/ ReadPciIds \/ NoPciIds \/ Usage \/ NotFound \/ Open
        \/ NeededPython3 \/ NeededSkip \/ NeededEnter \/ NeededReturn
        \/ NotAnElf \/ FindLibrary \/ FindPath \/ Walk \/ WalkEnd

Spec == Init /\ [][Next]_vars

-----------------------------------------------------------------------------
\* process_dt_needed_entries 453-471 and scan_autoload_path 500-518: when the
\* script ends well, it has displayed what the file is linked with, directly or
\* not, each library after those it needs and nothing else; or, of the plugins,
\* every ELF file in the directory and below it, once.
Linked(f) == ToSet(Tags(f)) \cap world.found \cap world.elf
Plugins == {f \in world.elf : \E d \in DOMAIN world.tree : f \in ToSet(world.tree[d])}

LinkedDisplayed ==
  /\ out # <<>> /\ out[Len(out)].file = world.file
  /\ \A i \in DOMAIN out :
       /\ \A lib \in Linked(out[i].file) : \E j \in 1..(i - 1) : out[j].file = lib
       /\ i < Len(out) => \E j \in (i + 1)..Len(out) : out[i].file \in Linked(out[j].file)

PluginsDisplayed ==
  /\ {out[i].file : i \in DOMAIN out} = Plugins
  /\ Len(out) = Cardinality(Plugins)

HasPath == scanned # "none" /\ "path" \in ToSet(world.rodata[scanned])

AllDisplayed ==
  /\ exit = "ok" /\ ~world.pdir => LinkedDisplayed
  /\ exit = "ok" /\ world.pdir /\ HasPath => PluginsDisplayed

\* display_pmd_info_strings 339-357 and PCIIds.parse 192-212: of each section that
\* is displayed, every PMD_INFO_STRING is printed that no 0 separates from an
\* earlier one, to the next 0 and whatever stands before it; and every id whose
\* text hex writes in full (69, 108, 179) gets the name that pci.ids lists for it.
NulIn(data, a, b) == \E k \in a..b : data[k] = "nul"

Firsts(mark, data) ==
  {m \in DOMAIN data : /\ data[m] = mark
                       /\ \A k \in 1..(m - 1) : data[k] = mark => NulIn(data, k, m)}

UpToNul(data, m) == SubSeq(data, m, Max({e \in m..Len(data) : ~NulIn(data, m, e)}))

Nth(S, i) == CHOOSE m \in S : Cardinality({k \in S : k <= m}) = i

ListedStrings(mark, data) ==
  LET ms == Firsts(mark, data)
  IN  [i \in 1..Cardinality(ms) |-> UpToNul(data, Nth(ms, i))]

OutputExact ==
  \A i \in DOMAIN out :
    /\ out[i].strings = ListedStrings("pmd", world.rodata[out[i].file])
    /\ \A k \in DOMAIN out[i].names :
         FullIds(PciEntries[k]) => out[i].names[k] = ListedNames(world.pci, PciEntries[k])
=============================================================================
