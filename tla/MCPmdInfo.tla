------------------------------ MODULE MCPmdInfo ------------------------------
(* Worlds for the run of PmdInfo: every way three files may need each other,  *)
(* every short section, every short pci.ids, and directories of plugins.      *)
EXTENDS PmdInfo

Libs == {"pmd1", "pmd2"}
All == Libs \cup {"app", "eal"}
UpTo(S, n) == UNION {[1..k -> S] : k \in 0..n}

Plain == [py |-> 2, pdir |-> FALSE, raw |-> FALSE, table |-> FALSE,
          file |-> "app", here |-> {"app"}, found |-> All, elf |-> All, dynamic |-> All,
          needed |-> [f \in All |-> <<>>], rodata |-> [f \in All |-> <<"pmd">>],
          eal |-> "none", plugins |-> "plugins", tree |-> [d \in {"plugins"} |-> <<>>],
          pci |-> <<>>, pciMissing |-> FALSE]

\* Every graph; each library is found or not, an ELF file or not, dynamic or not.
Graphs ==
  {[Plain EXCEPT !.needed = [f \in All |-> IF f = "eal" THEN <<>> ELSE n[f]],
                 !.found = All \ no[1], !.elf = All \ no[2], !.dynamic = All \ no[3]] :
     n \in [{"app"} \cup Libs -> UpTo(Libs, 2)],
     no \in {<<{}, {}, {}>>, <<{"pmd1"}, {}, {}>>, <<{}, {"pmd2"}, {}>>, <<{}, {}, {"pmd1"}>>,
             <<{}, {}, {"app"}>>, <<{"pmd2"}, {"pmd1"}, {}>>}}

\* Every section of up to five bytes.
Sections ==
  {[Plain EXCEPT !.rodata["app"] = data] : data \in UpTo({"nul", "bin", "txt", "pmd"}, 5)}

\* Every file of up to four lines about two vendors, one with a leading zero.
IdLines == {Line("comment", 0, 0, ""),
            Line("vendor", 32902, 0, "Intel"), Line("vendor", 3601, 0, "Compaq"),
            Line("device", 4347, 0, "82599"), Line("device", 4347, 0, "X520"),
            Line("subdevice", 32902, 65535, "Adapter"), Line("subdevice", 32902, 65535, "OEM")}
Databases == {[Plain EXCEPT !.pci = lines] : lines \in UpTo(IdLines, 4)}
Entries == <<<<32902, 4347, 32902, 65535>>, <<32902, 4347, 65535, 65535>>,
             <<3601, 4347, 32902, 65535>>, <<32902, 8193, 65535, 65535>>>>

Options ==
  {[Plain EXCEPT !.py = p, !.file = f, !.here = h, !.elf = e, !.raw = r, !.table = t,
                 !.needed["app"] = n, !.pciMissing = m] :
     p \in {2, 3}, f \in {"none", "app"}, h \in {{}, {"app"}}, e \in {All, Libs},
     r \in BOOLEAN, t \in BOOLEAN, n \in {<<>>, <<"pmd1">>}, m \in BOOLEAN}

\* Two files and a directory in a directory, the path in the program or in eal.
Trees == {[plugins |-> <<"pmd1", "sub">>, sub |-> <<"pmd2", "notes">>],
          [plugins |-> <<"sub", "notes">>, sub |-> <<"pmd2">>],
          [plugins |-> <<>>]}
Autoload ==
  {[Plain EXCEPT !.pdir = TRUE, !.py = p, !.eal = l, !.tree = t, !.dynamic = y, !.here = h,
                 !.elf = e, !.found = o,
                 !.rodata = [f \in All \cup {"notes"} |-> IF f = holder THEN <<"bin", "path", "nul">>
                                                         ELSE <<"nul", "pmd">>]] :
     p \in {2, 3}, l \in {"none", "eal"}, t \in Trees, y \in {All, {}}, h \in {{}, {"app"}},
     e \in {All, All \ {"pmd2"}, All \ {"eal"}, All \ {"app"}}, o \in {All, Libs},
     holder \in {"app", "eal"}}

MCWorlds == Graphs \cup Sections \cup Databases \cup Options \cup Autoload
=============================================================================
