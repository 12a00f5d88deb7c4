---------------------------- MODULE WindowProofs ----------------------------
(***************************************************************************)
(* Theorems about the order of Visual Studio instances (VSInstance), for   *)
(* lists of any length, and about the window of ClangbuilderUI (Window),   *)
(* for any set of machines and any sequence of clicks.                     *)
(***************************************************************************)
EXTENDS Programs, FiniteSetTheorems, TLAPS

-----------------------------------------------------------------------------
(* The order of the instances.                                             *)

\* The order is irreflexive and transitive, and so is "neither comes first": what
\* std::sort asks of operator< (vsinstance.hpp:21); without it the sort in
\* GetVSInstanceAll would be undefined.
THEOREM LessIsStrictWeakOrder ==
    ASSUME NEW Ids, NEW Mains \in SUBSET Int, NEW Versions \in SUBSET Int,
           NEW a \in VSInstances(Ids, Mains, Versions),
           NEW b \in VSInstances(Ids, Mains, Versions),
           NEW c \in VSInstances(Ids, Mains, Versions)
    PROVE  /\ ~Less(a, a)
           /\ Less(a, b) /\ Less(b, c) => Less(a, c)
           /\ ~Less(a, b) /\ ~Less(b, a) /\ ~Less(b, c) /\ ~Less(c, b)
                 => ~Less(a, c) /\ ~Less(c, a)
<1>1. /\ a.main \in Int /\ b.main \in Int /\ c.main \in Int
      /\ a.ver \in Int /\ b.ver \in Int /\ c.ver \in Int
      /\ a.pre \in BOOLEAN /\ b.pre \in BOOLEAN /\ c.pre \in BOOLEAN
  BY DEF VSInstances
<1>2. ~Less(a, a)
  BY <1>1 DEF Less
<1>3. Less(a, b) /\ Less(b, c) => Less(a, c)
  BY <1>1 DEF Less
<1>4. ~Less(a, b) /\ ~Less(b, a) /\ ~Less(b, c) /\ ~Less(c, b) => ~Less(a, c) /\ ~Less(c, a)
  BY <1>1 DEF Less
<1> QED
  BY <1>2, <1>3, <1>4

\* The instance the window proposes (app.hpp:37) is of the highest main version,
\* a preview only if all of that main version are, and of the highest version
\* among those: however the sort arranged equal ones.
THEOREM ProposedIsNewest ==
    ASSUME NEW Ids, NEW Mains \in SUBSET Int, NEW Versions \in SUBSET Int,
           NEW s \in Seq(VSInstances(Ids, Mains, Versions)), s # <<>>, Sorted(s),
           NEW i \in DOMAIN s
    PROVE  LET it == s[Index(s) + 1]
           IN /\ s[i].main <= it.main
              /\ it.pre /\ s[i].main = it.main => s[i].pre
              /\ s[i].main = it.main /\ s[i].pre = it.pre => s[i].ver <= it.ver
<1> DEFINE n == Len(s)
<1>1. n \in Nat /\ n # 0 /\ DOMAIN s = 1 .. n
  OBVIOUS
<1>2. Index(s) + 1 = n
  BY <1>1 DEF Index
<1>3. /\ s[i] \in VSInstances(Ids, Mains, Versions)
      /\ s[n] \in VSInstances(Ids, Mains, Versions)
  BY <1>1
<1>4. /\ s[i].main \in Int /\ s[n].main \in Int /\ s[i].ver \in Int /\ s[n].ver \in Int
      /\ s[i].pre \in BOOLEAN /\ s[n].pre \in BOOLEAN
  BY <1>3 DEF VSInstances
<1>5. ~Less(s[n], s[i])
  <2>1. CASE i = n
    BY <2>1, <1>4 DEF Less
  <2>2. CASE i < n
    BY <2>2, <1>1 DEF Sorted
  <2> QED
    BY <1>1, <2>1, <2>2
<1> QED
  BY <1>2, <1>4, <1>5 DEF Less

-----------------------------------------------------------------------------
(* The instances that are found.                                           *)

\* The instances the window may list.  The provers do not know that the two names
\* of ours are strings; the union does no harm.
Found == VSInstances(STRING \cup {NoId, EWDK}, Nat, Nat)

\* Sorting a finite set of instances gives a list of them.
LEMMA SortedIsList ==
    ASSUME NEW S \in SUBSET Found, IsFiniteSet(S), NEW s \in SortedLists(S)
    PROVE  s \in Seq(Found) /\ Sorted(s) /\ \A i \in DOMAIN s : s[i] \in S
<1>1. Cardinality(S) \in Nat
  BY FS_CardinalityType
<1>2. s \in [1 .. Cardinality(S) -> S] /\ Sorted(s)
  BY DEF SortedLists, Arrangements
<1>3. s \in Seq(S) /\ DOMAIN s = 1 .. Cardinality(S)
  BY <1>1, <1>2
<1> QED
  BY <1>2, <1>3

\* The installer lists finitely many instances, and none has the id of the EWDK or
\* its main version.
LEMMA FromSetupFound ==
    ASSUME NEW m \in Machines
    PROVE  /\ FromSetup(m) \in SUBSET Found /\ IsFiniteSet(FromSetup(m))
           /\ \A i \in FromSetup(m) : i.id # EWDK /\ i.main # 0
<1> DEFINE D == 1 .. Len(m.list)
           f == [k \in D |-> Instance(m.list[k].id, m.list[k].main, m.list[k].ver, m.list[k].pre)]
<1>1. m.list \in Seq(Listed)
  BY MachinesAssumption
<1>2. Len(m.list) \in Nat /\ D = DOMAIN m.list /\ \A k \in D : m.list[k] \in Listed
  BY <1>1
<1>3. IsFiniteSet(D)
  BY <1>2, FS_Interval
<1>4. FromSetup(m) = {f[k] : k \in D}
  BY <1>2 DEF FromSetup
<1>5. f \in Surjection(D, FromSetup(m))
  BY <1>4 DEF Surjection
<1>6. IsFiniteSet(FromSetup(m))
  BY <1>3, <1>5, FS_Surjection
<1>7. \A k \in D : f[k] \in Found /\ f[k].id # EWDK /\ f[k].main # 0
  <2> SUFFICES ASSUME NEW k \in D PROVE f[k] \in Found /\ f[k].id # EWDK /\ f[k].main # 0
    OBVIOUS
  <2>1. /\ m.list[k].id \in STRING /\ m.list[k].id # EWDK /\ m.list[k].main \in Nat
        /\ m.list[k].main # 0 /\ m.list[k].ver \in Nat /\ m.list[k].pre \in BOOLEAN
    BY <1>2 DEF Listed
  <2> QED
    BY <2>1 DEF Instance, Found, VSInstances
<1> QED
  BY <1>4, <1>6, <1>7

LEMMA FromEnvironmentFound ==
    ASSUME NEW m
    PROVE  /\ FromEnvironment(m) \in SUBSET Found /\ IsFiniteSet(FromEnvironment(m))
           /\ \A i \in FromEnvironment(m) : i.id # EWDK
<1> DEFINE x == [id |-> NoId, main |-> 0, ver |-> 16, pre |-> FALSE]
<1>1. x.id # EWDK /\ x \in Found
  BY DEF EWDK, NoId, Found, VSInstances
<1>2. x = Instance(NoId, 0, 16, FALSE)
  BY DEF Instance
<1>3. IsFiniteSet({x}) /\ IsFiniteSet({})
  BY FS_Singleton, FS_EmptySet
<1> HIDE DEF x
<1> QED
  BY <1>1, <1>2, <1>3 DEF FromEnvironment

LEMMA FromSettingsFound == FromSettings \in Found /\ FromSettings.id = EWDK /\ FromSettings.main = 0
<1> DEFINE x == [id |-> EWDK, main |-> 0, ver |-> 0, pre |-> FALSE]
<1>1. x \in Found /\ x.id = EWDK /\ x.main = 0
  BY DEF Found, VSInstances
<1> QED
  BY <1>1 DEF FromSettings, Instance

\* What the window is given: a sorted list, where the EWDK of settings.json is
\* alone in having no main version.
LEMMA SearchGives ==
    ASSUME NEW m \in Machines, NEW list \in Search(m)
    PROVE  /\ list \in Seq(Found) /\ Sorted(list)
           /\ \A i, j \in DOMAIN list :
                 list[i].id = EWDK =>
                    list[i].main = 0 /\ (list[j].main = 0 => list[j] = list[i])
<1> DEFINE Goal == /\ list \in Seq(Found) /\ Sorted(list)
                   /\ \A i, j \in DOMAIN list :
                         list[i].id = EWDK =>
                            list[i].main = 0 /\ (list[j].main = 0 => list[j] = list[i])
<1>1. /\ FromSetup(m) \in SUBSET Found /\ IsFiniteSet(FromSetup(m))
      /\ \A i \in FromSetup(m) : i.id # EWDK /\ i.main # 0
  BY FromSetupFound
<1>2. /\ FromEnvironment(m) \in SUBSET Found /\ IsFiniteSet(FromEnvironment(m))
      /\ \A i \in FromEnvironment(m) : i.id # EWDK
  BY FromEnvironmentFound
<1>3. CASE list = <<>>
  BY <1>3 DEF Sorted
<1>4. CASE list \in SortedLists(FromEnvironment(m))
  BY <1>2, <1>4, SortedIsList
<1>5. CASE list \in SortedLists(FromEnvironment(m) \cup FromSetup(m))
  <2>1. IsFiniteSet(FromEnvironment(m) \cup FromSetup(m))
    BY <1>1, <1>2, FS_Union
  <2>2. /\ list \in Seq(Found) /\ Sorted(list)
        /\ \A i \in DOMAIN list : list[i] \in FromEnvironment(m) \cup FromSetup(m)
    BY <2>1, <1>1, <1>2, <1>5, SortedIsList
  <2> QED
    BY <2>2, <1>1, <1>2
<1>6. CASE list \in SortedLists(FromSetup(m) \cup {FromSettings})
  <2>1. IsFiniteSet(FromSetup(m) \cup {FromSettings})
    BY <1>1, FS_AddElement
  <2>2. /\ list \in Seq(Found) /\ Sorted(list)
        /\ \A i \in DOMAIN list : list[i] \in FromSetup(m) \cup {FromSettings}
    BY <2>1, <1>1, <1>6, SortedIsList, FromSettingsFound
  <2> QED
    BY <2>2, <1>1, FromSettingsFound
<1>7. PICK r \in GetVSInstanceAll(m) :
         list \in (IF r.ok /\ ~m.inEWDK /\ m.ewdk THEN SortedLists(FromSetup(m) \cup {FromSettings})
                   ELSE {r.list})
  BY DEF Search
<1>8. CASE r.list = list
  <2>1. m.setup \in {"none", "broken", "ok"}
    BY MachinesAssumption
  <2>2. \/ r.list = <<>>
        \/ r.list \in SortedLists(FromEnvironment(m))
        \/ r.list \in SortedLists(FromEnvironment(m) \cup FromSetup(m))
    <3>1. CASE m.setup = "none"
      <4>1. GetVSInstanceAll(m) = {[ok |-> FALSE, list |-> <<>>]}
        BY <3>1 DEF GetVSInstanceAll
      <4> QED
        BY <4>1, <1>7
    <3>2. CASE m.setup = "broken"
      <4>1. GetVSInstanceAll(m) = {[ok |-> FALSE, list |-> s] : s \in SortedLists(FromEnvironment(m))}
        BY <3>2 DEF GetVSInstanceAll
      <4> QED
        BY <4>1, <1>7
    <3>3. CASE m.setup = "ok"
      <4>1. GetVSInstanceAll(m) = {[ok |-> TRUE, list |-> s] :
                                     s \in SortedLists(FromEnvironment(m) \cup FromSetup(m))}
        BY <3>3 DEF GetVSInstanceAll
      <4>2. PICK s \in SortedLists(FromEnvironment(m) \cup FromSetup(m)) :
                r = [ok |-> TRUE, list |-> s]
        BY <4>1
      <4> QED
        BY <4>2
    <3> QED
      BY <2>1, <3>1, <3>2, <3>3
  <2> QED
    BY <2>2, <1>8, <1>3, <1>4, <1>5
<1> QED
  BY <1>6, <1>7, <1>8

-----------------------------------------------------------------------------
(* The invariant.                                                          *)

\* What is shown: as long as the window is open, every box has an entry
\* selected, but for that of the instances when there are none.
Shown ==
    /\ machine \in Machines /\ phase \in {"start", "open", "closed", "stuck"}
    /\ instances \in Seq(Found) /\ box \in [Boxes -> Int]
    /\ check \in SUBSET Checks /\ libcxx \in BOOLEAN
    /\ box["vs"] \in -1 .. Len(instances) - 1
    /\ phase = "start" => instances = <<>> /\ libcxx = FALSE
    /\ phase = "open" =>
         /\ \A b \in Boxes : box[b] = -1 <=> b = "vs" /\ instances = <<>>
         /\ \A b \in Boxes : box[b] \in -1 .. Len(Entries(b)) - 1
         /\ libcxx <=> LibcxxEngine(box["engine"])

\* A command line that was just issued, against what is selected.
Agrees ==
    /\ phase = "open" /\ AllSelected({"vs", "arch"})
    /\ issued.id = InstanceId(box["vs"]) /\ issued.arch = Selected("arch")
    /\ issued.clear \in BOOLEAN
    /\ issued.engine \in Engines /\ issued.branch \in Branches
    /\ issued.flavor \in Flavors \cup {"RelWithDebInfo"}
    /\ ~issued.env => (issued.libcxx <=> libcxx /\ "libcxx" \in check)

WindowInv == Shown /\ (issued # Silent => Agrees)

\* The entries of the boxes are words the script takes.
LEMMA Words ==
    /\ Len(Targets) = 4 /\ \A n \in 0 .. 3 : Targets[n + 1] \in Archs
    /\ Len(EngineValues) = 4
    /\ \A n \in 0 .. 3 :
         /\ EngineValues[n + 1] \in Engines
         /\ LibcxxEngine(n) <=> EngineValues[n + 1] \in {"NinjaBootstrap", "NinjaIterate"}
    /\ Len(BranchNames) = 3 /\ \A n \in 0 .. 2 : BranchNames[n + 1] \in Branches
    /\ Len(Configurations) = 4
    /\ \A n \in 0 .. 3 : Configurations[n + 1] \in Flavors \cup {"RelWithDebInfo"}
<1>1. Len(Targets) = 4 /\ \A n \in 0 .. 3 : Targets[n + 1] \in Archs
  BY DEF Targets, Archs
<1>2. Len(EngineValues) = 4
  BY DEF EngineValues
<1>3. ASSUME NEW n \in 0 .. 3
      PROVE  /\ EngineValues[n + 1] \in Engines
             /\ LibcxxEngine(n) <=> EngineValues[n + 1] \in {"NinjaBootstrap", "NinjaIterate"}
  <2>1. n = 0 \/ n = 1 \/ n = 2 \/ n = 3
    OBVIOUS
  <2> QED
    BY <2>1 DEF EngineValues, Engines, LibcxxEngine
<1>4. Len(BranchNames) = 3 /\ \A n \in 0 .. 2 : BranchNames[n + 1] \in Branches
  BY DEF BranchNames, Branches
<1>5. /\ Len(Configurations) = 4
      /\ \A n \in 0 .. 3 : Configurations[n + 1] \in Flavors \cup {"RelWithDebInfo"}
  BY DEF Configurations, Flavors
<1> QED
  BY <1>1, <1>2, <1>3, <1>4, <1>5

LEMMA EntriesAre ==
    /\ Entries("arch") = Targets /\ Entries("engine") = EngineValues
    /\ Entries("branch") = BranchNames /\ Entries("flavor") = Configurations
    /\ Entries("vs") = instances
  BY DEF Entries

LEMMA Lengths ==
    /\ Len(Entries("arch")) - 1 = 3 /\ Len(Entries("engine")) - 1 = 3
    /\ Len(Entries("branch")) - 1 = 2 /\ Len(Entries("flavor")) - 1 = 3
    /\ Len(Entries("vs")) = Len(instances)
<1>1. /\ Len(Entries("arch")) = 4 /\ Len(Entries("engine")) = 4
      /\ Len(Entries("branch")) = 3 /\ Len(Entries("flavor")) = 4
      /\ Len(Entries("vs")) = Len(instances)
  BY EntriesAre, Words
<1> QED
  BY <1>1

LEMMA ClosedInv == ASSUME NEW m \in Machines, Closed(m) PROVE WindowInv
<1>1. /\ machine \in Machines /\ phase = "start" /\ instances = <<>>
      /\ box = [b \in Boxes |-> -1] /\ check = {} /\ libcxx = FALSE /\ issued = Silent
  BY DEF Closed
<1>2. box \in [Boxes -> Int] /\ box["vs"] = -1
  BY <1>1 DEF Boxes
<1>3. instances \in Seq(Found) /\ box["vs"] \in -1 .. Len(instances) - 1
  BY <1>1, <1>2
<1>4. Shown
  BY <1>1, <1>2, <1>3 DEF Shown
<1> QED
  BY <1>1, <1>4 DEF WindowInv

\* The instance that is proposed is the last of the list.
LEMMA OpenInv == ASSUME WindowInv, Open PROVE WindowInv'
<1>1. PICK list \in Search(machine) :
         /\ instances' = list
         /\ box' = [vs |-> IF list = <<>> THEN -1 ELSE Index(list),
                    arch |-> IF machine.x64 THEN 1 ELSE 0,
                    flavor |-> 0, engine |-> 0, branch |-> 0]
  BY DEF Open
<1>2. /\ phase = "start" /\ phase' = "open" /\ machine' = machine /\ check' = check
      /\ libcxx' = libcxx /\ issued' = issued
  BY DEF Open
<1>3. machine \in Machines /\ check \in SUBSET Checks /\ libcxx = FALSE /\ issued = Silent
  <2>1. issued = Silent
    BY <1>2 DEF WindowInv, Agrees
  <2> QED
    BY <2>1, <1>2 DEF WindowInv, Shown
<1>4. list \in Seq(Found) /\ Len(list) \in Nat /\ (list = <<>> <=> Len(list) = 0)
  BY <1>3, SearchGives
<1> DEFINE last == IF list = <<>> THEN -1 ELSE Index(list)
<1>5. /\ last \in Int /\ last \in -1 .. Len(list) - 1
      /\ last = -1 <=> list = <<>>
  BY <1>4 DEF Index
<1>6. /\ box' \in [Boxes -> Int] /\ box'["vs"] = last /\ box'["arch"] \in {0, 1}
      /\ box'["flavor"] = 0 /\ box'["engine"] = 0 /\ box'["branch"] = 0
  <2> HIDE DEF last
  <2>1. box' = [vs |-> last, arch |-> IF machine.x64 THEN 1 ELSE 0,
                flavor |-> 0, engine |-> 0, branch |-> 0]
    BY <1>1 DEF last
  <2> QED
    BY <2>1, <1>5 DEF Boxes
<1>7. \A b \in Boxes :
         /\ box'[b] = -1 <=> b = "vs" /\ instances' = <<>>
         /\ box'[b] \in -1 .. Len(Entries(b)') - 1
  <2> HIDE DEF last
  <2> SUFFICES ASSUME NEW b \in Boxes
               PROVE  /\ box'[b] = -1 <=> b = "vs" /\ instances' = <<>>
                      /\ box'[b] \in -1 .. Len(Entries(b)') - 1
    OBVIOUS
  <2>1. /\ Len(Entries("arch")') = 4 /\ Len(Entries("engine")') = 4
        /\ Len(Entries("branch")') = 3 /\ Len(Entries("flavor")') = 4
        /\ Entries("vs")' = list
    <3>1. /\ Entries("arch")' = Targets /\ Entries("engine")' = EngineValues
          /\ Entries("branch")' = BranchNames /\ Entries("flavor")' = Configurations
          /\ Entries("vs")' = instances'
      BY DEF Entries
    <3> QED
      BY <3>1, <1>1, Words
  <2>2. CASE b = "vs"
    BY <2>2, <2>1, <1>1, <1>5, <1>6
  <2>3. CASE b \in {"arch", "engine", "branch", "flavor"}
    <3>1. Len(Entries(b)') \in {3, 4}
      BY <2>1, <2>3
    <3>2. box'[b] \in {0, 1}
      BY <2>3, <1>6
    <3> QED
      BY <3>1, <3>2, <2>3
  <2> QED
    BY <2>2, <2>3 DEF Boxes
<1>8. ~LibcxxEngine(0)
  BY DEF LibcxxEngine
<1> HIDE DEF last
<1>9. Shown'
  BY <1>1, <1>2, <1>3, <1>4, <1>5, <1>6, <1>7, <1>8 DEF Shown
<1> QED
  BY <1>2, <1>3, <1>9 DEF WindowInv

LEMMA OpenFailsInv == ASSUME WindowInv, OpenFails PROVE WindowInv'
<1>1. /\ phase = "start" /\ phase' = "stuck"
      /\ UNCHANGED <<machine, instances, box, check, libcxx, issued>>
  BY DEF OpenFails
<1>2. issued' = Silent
  BY <1>1 DEF WindowInv, Agrees
<1>3. Shown'
  BY <1>1 DEF WindowInv, Shown
<1> QED
  BY <1>2, <1>3 DEF WindowInv

LEMMA EntriesKept == ASSUME instances' = instances, NEW b \in Boxes PROVE Entries(b)' = Entries(b)
  BY DEF Entries

\* A selection is an entry of its box; only that of the engines decides which
\* boxes can be checked.
LEMMA SelectInv == ASSUME WindowInv, NEW b \in Boxes, Select(b) PROVE WindowInv'
<1>1. /\ phase = "open" /\ issued' = Silent
      /\ UNCHANGED <<machine, phase, instances, check>>
  BY DEF Select
<1>2. PICK n \in Positions[b] \cap 0 .. Len(Entries(b)) - 1 :
         /\ n # box[b] /\ box' = [box EXCEPT ![b] = n]
         /\ libcxx' = IF b = "engine" THEN LibcxxEngine(n) ELSE libcxx
  BY DEF Select
<1>3. /\ machine \in Machines /\ check \in SUBSET Checks /\ libcxx \in BOOLEAN
      /\ instances \in Seq(Found) /\ box \in [Boxes -> Int]
      /\ \A x \in Boxes : box[x] = -1 <=> x = "vs" /\ instances = <<>>
      /\ \A x \in Boxes : box[x] \in -1 .. Len(Entries(x)) - 1
      /\ libcxx <=> LibcxxEngine(box["engine"])
  BY <1>1 DEF WindowInv, Shown
<1>4. /\ \A x \in Boxes : Entries(x)' = Entries(x)
      /\ Entries("vs") = instances
  BY <1>1, EntriesKept, EntriesAre
<1>5. \A x \in Boxes : Len(Entries(x)) \in Nat
  <2>1. Len(instances) \in Nat
    BY <1>3
  <2> QED
    BY <2>1, EntriesAre, Words DEF Boxes
<1>6. n \in Int /\ n # -1 /\ n \in -1 .. Len(Entries(b)) - 1 /\ 0 < Len(Entries(b))
  BY <1>5
<1>7. box' \in [Boxes -> Int] /\ \A x \in Boxes : box'[x] = IF x = b THEN n ELSE box[x]
  BY <1>2, <1>3, <1>6
<1>8. \A x \in Boxes : box'[x] = -1 <=> x = "vs" /\ instances' = <<>>
  <2>1. b = "vs" => instances # <<>>
    BY <1>3, <1>4, <1>6
  <2> QED
    BY <2>1, <1>1, <1>3, <1>6, <1>7
<1>9. \A x \in Boxes : box'[x] \in -1 .. Len(Entries(x)') - 1
  BY <1>3, <1>4, <1>6, <1>7
<1>10. libcxx' \in BOOLEAN /\ (libcxx' <=> LibcxxEngine(box'["engine"]))
  <2>1. "engine" \in Boxes
    BY DEF Boxes
  <2>2. LibcxxEngine(n) \in BOOLEAN
    BY DEF LibcxxEngine
  <2>3. CASE b = "engine"
    BY <2>1, <2>2, <2>3, <1>2, <1>7
  <2>4. CASE b # "engine"
    BY <2>1, <2>4, <1>2, <1>3, <1>7
  <2> QED
    BY <2>3, <2>4
<1>11. box'["vs"] \in -1 .. Len(instances') - 1
  <2>1. "vs" \in Boxes
    BY DEF Boxes
  <2> QED
    BY <2>1, <1>1, <1>4, <1>9
<1>12. Shown'
  BY <1>1, <1>3, <1>7, <1>8, <1>9, <1>10, <1>11 DEF Shown
<1> QED
  BY <1>1, <1>12 DEF WindowInv

\* What the steps that leave what is shown as it is have to look at.
LEMMA ShownKept ==
    ASSUME Shown, UNCHANGED <<machine, instances, box, libcxx>>,
           check' \in SUBSET Checks, phase = "open", phase' \in {"open", "closed"}
    PROVE  Shown'
<1>1. \A b \in Boxes : Entries(b)' = Entries(b)
  BY EntriesKept
<1> QED
  BY <1>1 DEF Shown

LEMMA ToggleInv == ASSUME WindowInv, NEW x \in Checks, Toggle(x) PROVE WindowInv'
<1>1. /\ phase = "open" /\ issued' = Silent
      /\ UNCHANGED <<machine, phase, instances, box, libcxx>>
      /\ check' = IF x \in check THEN check \ {x} ELSE check \cup {x}
  BY DEF Toggle
<1>2. check' \in SUBSET Checks
  BY <1>1 DEF WindowInv, Shown
<1>3. Shown'
  BY <1>1, <1>2, ShownKept DEF WindowInv
<1> QED
  BY <1>1, <1>3 DEF WindowInv

LEMMA CloseInv == ASSUME WindowInv, OnClose PROVE WindowInv'
<1>1. /\ phase = "open" /\ phase' = "closed" /\ issued' = Silent
      /\ UNCHANGED <<machine, instances, box, check, libcxx>>
  BY DEF OnClose
<1>2. Shown'
  BY <1>1, ShownKept DEF WindowInv, Shown
<1> QED
  BY <1>1, <1>2 DEF WindowInv

\* Both buttons ask for what is selected.
LEMMA PromptAgrees ==
    ASSUME WindowInv, phase = "open", AllSelected({"vs", "arch"}),
           UNCHANGED <<machine, phase, instances, box, check, libcxx>>,
           issued'.id = Prompt.id, issued'.arch = Prompt.arch, issued'.clear = Prompt.clear,
           issued'.engine \in Engines, issued'.branch \in Branches,
           issued'.flavor \in Flavors \cup {"RelWithDebInfo"},
           ~issued'.env => (issued'.libcxx <=> libcxx /\ "libcxx" \in check)
    PROVE  WindowInv'
<1>1. Shown'
  BY ShownKept DEF WindowInv, Shown
<1>2. AllSelected({"vs", "arch"})'
  BY EntriesKept DEF AllSelected, Boxes
<1>3. InstanceId(box["vs"])' = InstanceId(box["vs"]) /\ Selected("arch")' = Selected("arch")
  BY EntriesKept DEF InstanceId, Selected, Boxes
<1>4. /\ issued'.id = InstanceId(box["vs"]) /\ issued'.arch = Selected("arch")
      /\ issued'.clear \in BOOLEAN
  BY DEF Prompt
<1>5. Agrees'
  BY <1>2, <1>3, <1>4 DEF Agrees
<1> QED
  BY <1>1, <1>5 DEF WindowInv

LEMMA StartupInv == ASSUME WindowInv, OnStartupEnv PROVE WindowInv'
<1>1. /\ phase = "open" /\ AllSelected({"vs", "arch"}) /\ issued' = Prompt
      /\ UNCHANGED <<machine, phase, instances, box, check, libcxx>>
  BY DEF OnStartupEnv
<1>2. /\ Prompt.engine = "MSBuild" /\ Prompt.branch = "Mainline"
      /\ Prompt.flavor = "Release" /\ Prompt.env = TRUE
  BY DEF Prompt
<1>3. /\ Prompt.engine \in Engines /\ Prompt.branch \in Branches
      /\ Prompt.flavor \in Flavors \cup {"RelWithDebInfo"} /\ Prompt.env
  BY <1>2 DEF Engines, Branches, Flavors
<1> QED
  BY <1>1, <1>3, PromptAgrees

LEMMA BuildNowInv == ASSUME WindowInv, OnBuildNow PROVE WindowInv'
<1>1. /\ phase = "open" /\ AllSelected(Boxes)
      /\ UNCHANGED <<machine, phase, instances, box, check, libcxx>>
  BY DEF OnBuildNow
<1>2. /\ issued'.id = Prompt.id /\ issued'.arch = Prompt.arch /\ issued'.clear = Prompt.clear
      /\ issued'.flavor = Selected("flavor") /\ issued'.engine = Selected("engine")
      /\ issued'.branch = Selected("branch")
      /\ issued'.libcxx = (box["engine"] \in {1, 3} /\ "libcxx" \in check)
  BY DEF OnBuildNow, Prompt
<1>3. /\ box["flavor"] \in 0 .. 3 /\ box["engine"] \in 0 .. 3 /\ box["branch"] \in 0 .. 2
  <2>1. /\ box["flavor"] \in 0 .. Len(Entries("flavor")) - 1
        /\ box["engine"] \in 0 .. Len(Entries("engine")) - 1
        /\ box["branch"] \in 0 .. Len(Entries("branch")) - 1
    BY <1>1 DEF AllSelected, Boxes
  <2> QED
    BY <2>1, Lengths
<1>4. /\ issued'.engine \in Engines /\ issued'.branch \in Branches
      /\ issued'.flavor \in Flavors \cup {"RelWithDebInfo"}
  BY <1>2, <1>3, EntriesAre, Words DEF Selected
<1>5. libcxx <=> box["engine"] \in {1, 3}
  BY <1>1 DEF WindowInv, Shown, LibcxxEngine
<1>6. AllSelected({"vs", "arch"})
  BY <1>1 DEF AllSelected, Boxes
<1> QED
  BY <1>1, <1>2, <1>4, <1>5, <1>6, PromptAgrees

LEMMA WindowInvStep == ASSUME WindowInv, WindowNext PROVE WindowInv'
  BY OpenInv, OpenFailsInv, SelectInv, ToggleInv, CloseInv, StartupInv, BuildNowInv
     DEF WindowNext

LEMMA WindowInvKept == ASSUME WindowInv, UNCHANGED wvars PROVE WindowInv'
<1>1. \A b \in Boxes : Entries(b)' = Entries(b)
  BY EntriesKept DEF wvars
<1>2. Shown'
  BY <1>1 DEF WindowInv, Shown, wvars
<1>3. Agrees => Agrees'
  <2>1. AllSelected({"vs", "arch"}) => AllSelected({"vs", "arch"})'
    BY <1>1 DEF AllSelected, Boxes, wvars
  <2>2. InstanceId(box["vs"])' = InstanceId(box["vs"]) /\ Selected("arch")' = Selected("arch")
    BY <1>1 DEF InstanceId, Selected, Boxes, wvars
  <2> QED
    BY <2>1, <2>2 DEF Agrees, wvars
<1> QED
  BY <1>2, <1>3 DEF WindowInv, wvars

\* The window is one of the programs; while another one is typed for, it stays
\* closed.
LEMMA ProgramsInv == ProgramsSpec => []WindowInv
<1>1. ProgramsInit => WindowInv
  <2>1. (CHOOSE m \in Machines : TRUE) \in Machines
    BY MachinesAssumption
  <2> QED
    BY <2>1, ClosedInv DEF ProgramsInit, WindowInit
<1>2. WindowInv /\ [ProgramsNext]_pvars => WindowInv'
  BY WindowInvStep, WindowInvKept DEF ProgramsNext, Type, UseWindow, pvars
<1> QED
  BY <1>1, <1>2, PTL DEF ProgramsSpec

-----------------------------------------------------------------------------
(* The theorems.                                                           *)

\* The selected instance is one of the list.
LEMMA SelectedInstance ==
    ASSUME Shown, AllSelected({"vs", "arch"})
    PROVE  /\ box["vs"] + 1 \in DOMAIN instances
           /\ InstanceId(box["vs"]) = instances[box["vs"] + 1].id
           /\ box["arch"] \in 0 .. 3
<1>1. box["vs"] \in 0 .. Len(Entries("vs")) - 1 /\ box["arch"] \in 0 .. Len(Entries("arch")) - 1
  BY DEF AllSelected
<1>2. instances \in Seq(Found) /\ box["vs"] \in 0 .. Len(instances) - 1 /\ box["arch"] \in 0 .. 3
  BY <1>1, Lengths DEF Shown
<1> QED
  BY <1>2 DEF InstanceId

\* Whatever is installed and whatever is clicked, an instance is selected whenever
\* there is one, and the console that is started is given an instance of the list
\* and words ClangbuilderTarget.ps1 takes (appexec.cc), all but the configuration
\* RelWithDebInfo.
THEOREM WindowTypeCorrect == ProgramsSpec => []WindowTypeOK
<1>1. WindowInv => WindowTypeOK
  <2> SUFFICES ASSUME WindowInv PROVE WindowTypeOK
    OBVIOUS
  <2>1. ASSUME issued # Silent
        PROVE  /\ issued.id \in {instances[i].id : i \in DOMAIN instances}
               /\ issued.arch \in Archs /\ issued.engine \in Engines /\ issued.branch \in Branches
               /\ issued.flavor \in Flavors \cup {"RelWithDebInfo"}
    <3>1. Shown /\ Agrees
      BY <2>1 DEF WindowInv
    <3>2. /\ box["vs"] + 1 \in DOMAIN instances /\ issued.id = instances[box["vs"] + 1].id
          /\ box["arch"] \in 0 .. 3
      BY <3>1, SelectedInstance DEF Agrees
    <3>3. issued.arch \in Archs
      BY <3>1, <3>2, EntriesAre, Words DEF Agrees, Selected
    <3> QED
      BY <3>1, <3>2, <3>3 DEF Agrees
  <2> QED
    BY <2>1 DEF WindowInv, Shown, WindowTypeOK
<1> QED
  BY <1>1, ProgramsInv, PTL

\* "Only NinjaBootstrap and NinjaIterate will compile libc++": OnChangeEngine
\* keeps the check box and OnBuildNow the command line to that, in any order of
\* selections and clicks.
THEOREM LibcxxCorrect == ProgramsSpec => []LibcxxAgrees
<1>1. WindowInv => LibcxxAgrees
  <2> SUFFICES ASSUME WindowInv PROVE LibcxxAgrees
    OBVIOUS
  <2>1. ASSUME phase = "open"
        PROVE  libcxx <=> Selected("engine") \in {"NinjaBootstrap", "NinjaIterate"}
    <3>1. /\ box["engine"] # -1 /\ box["engine"] \in -1 .. Len(Entries("engine")) - 1
          /\ libcxx <=> LibcxxEngine(box["engine"])
      BY <2>1 DEF WindowInv, Shown, Boxes
    <3>2. box["engine"] \in -1 .. 3
      BY <3>1, Lengths
    <3>3. box["engine"] \in 0 .. 3
      BY <3>1, <3>2
    <3> QED
      BY <3>1, <3>3, EntriesAre, Words DEF Selected
  <2> QED
    BY <2>1 DEF WindowInv, Agrees, LibcxxAgrees
<1> QED
  BY <1>1, ProgramsInv, PTL

\* The instance Index() selects when the window opens is the newest there is, and
\* the EWDK of settings.json only for want of another, however many there are and
\* however std::sort arranged equal ones.
THEOREM DefaultCorrect == ProgramsSpec => DefaultIsNewest
<1> DEFINE Newest(it, list) ==
             /\ \A i \in list : i.main <= it.main
             /\ it.pre => \A i \in list : i.main = it.main => i.pre
             /\ it.id = EWDK => list = {it}
           Proposed == Newest(instances'[box'["vs"] + 1], {instances'[i] : i \in DOMAIN instances'})
<1>1. ASSUME WindowInv, Open, instances' # <<>>
      PROVE  Proposed
  <2>1. machine \in Machines /\ instances' \in Search(machine)
    BY <1>1 DEF WindowInv, Shown, Open
  <2> DEFINE s == instances'
             it == s[Len(s)]
  <2>2. /\ s \in Seq(Found) /\ Sorted(s)
        /\ \A i, j \in DOMAIN s :
              s[i].id = EWDK => s[i].main = 0 /\ (s[j].main = 0 => s[j] = s[i])
    BY <2>1, SearchGives
  <2>3. s[box'["vs"] + 1] = it /\ Index(s) + 1 = Len(s) /\ Len(s) \in DOMAIN s
    <3>1. box'["vs"] = Index(s)
      BY <1>1 DEF Open
    <3>2. Len(s) \in Nat /\ DOMAIN s = 1 .. Len(s) /\ Len(s) # 0
      BY <2>2, <1>1
    <3> QED
      BY <3>1, <3>2, <1>1 DEF Index
  <2>4. \A i \in DOMAIN s :
           /\ s[i].main <= it.main /\ (it.pre /\ s[i].main = it.main => s[i].pre)
           /\ s[i].main \in Nat
    <3> SUFFICES ASSUME NEW i \in DOMAIN s
                 PROVE  /\ s[i].main <= it.main /\ (it.pre /\ s[i].main = it.main => s[i].pre)
                        /\ s[i].main \in Nat
      OBVIOUS
    <3>1. s[i].main \in Nat
      <4>1. s[i] \in Found
        BY <2>2
      <4> QED
        BY <4>1 DEF Found, VSInstances
    <3>2. s # <<>> /\ Nat \in SUBSET Int
      BY <1>1
    <3> HIDE DEF s
    <3> QED
      BY <2>2, <2>3, <3>1, <3>2, ProposedIsNewest DEF Found
  <2>5. it.id = EWDK => \A i \in DOMAIN s : s[i] = it
    BY <2>2, <2>3, <2>4
  <2> HIDE DEF s
  <2>6. Newest(it, {s[i] : i \in DOMAIN s})
    BY <2>3, <2>4, <2>5
  <2> QED
    BY <2>3, <2>6 DEF s
<1>2. WindowInv /\ [ProgramsNext]_pvars =>
         [phase = "start" /\ instances' # <<>> => Proposed]_wvars
  <2> SUFFICES ASSUME WindowInv, [ProgramsNext]_pvars, ~UNCHANGED wvars, phase = "start",
                      instances' # <<>>
               PROVE  Proposed
    OBVIOUS
  <2>1. Open
    <3>1. instances = <<>>
      BY DEF WindowInv, Shown
    <3>2. WindowNext
      BY DEF ProgramsNext, Type, UseWindow, pvars, wvars
    <3> QED
      BY <3>1, <3>2 DEF WindowNext, OpenFails, OnBuildNow, OnStartupEnv, OnClose, Select, Toggle
  <2> QED
    BY <2>1, <1>1
<1>3. ProgramsSpec => [][phase = "start" /\ instances' # <<>> => Proposed]_wvars
  BY <1>2, ProgramsInv, PTL DEF ProgramsSpec
<1>4. DefaultIsNewest <=> [][phase = "start" /\ instances' # <<>> => Proposed]_wvars
  BY DEF DefaultIsNewest
<1> QED
  BY <1>3, <1>4, PTL

-----------------------------------------------------------------------------
(* The console that is started.                                            *)

Environments == [init : BOOLEAN, version : BOOLEAN, tools : SUBSET (STRING \X Archs),
             libs : SUBSET (STRING \X Archs)]

\* InitializeVisualStudio leaves an initialised console as it is, and brings another
\* one no tools but those it was asked for.
LEMMA ToolsBrought ==
    ASSUME NEW m, NEW e \in Environments, NEW id, NEW arch
    PROVE  InitializeVisualStudio(m, e, id, arch).env.tools \subseteq
              (IF e.init THEN e.tools ELSE e.tools \cup {<<id, arch>>})
<1> DEFINE done == InitializeVisualStudio(m, e, id, arch)
<1>1. CASE e.init \/ id = NoId
  BY <1>1 DEF InitializeVisualStudio, Answer
<1>2. CASE ~e.init /\ id # NoId /\ id = EWDK
  <2>1. done = InitializeEnterpriseWDK(m, e, arch)
    BY <1>2 DEF InitializeVisualStudio
  <2> DEFINE f == [e EXCEPT !.init = TRUE, !.tools = @ \cup {<<EWDK, arch>>},
                            !.libs = {<<EWDK, arch>>}]
  <2>2. f.tools = e.tools \cup {<<id, arch>>}
    BY <1>2 DEF Environments
  <2> HIDE DEF f
  <2>3. done.env = f \/ done.env = e
    BY <2>1 DEF InitializeEnterpriseWDK, Answer, f
  <2> QED
    BY <2>2, <2>3, <1>2
<1>3. CASE ~e.init /\ id # NoId /\ id # EWDK
  <2>1. done = InitializeInstance(m, e, id, arch)
    BY <1>3 DEF InitializeVisualStudio
  <2> DEFINE named == [e EXCEPT !.version = TRUE]
             ready == [named EXCEPT !.init = TRUE]
             f == Vcvars(ready, id, arch)
  <2>2. named.tools = e.tools /\ ready.tools = e.tools /\ ready \in Environments
    BY DEF Environments
  <2> HIDE DEF ready
  <2>3. f.tools = e.tools \cup {<<id, arch>>}
    BY <2>2 DEF Vcvars, Environments
  <2> HIDE DEF named, f
  <2>4. done.env \in {e, named, ready, f}
    <3>1. done \in {Answer(FALSE, e), Answer(FALSE, named), Answer(TRUE, f), Answer(TRUE, ready)}
      BY <2>1 DEF InitializeInstance, named, ready, f
    <3> QED
      BY <3>1 DEF Answer
  <2> QED
    BY <2>2, <2>3, <2>4, <1>3
<1> QED
  BY <1>1, <1>2, <1>3

\* The console that is started never gets the tools of another instance or
\* architecture than those selected, but what bin/external has for that
\* architecture, whichever the window was opened with and
\* whichever were selected before: appexec.cc and VisualStudio.psm1 together.
THEOREM InstanceCorrect == ProgramsSpec => []SameInstance
<1>1. WindowInv => SameInstance
  <2> SUFFICES ASSUME WindowInv, issued # Silent, issued.id # NoId
               PROVE  Prepare(machine, machine.env, issued).env.tools \subseteq
                         {<<External, Selected("arch")>>} \cup
                         (IF machine.env.init THEN machine.env.tools
                          ELSE {<<Selected("vs").id, Selected("arch")>>})
    BY DEF SameInstance
  <2>1. Shown /\ Agrees
    BY DEF WindowInv
  <2>2. issued.id = Selected("vs").id /\ issued.arch = Selected("arch") /\ issued.clear \in BOOLEAN
    BY <2>1, SelectedInstance, EntriesAre DEF Agrees, Selected
  <2> DEFINE start == IF issued.clear THEN ReinitializePath(machine.env) ELSE machine.env
             done  == InitializeVisualStudio(machine, start, issued.id, issued.arch)
             full == InitializeExtranl(machine, done.env, issued.arch)
  <2>3. machine.env \in Environments /\ (machine.env.init \/ machine.env.tools = {})
    BY <2>1, MachinesAssumption DEF Shown, Clean, Environments
  <2>4. /\ start \in Environments /\ start.init = machine.env.init
        /\ start.tools \in SUBSET machine.env.tools
    BY <2>2, <2>3 DEF ReinitializePath, Environments
  <2>5. Prepare(machine, machine.env, issued).env \in {done.env, full}
    BY <2>2 DEF Prepare, Answer
  <2> HIDE DEF start, done
  <2>7. full.tools \subseteq done.env.tools \cup {<<External, issued.arch>>}
    BY DEF InitializeExtranl
  <2> HIDE DEF full
  <2>6. done.env.tools \subseteq
           (IF start.init THEN start.tools ELSE start.tools \cup {<<issued.id, issued.arch>>})
    BY <2>4, ToolsBrought DEF done
  <2> QED
    BY <2>2, <2>3, <2>4, <2>5, <2>6, <2>7
<1> QED
  BY <1>1, ProgramsInv, PTL
=============================================================================
