-------------------------- MODULE WorkspaceProofs --------------------------
(***************************************************************************)
(* What Workspace records of an orderly workspace is what happened, for    *)
(* any files and any number of units, and so is what it reports.           *)
(***************************************************************************)
EXTENDS Workspace, FiniteSetTheorems, SequenceTheorems, WellFoundedInduction, TLAPS

\* Where a reader would go by induction, the least number that does not have the
\* property is looked at.
LEMMA LeastNaturalExists ==
    ASSUME NEW T \in SUBSET Nat, T # {}
    PROVE  \E m \in T : \A k \in T : m <= k
<1> DEFINE R == OpToRel(<, Nat)
<1>1. \A x, y \in Nat : y < x => <<y, x>> \in R
    BY DEF OpToRel
<1>2. IsWellFoundedOn(R, Nat)
    BY NatLessThanWellFounded
<1> HIDE DEF R
<1>3. PICK m \in T : \A k \in T : ~ (<<k, m>> \in R)
    BY <1>2, WFMin
<1>4. ASSUME NEW k \in T PROVE m <= k
  <2>1. k \in Nat /\ m \in Nat /\ ~(k < m)
      BY Zenon, <1>1, <1>3
  <2> QED BY <2>1
<1> QED BY <1>4

-----------------------------------------------------------------------------
(* The inductive invariant                                                 *)

\* The directories that lines name.
Dirs == {t[f][i].dir : t \in Program, f \in File, i \in Nat}

Seen == [read : SUBSET File, uses : SUBSET (File \X File),
         incs : SUBSET (File \X File), provs : SUBSET File,
         sites : SUBSET (File \X Nat \X File), place : Seq(Nat), skips : SUBSET File,
         build : SUBSET File]
Told == [root : File, proj : Project, read : SUBSET File, incs : SUBSET (File \X File),
         sites : SUBSET (File \X Nat \X File), needed : SUBSET File, cut : BOOLEAN]
IncludeRecord == [direct : BOOLEAN, required : BOOLEAN, lines : SUBSET Nat]
Macro == [file : File, body : Name \cup {NoFile}]

FilesTyped ==
    /\ text \in Program
    /\ fi \in DOMAIN text /\ at \in 0 .. Len(text[fi])
    /\ cs \in Seq([fi : DOMAIN text, at : Nat])
    /\ \A k \in 1 .. Len(cs) : cs[k].at \in 0 .. Len(text[cs[k].fi])
    /\ root \in DOMAIN text \cup {NoFile}
TypeInv ==
    /\ FilesTyped
    /\ include_path \in Seq(Dirs) /\ skipped \subseteq File
    /\ offset \in [File -> Nat]
    /\ known \subseteq File /\ collected \subseteq File /\ required \subseteq File
    /\ project \in Project /\ projects \in [File -> SUBSET Project]
    /\ readonly \subseteq File /\ compilation_unit \subseteq File
    /\ macros \in [Name -> Macro \cup {NoFile}]
    /\ finished \in BOOLEAN
    /\ seen \in Seen /\ truth \subseteq Told
TableInv ==
    /\ DOMAIN includes \subseteq File \X File
    /\ includes \in [DOMAIN includes -> IncludeRecord]
    /\ \A f \in File : <<f, WorkspaceFile>> \in DOMAIN includes =>
            ~includes[<<f, WorkspaceFile>>].direct

\* The k-th of the files that are open.
Open(k) == IF k <= Len(cs) THEN cs[k].fi ELSE fi
Stack == 1 .. Len(cs) + 1

\* The workspace definition file is open below the unit, and this below what it
\* includes; whatever is open above has been read.
StackInv ==
    /\ cs = <<>> => root = NoFile
    /\ Open(1) = WorkspaceFile
    /\ \A k \in Stack : k > 1 => Open(k) \in seen.read
    /\ root # NoFile => Open(2) = root
    /\ WorkspaceFile \notin seen.read

\* Fdep holds what happened since the last unit.
FdepInv ==
    /\ includers = seen.incs
    /\ definers = {r \in seen.uses : r[1] # r[2]}
    /\ providers = seen.provs
    /\ last_provider # NoFile => last_provider \in providers

\* What happened is about the files that were read, and the workspace's; a macro
\* that is used may be of a file that an earlier unit read.
Near == seen.read \cup {WorkspaceFile}
NearInv ==
    /\ seen.incs \subseteq seen.read \X Near /\ seen.provs \subseteq Near
    /\ \A s \in seen.sites : <<s[3], s[1]>> \in seen.incs
    /\ root # NoFile => <<root, WorkspaceFile>> \in seen.incs

\* The files that garbage_collect will touch are those that were read.
TouchedInv ==
    /\ ~finished => Touched = Near /\ WorkspaceFile \in known
    /\ finished => cs = <<>> /\ root = NoFile /\ at = Len(text[fi])

\* What is left out, of what was read for the command, and where files were found.
OnceInv ==
    /\ skipped \subseteq seen.build
    /\ \A k \in Stack : k > 1 => Open(k) \in seen.build
PathInv ==
    /\ \A i, j \in DOMAIN include_path : include_path[i] = include_path[j] => i = j
    /\ Len(seen.place) = Len(cs) + 1 /\ seen.place[1] = 0
    /\ \A k \in Stack : seen.place[k] > 0 =>
        /\ seen.place[k] \in DOMAIN include_path
        /\ include_path[seen.place[k]] = Open(k)[1]
        /\ Open(k) \notin seen.skips => offset[Open(k)] = seen.place[k] - 1

\* What is known of the units that ended.
TruthInv ==
    /\ \A t \in truth :
        /\ WorkspaceFile \notin t.read /\ t.root \in t.read
        /\ t.incs \subseteq t.read \X (t.read \cup {WorkspaceFile})
        /\ <<t.root, WorkspaceFile>> \in t.incs
        /\ \A s \in t.sites : <<s[3], s[1]>> \in t.incs
    /\ compilation_unit = {t.root : t \in truth}

\* The table of includes.  Nothing is said of what a unit required whose marking
\* was cut short.
Recalled(f, g) == \E t \in truth : t.root = f /\ g \in t.read
Wanted(f, g) == \E t \in truth : t.root = f /\ g \in t.read \cap t.needed
IncludeRight(f, g) ==
    /\ <<f, g>> \in DOMAIN includes <=>
            <<g, f>> \in Inclusions \/ (f # g /\ Recalled(f, g))
    /\ <<f, g>> \in DOMAIN includes =>
        /\ includes[<<f, g>>].direct <=> <<g, f>> \in Inclusions
        /\ f # g /\ Complete(f) => (includes[<<f, g>>].required <=> Wanted(f, g))
        /\ f # WorkspaceFile =>
                includes[<<f, g>>].lines = {l \in Nat : <<f, l, g>> \in Sites}
IncludesInv == \A f \in File, g \in File \ {WorkspaceFile} : IncludeRight(f, g)

\* The projects of the files.
ProjectsInv ==
    \A f \in File \ (Copied \cup {WorkspaceFile}) :
        /\ {t.proj : t \in {t \in truth : f \in t.read}} \subseteq projects[f]
        /\ projects[f] \subseteq {t.proj : t \in {t \in truth : f \in t.read}}
                                 \cup (IF f \in seen.read THEN {project} ELSE {})
        /\ f \in seen.read /\ (\A k \in Stack : Open(k) # f) => project \in projects[f]

IInv ==
    /\ TypeInv /\ TableInv /\ StackInv /\ FdepInv /\ NearInv /\ TouchedInv
    /\ OnceInv /\ PathInv /\ TruthInv /\ IncludesInv /\ ProjectsInv

-----------------------------------------------------------------------------
(* Lines, and types                                                        *)

\* The line that is read is one of the file, and names what there is.
LEMMA LineTyped ==
    ASSUME TypeInv, NEW d, Reads(d)
    PROVE  /\ fi \in File /\ fi \in DOMAIN text /\ DOMAIN text \subseteq File
           /\ at + 1 \in 0 .. Len(text[fi]) /\ at + 1 \in Nat /\ Len(text[fi]) \in Nat
           /\ LineIsOf(text, Line) /\ Line.do = d /\ Line.dir \in Dirs
<1>1. /\ text \in Program /\ fi \in DOMAIN text /\ at \in 0 .. Len(text[fi])
      /\ at < Len(text[fi]) /\ Line.do = d
    BY DEF TypeInv, FilesTyped, Reads
<1>2. DOMAIN text \subseteq File /\ Len(text[fi]) \in Nat
    BY <1>1, ProgramAssumption
<1>3. at + 1 \in 1 .. Len(text[fi]) /\ at + 1 \in Nat
    BY <1>1, <1>2
<1>4. LineIsOf(text, Line)
    BY <1>1, <1>3, ProgramAssumption DEF Line
<1>5. Line.dir \in Dirs
    BY <1>1, <1>2, <1>3 DEF Line, Dirs
<1> QED BY <1>1, <1>2, <1>3, <1>4, <1>5

\* A file that is found exists; its place is 0 or one of the path, the first.
LEMMA FoundTyped ==
    ASSUME TypeInv, Reads("include"), Candidates # {}
    PROVE  /\ Found \in Candidates /\ Found \in 0 .. Len(include_path)
           /\ \A j \in Candidates : Found <= j
           /\ FoundFile \in DOMAIN text /\ FoundFile \in File
           /\ Found # 0 => Found \in DOMAIN include_path
                           /\ FoundFile[1] = include_path[Found]
<1>1. /\ fi \in File /\ offset[fi] \in Nat /\ Len(include_path) \in Nat
      /\ DOMAIN include_path = 1 .. Len(include_path) /\ DOMAIN text \subseteq File
    BY LineTyped DEF TypeInv, FilesTyped
<1>2. \A i \in Candidates :
        /\ i \in 0 .. Len(include_path)
        /\ <<IF i = 0 THEN fi[1] ELSE include_path[i], Line.name>> \in DOMAIN text
    BY <1>1 DEF Candidates, Exists
<1>3. \E i \in Candidates : \A j \in Candidates : i <= j
  <2>1. \A i \in Candidates : i \in Nat
      BY <1>1 DEF Candidates
  <2>2. Candidates \in SUBSET Nat
      BY <2>1
  <2> QED BY <2>2, LeastNaturalExists
<1>4. Found \in Candidates /\ \A j \in Candidates : Found <= j
    BY <1>3 DEF Found
<1>5. Found \in 0 .. Len(include_path) /\ FoundFile \in DOMAIN text
    BY <1>2, <1>4 DEF FoundFile
<1> QED BY <1>1, <1>4, <1>5 DEF FoundFile


\* What set_includes makes of the table.
Becomes(inc, p, d, r, ls) ==
    /\ DOMAIN inc = DOMAIN includes \cup {p}
    /\ inc \in [DOMAIN inc -> IncludeRecord]
    /\ \A q \in DOMAIN includes : q # p => inc[q] = includes[q]
    /\ inc[p].direct = (d \/ Known(includes, p).direct)
    /\ inc[p].required = (r \/ Known(includes, p).required)
    /\ inc[p].lines = Known(includes, p).lines \cup ls
LEMMA SetIncludesTyped ==
    ASSUME TableInv, NEW a \in File, NEW b \in File, NEW d \in BOOLEAN,
           NEW r \in BOOLEAN, NEW ls \in SUBSET Nat
    PROVE  Becomes(SetIncludes(includes, a, b, d, r, ls), <<a, b>>, d, r, ls)
<1> DEFINE p == <<a, b>>
           inc == SetIncludes(includes, a, b, d, r, ls)
           new == [direct |-> d \/ Known(includes, p).direct,
                   required |-> r \/ Known(includes, p).required,
                   lines |-> Known(includes, p).lines \cup ls]
<1>1. Known(includes, p) \in IncludeRecord
    BY DEF TableInv, Known, IncludeRecord
<1>2. new \in IncludeRecord
    BY <1>1 DEF IncludeRecord
<1>3. /\ DOMAIN inc = DOMAIN includes \cup {p}
      /\ \A q \in DOMAIN inc : inc[q] = IF q # p THEN includes[q] ELSE new
      /\ inc = [q \in DOMAIN inc |-> inc[q]]
    BY DEF SetIncludes
<1>4. \A q \in DOMAIN includes : includes[q] \in IncludeRecord
    BY DEF TableInv
<1> HIDE DEF inc, new
<1>5. inc \in [DOMAIN inc -> IncludeRecord]
  <2>1. \A q \in DOMAIN inc : inc[q] \in IncludeRecord
      BY <1>2, <1>3, <1>4
  <2> QED BY <2>1, <1>3
<1>6. /\ DOMAIN inc = DOMAIN includes \cup {p} /\ inc[p] = new
      /\ \A q \in DOMAIN includes : q # p => inc[q] = includes[q]
    BY <1>3
<1>7. /\ new.direct = (d \/ Known(includes, p).direct)
      /\ new.required = (r \/ Known(includes, p).required)
      /\ new.lines = Known(includes, p).lines \cup ls
    BY DEF new
<1>8. Becomes(inc, p, d, r, ls)
    BY <1>5, <1>6, <1>7 DEF Becomes
<1> QED BY <1>8 DEF inc


-----------------------------------------------------------------------------
(* The files that are marked: what can be reached                          *)

\* One round of marking, and all of them.
Onward(R, req, S) == S \cup ({f \in File : \E g \in S : <<g, f>> \in R} \ req)
Rounds(R, req, from, n, r) ==
    r = [i \in 0 .. n |-> IF i = 0 THEN from \ req ELSE Onward(R, req, r[i - 1])]

LEMMA RoundsExist ==
    ASSUME NEW R, NEW req, NEW from, NEW n \in Nat
    PROVE  \E r : Rounds(R, req, from, n, r)
<1> DEFINE Lacking == {m \in 0 .. n : ~ \E r : Rounds(R, req, from, m, r)}
<1>1. Lacking = {}
  <2> SUFFICES ASSUME Lacking # {} PROVE FALSE
      OBVIOUS
  <2>1. PICK m \in Lacking : \A k \in Lacking : m <= k
    <3>1. Lacking \in SUBSET Nat
        OBVIOUS
    <3> HIDE DEF Lacking
    <3> QED BY <3>1, LeastNaturalExists
  <2>2. m \in 0 .. n /\ ~ \E r : Rounds(R, req, from, m, r)
      BY <2>1
  <2>3. m # 0
    <3>1. Rounds(R, req, from, 0, [i \in 0 .. 0 |-> from \ req])
        BY DEF Rounds
    <3> QED BY <2>2, <3>1
  <2>4. m - 1 \in 0 .. n /\ m - 1 \notin Lacking
    <3>1. m - 1 \in 0 .. n /\ ~(m <= m - 1)
        BY <2>2, <2>3
    <3> HIDE DEF Lacking
    <3> QED BY <2>1, <3>1
  <2>5. PICK r : Rounds(R, req, from, m - 1, r)
      BY <2>4
  <2> DEFINE q == [i \in 0 .. m |-> IF i = m THEN Onward(R, req, r[m - 1]) ELSE r[i]]
  <2>6. \A i \in 0 .. m - 1 : q[i] = r[i]
      BY <2>2
  <2>7. \A i \in 0 .. m - 1 :
            r[i] = IF i = 0 THEN from \ req ELSE Onward(R, req, r[i - 1])
      BY <2>5 DEF Rounds
  <2>8. \A i \in 0 .. m :
            q[i] = IF i = 0 THEN from \ req ELSE Onward(R, req, q[i - 1])
    <3> SUFFICES ASSUME NEW i \in 0 .. m
                 PROVE  q[i] = IF i = 0 THEN from \ req ELSE Onward(R, req, q[i - 1])
        OBVIOUS
    <3>1. CASE i = m
      <4>1. q[m] = Onward(R, req, r[m - 1]) /\ q[m - 1] = r[m - 1]
          BY <2>2, <2>3, <2>6
      <4> QED BY <2>3, <3>1, <4>1
    <3>2. CASE i = 0
        BY <2>2, <2>3, <2>6, <2>7, <3>2
    <3>3. CASE i # m /\ i # 0
      <4>1. i \in 0 .. m - 1 /\ i - 1 \in 0 .. m - 1
          BY <2>2, <3>3
      <4> QED BY <2>6, <2>7, <3>3, <4>1
    <3> QED BY <3>1, <3>2, <3>3
  <2>9. Rounds(R, req, from, m, q)
    <3>1. q = [i \in 0 .. m |-> q[i]]
        OBVIOUS
    <3> HIDE DEF q
    <3> QED BY <2>8, <3>1 DEF Rounds
  <2> QED BY <2>2, <2>9
<1> QED BY <1>1

\* The least set that holds some files and what a round adds to it.
Closure(R, req, from, S) ==
    /\ S \subseteq File /\ from \ req \subseteq S /\ Onward(R, req, S) = S
    /\ \A T : from \ req \subseteq T /\ Onward(R, req, T) \subseteq T => S \subseteq T

\* As many rounds as there are files reach whatever more would.
LEMMA RoundsClose ==
    ASSUME NEW R, NEW req, NEW from \in SUBSET File, NEW r,
           Rounds(R, req, from, Cardinality(File), r)
    PROVE  Closure(R, req, from, r[Cardinality(File)])
<1> DEFINE N == Cardinality(File)
<1>1. N \in Nat
    BY WorkspaceAssumption, FS_CardinalityType
<1> HIDE DEF N
<1>2. r[0] = from \ req /\ \A i \in 1 .. N : r[i] = Onward(R, req, r[i - 1])
  <2>1. \A i \in 0 .. N :
            r[i] = IF i = 0 THEN from \ req ELSE Onward(R, req, r[i - 1])
      BY DEF Rounds, N
  <2> QED BY <1>1, <2>1
<1>3. ASSUME NEW T, from \ req \subseteq T, Onward(R, req, T) \subseteq T,
             NEW k \in 0 .. N
      PROVE  r[k] \subseteq T
  <2> DEFINE Out == {i \in 0 .. N : ~(r[i] \subseteq T)}
  <2> SUFFICES ASSUME Out # {} PROVE FALSE
      OBVIOUS
  <2>1. PICK i \in Out : \A j \in Out : i <= j
    <3>1. Out \in SUBSET Nat
        OBVIOUS
    <3> HIDE DEF Out
    <3> QED BY <3>1, LeastNaturalExists
  <2>2. i \in 1 .. N /\ i - 1 \in 0 .. N
      BY <1>1, <1>2, <1>3, <2>1
  <2>3. r[i - 1] \subseteq T
      BY <2>1, <2>2
  <2>4. Onward(R, req, r[i - 1]) \subseteq Onward(R, req, T)
      BY <2>3 DEF Onward
  <2> QED BY <1>2, <1>3, <2>1, <2>2, <2>4
<1>4. \A k \in 0 .. N : r[k] \subseteq File
  <2>1. from \ req \subseteq File /\ Onward(R, req, File) \subseteq File
      BY DEF Onward
  <2> QED BY <1>3, <2>1
<1>5. \A k \in 1 .. N : r[k - 1] \subseteq r[k]
    BY <1>2 DEF Onward
<1>6. from \ req \subseteq r[N]
  <2> DEFINE Out == {i \in 0 .. N : ~(from \ req \subseteq r[i])}
  <2> SUFFICES ASSUME Out # {} PROVE FALSE
      BY <1>1
  <2>1. PICK i \in Out : \A j \in Out : i <= j
    <3>1. Out \in SUBSET Nat
        OBVIOUS
    <3> HIDE DEF Out
    <3> QED BY <3>1, LeastNaturalExists
  <2>2. i \in 1 .. N /\ i - 1 \in 0 .. N
      BY <1>1, <1>2, <2>1
  <2>3. from \ req \subseteq r[i - 1]
      BY <2>1, <2>2
  <2> QED BY <1>5, <2>1, <2>2, <2>3
<1>7. Onward(R, req, r[N]) = r[N]
  <2> SUFFICES ASSUME Onward(R, req, r[N]) # r[N] PROVE FALSE
      OBVIOUS
  \* A round that adds nothing would be followed by no other.
  <2>1. \A k \in 1 .. N : r[k] # r[k - 1]
    <3> SUFFICES ASSUME NEW k \in 1 .. N, r[k] = r[k - 1] PROVE FALSE
        OBVIOUS
    <3> DEFINE Out == {i \in k .. N : r[i] # r[k]}
    <3>1. Onward(R, req, r[k]) = r[k]
        BY <1>2
    <3>2. Out # {}
        BY <1>1, <3>1
    <3>3. PICK i \in Out : \A j \in Out : i <= j
      <4>1. Out \in SUBSET Nat
          OBVIOUS
      <4> HIDE DEF Out
      <4> QED BY <3>2, <4>1, LeastNaturalExists
    <3>4. i \in k .. N /\ i # k /\ r[i] # r[k]
        BY <3>3
    <3>5. i - 1 \in k .. N /\ i \in 1 .. N /\ ~(i <= i - 1)
        BY <1>1, <3>4
    <3>6. r[i - 1] = r[k]
        BY <3>3, <3>5
    <3> QED BY <1>2, <3>1, <3>4, <3>5, <3>6
  <2>2. \A k \in 0 .. N : IsFiniteSet(r[k]) /\ Cardinality(r[k]) \in Nat
      BY <1>4, WorkspaceAssumption, FS_Subset, FS_CardinalityType
  <2>3. \A k \in 0 .. N : k <= Cardinality(r[k])
    <3> DEFINE Out == {i \in 0 .. N : ~(i <= Cardinality(r[i]))}
    <3> SUFFICES ASSUME Out # {} PROVE FALSE
        OBVIOUS
    <3>1. PICK i \in Out : \A j \in Out : i <= j
      <4>1. Out \in SUBSET Nat
          OBVIOUS
      <4> HIDE DEF Out
      <4> QED BY <4>1, LeastNaturalExists
    <3>2. i \in 1 .. N /\ i - 1 \in 0 .. N /\ ~(i <= i - 1)
        BY <1>1, <2>2, <3>1
    <3>3. i - 1 <= Cardinality(r[i - 1])
        BY <3>1, <3>2
    <3>4. Cardinality(r[i - 1]) <= Cardinality(r[i])
          /\ Cardinality(r[i - 1]) # Cardinality(r[i])
        BY <1>5, <2>1, <2>2, <3>2, FS_Subset
    <3> QED BY <2>2, <3>1, <3>2, <3>3, <3>4
  <2>4. Onward(R, req, r[N]) \subseteq File /\ r[N] \subseteq Onward(R, req, r[N])
      BY <1>1, <1>4 DEF Onward
  <2>5. IsFiniteSet(Onward(R, req, r[N])) /\ Cardinality(Onward(R, req, r[N])) <= N
      BY <2>4, WorkspaceAssumption, FS_Subset DEF N
  <2>6. Cardinality(r[N]) <= Cardinality(Onward(R, req, r[N]))
        /\ Cardinality(r[N]) # Cardinality(Onward(R, req, r[N]))
        /\ Cardinality(Onward(R, req, r[N])) \in Nat
      BY <2>4, <2>5, FS_Subset, FS_CardinalityType
  <2>7. N <= Cardinality(r[N]) /\ Cardinality(r[N]) \in Nat
      BY <1>1, <2>2, <2>3
  <2> QED BY <1>1, <2>5, <2>6, <2>7
<1>8. \A T : from \ req \subseteq T /\ Onward(R, req, T) \subseteq T => r[N] \subseteq T
    BY <1>1, <1>3
<1>9. r[N] \subseteq File
    BY <1>1, <1>4
<1> QED BY <1>6, <1>7, <1>8, <1>9 DEF N, Closure


\* There is a smallest set of files that holds what is needed.
LEMMA NeededIsLeast ==
    ASSUME TypeInv, root \in File
    PROVE  /\ Needed \subseteq File /\ {root} \cup seen.provs \subseteq Needed /\ Closed(Needed)
           /\ \A T \in SUBSET File :
                {root} \cup seen.provs \subseteq T /\ Closed(T) => Needed \subseteq T
<1> DEFINE s == {S \in SUBSET File : {root} \cup seen.provs \subseteq S /\ Closed(S)}
           M == {f \in File : \A S \in s : f \in S}
           Least(S) == S \in s /\ \A T \in s : S \subseteq T
<1>1. Least(M)
  <2>1. {root} \cup seen.provs \subseteq M
      BY DEF TypeInv, Seen
  <2>2. ASSUME NEW r \in seen.uses \cup seen.incs, r[1] \in M PROVE r[2] \in M
    <3>1. r[2] \in File
        BY DEF TypeInv, Seen
    <3>2. \A S \in s : r[2] \in S
        BY <2>2 DEF Closed
    <3> QED BY <3>1, <3>2
  <2>3. Closed(M)
      BY <2>2 DEF Closed
  <2> QED BY <2>1, <2>3
<1>2. Needed = CHOOSE S \in s : \A T \in s : S \subseteq T
    BY DEF Needed
<1>3. Needed \in s /\ \A T \in s : Needed \subseteq T
  <2> HIDE DEF s, M
  <2> QED BY <1>1, <1>2
<1> QED BY <1>3

\* Of the files that were read, those are required that are needed, unless marking
\* was cut short.
LEMMA MarkedIsNeeded ==
    ASSUME TypeInv, StackInv, FdepInv, NearInv, TouchedInv, ~finished, root # NoFile
    PROVE  /\ Needed \subseteq File /\ Required \subseteq File
           /\ ~Cut => Required \cap Near = Needed \cap Near
<1> DEFINE R == definers \cup includers
           from == {root} \cup providers
           N == Cardinality(File)
           r == CHOOSE r : Rounds(R, Stale, from, N, r)
           L == r[N]
<1>1. /\ Touched = Near /\ Near \subseteq File /\ root \in File /\ required \subseteq File
      /\ from \subseteq Near /\ from \in SUBSET File /\ from = {root} \cup seen.provs
  <2>1. Touched = Near /\ required \subseteq File
      BY DEF TouchedInv, TypeInv
  <2>2. Near \subseteq File
      BY WorkspaceAssumption DEF TypeInv, Seen, Near
  <2>3. root \in Near
      BY DEF NearInv, Near, StackInv
  <2>4. from = {root} \cup seen.provs /\ from \subseteq Near
      BY <2>3 DEF FdepInv, NearInv
  <2> QED BY <2>1, <2>2, <2>3, <2>4
<1>2. N \in Nat
    BY WorkspaceAssumption, FS_CardinalityType
<1>3. Rounds(R, Stale, from, N, r)
    BY <1>2, RoundsExist
<1>4. Required = Stale \cup L
  <2>1. \A req : Marked(req, from)
                    = req \cup (CHOOSE r_1 : Rounds(R, req, from, N, r_1))[N]
      BY DEF Marked, Rounds, Onward
  <2> QED BY <2>1 DEF Required
<1> HIDE DEF R, from, N, r
<1>5. /\ L \subseteq File /\ from \ Stale \subseteq L /\ Onward(R, Stale, L) = L
      /\ \A T : from \ Stale \subseteq T /\ Onward(R, Stale, T) \subseteq T => L \subseteq T
  <2>1. from \in SUBSET File /\ Rounds(R, Stale, from, Cardinality(File), r)
      BY <1>1, <1>3 DEF N
  <2>2. L = r[Cardinality(File)]
      BY DEF N
  <2> HIDE DEF L
  <2>3. Closure(R, Stale, from, L)
      BY <2>1, <2>2, RoundsClose
  <2> QED BY <2>3 DEF Closure
<1> HIDE DEF L
<1>6. Stale \subseteq File /\ Stale \cap Near = {} /\ from \subseteq L
    BY <1>1, <1>5 DEF Stale
<1>7. Needed \subseteq File /\ from \subseteq Needed /\ Closed(Needed)
    BY <1>1, NeededIsLeast
\* Marking goes no further than what is needed, ...
<1>8. L \subseteq Needed
  <2>1. R \subseteq seen.uses \cup seen.incs
      BY DEF R, FdepInv
  <2>2. Onward(R, Stale, Needed) \subseteq Needed
    <3> SUFFICES ASSUME NEW f \in File, NEW g \in Needed, <<g, f>> \in R PROVE f \in Needed
        BY DEF Onward
    <3> QED BY <1>7, <2>1 DEF Closed
  <2> QED BY <1>5, <1>7, <2>2
\* ... and stops at stale files only.
<1>9. ASSUME ~Cut PROVE Needed \subseteq Stale \cup L
  <2>1. ASSUME NEW p \in seen.uses \cup seen.incs, p[1] \in Stale \cup L
        PROVE  p[2] \in Stale \cup L
    <3>1. p = <<p[1], p[2]>> /\ p[2] \in File
        BY DEF TypeInv, Seen
    <3>2. CASE p[1] \in Stale
      <4>1. p \notin seen.incs
          BY <1>6, <3>2 DEF NearInv, Near
      <4> QED BY <1>9, <2>1, <3>2, <4>1 DEF Cut
    <3>3. CASE p[1] \in L /\ p[1] # p[2]
      <4>1. p \in R
          BY <3>3 DEF R, FdepInv
      <4>2. p[2] \in Stale \/ p[2] \in Onward(R, Stale, L)
          BY <3>1, <3>3, <4>1 DEF Onward
      <4> QED BY <1>5, <4>2
    <3> QED BY <2>1, <3>2, <3>3
  <2>2. Closed(Stale \cup L)
      BY <2>1 DEF Closed
  <2>3. Stale \cup L \in SUBSET File /\ {root} \cup seen.provs \subseteq Stale \cup L
      BY <1>1, <1>5, <1>6
  <2> QED BY <1>1, <2>2, <2>3, NeededIsLeast
<1> QED BY <1>4, <1>5, <1>6, <1>7, <1>8, <1>9


-----------------------------------------------------------------------------
(* The three things that happen to the files that are open                 *)

\* The next line is one of the file.
LEMMA StayStays ==
    ASSUME TypeInv, NEW d, Reads(d), Stay
    PROVE  /\ FilesTyped' /\ Stack' = Stack
           /\ \A k \in Stack : Open(k)' = Open(k)
<1>1. FilesTyped'
    BY LineTyped DEF Stay, TypeInv, FilesTyped
<1> QED BY <1>1 DEF Stay, Open, Stack

\* A file is opened above the others.
LEMMA PushOpens ==
    ASSUME TypeInv, TableInv, NEW d, Reads(d), NEW f \in DOMAIN text, PushInput(f),
           text' = text, root' \in {root, f}
    PROVE  /\ FilesTyped' /\ Stack' = Stack \cup {Len(cs) + 2}
           /\ Len(cs) \in Nat /\ Len(cs') = Len(cs) + 1
           /\ \A k \in Stack : Open(k)' = Open(k)
           /\ \A k : k = Len(cs) + 2 => Open(k)' = f
<1>1. /\ cs \in Seq([fi : DOMAIN text, at : Nat]) /\ Len(cs) \in Nat
      /\ [fi |-> fi, at |-> at + 1] \in [fi : DOMAIN text, at : Nat]
      /\ cs' = Append(cs, [fi |-> fi, at |-> at + 1]) /\ fi' = f /\ at' = 0
    BY LineTyped DEF TypeInv, FilesTyped, PushInput
<1>2. /\ cs' \in Seq([fi : DOMAIN text, at : Nat]) /\ Len(cs') = Len(cs) + 1
      /\ \A k \in 1 .. Len(cs) : cs'[k] = cs[k]
      /\ cs'[Len(cs) + 1] = [fi |-> fi, at |-> at + 1]
    BY <1>1
<1>3. \A k \in 1 .. Len(cs') : cs'[k].at \in 0 .. Len(text[cs'[k].fi])
  <2> SUFFICES ASSUME NEW k \in 1 .. Len(cs')
               PROVE  cs'[k].at \in 0 .. Len(text[cs'[k].fi])
      OBVIOUS
  <2>1. CASE k = Len(cs) + 1
      BY <1>2, <2>1, LineTyped
  <2>2. CASE k \in 1 .. Len(cs)
      BY <1>2, <2>2 DEF TypeInv, FilesTyped
  <2> QED BY <1>1, <1>2, <2>1, <2>2
<1>4. FilesTyped'
  <2>1. text \in Program /\ Len(text[f]) \in Nat
      BY ProgramAssumption DEF TypeInv, FilesTyped
  <2> QED BY <1>1, <1>2, <1>3, <2>1 DEF TypeInv, FilesTyped
<1>5. Stack' = Stack \cup {Len(cs) + 2} /\ Stack = 1 .. Len(cs) + 1
    BY <1>1, <1>2 DEF Stack
<1>6. \A k \in Stack : Open(k)' = Open(k)
    BY <1>1, <1>2, <1>5 DEF Open
<1>7. \A k : k = Len(cs) + 2 => Open(k)' = f
    BY <1>1, <1>2 DEF Open
<1> QED BY <1>1, <1>2, <1>4, <1>5, <1>6, <1>7

\* A sequence without its last element.
LEMMA Shorter ==
    ASSUME NEW S, NEW q \in Seq(S), q # <<>>
    PROVE  /\ Len(q) \in Nat /\ Len(q) >= 1 /\ \A k \in 1 .. Len(q) : q[k] \in S
           /\ SubSeq(q, 1, Len(q) - 1) \in Seq(S)
           /\ Len(SubSeq(q, 1, Len(q) - 1)) = Len(q) - 1
           /\ \A k \in 1 .. Len(q) - 1 : SubSeq(q, 1, Len(q) - 1)[k] = q[k]
<1>1. Len(q) \in Nat /\ Len(q) >= 1 /\ \A k \in 1 .. Len(q) : q[k] \in S
    OBVIOUS
<1> DEFINE n == Len(q) - 1
<1>2. n \in Int /\ n \in Nat /\ \A k \in 1 .. n : q[k] \in S
    BY <1>1
<1> HIDE DEF n
<1>3. /\ SubSeq(q, 1, n) \in Seq(S)
      /\ Len(SubSeq(q, 1, n)) = IF 1 <= n THEN n - 1 + 1 ELSE 0
      /\ \A i \in 1 .. n - 1 + 1 : SubSeq(q, 1, n)[i] = q[1 + i - 1]
    BY <1>2, SubSeqProperties
<1>4. /\ Len(SubSeq(q, 1, n)) = n
      /\ \A i \in 1 .. n : SubSeq(q, 1, n)[i] = q[i]
    BY <1>2, <1>3
<1> QED BY <1>1, <1>3, <1>4 DEF n

\* The file above is closed.
LEMMA PopCloses ==
    ASSUME TypeInv, cs # <<>>, text' = text, root' \in {root, NoFile},
           fi' = cs[Len(cs)].fi, at' = cs[Len(cs)].at,
           cs' = SubSeq(cs, 1, Len(cs) - 1)
    PROVE  /\ FilesTyped' /\ Stack' = 1 .. Len(cs) /\ Stack = 1 .. Len(cs) + 1
           /\ Len(cs) \in Nat /\ Len(cs) >= 1 /\ Len(cs') = Len(cs) - 1
           /\ \A k \in Stack' : Open(k)' = Open(k)
           /\ Open(Len(cs) + 1) = fi /\ Open(Len(cs)) = fi'
<1> DEFINE S == [fi : DOMAIN text, at : Nat]
<1>1. cs \in Seq(S)
    BY DEF TypeInv, FilesTyped
<1> HIDE DEF S
<1>2. /\ Len(cs) \in Nat /\ Len(cs) >= 1 /\ \A k \in 1 .. Len(cs) : cs[k] \in S
      /\ cs' \in Seq(S) /\ Len(cs') = Len(cs) - 1
      /\ \A k \in 1 .. Len(cs) - 1 : cs'[k] = cs[k]
    BY <1>1, Shorter
<1> USE DEF S
<1>3. FilesTyped'
  <2>1. \A k \in 1 .. Len(cs') : cs'[k].at \in 0 .. Len(text[cs'[k].fi])
      BY SMTT(60), <1>1, <1>2 DEF TypeInv, FilesTyped
  <2> QED BY SMTT(60), <1>1, <1>2, <2>1 DEF TypeInv, FilesTyped
<1>4. Stack' = 1 .. Len(cs) /\ Stack = 1 .. Len(cs) + 1
    BY <1>1, <1>2 DEF Stack
<1>5. \A k \in Stack' : Open(k)' = Open(k)
    BY <1>1, <1>2, <1>4 DEF Open
<1>6. Open(Len(cs) + 1) = fi /\ Open(Len(cs)) = fi'
    BY <1>2 DEF Open
<1> QED BY <1>2, <1>3, <1>4, <1>5, <1>6


-----------------------------------------------------------------------------
(* Steps that leave the files alone                                        *)

\* The files that are open.
LEMMA StackTyped ==
    ASSUME TypeInv, StackInv
    PROVE  /\ Len(cs) \in Nat /\ (cs # <<>> => Len(cs) >= 1)
           /\ \A k \in Stack : Open(k) \in DOMAIN text /\ Open(k) \in File
           /\ Len(cs) + 1 \in Stack /\ Open(Len(cs) + 1) = fi
           /\ (fi # WorkspaceFile => fi \in seen.read) /\ fi \in Near
<1>1. Len(cs) \in Nat /\ (cs # <<>> => Len(cs) >= 1)
    BY DEF TypeInv, FilesTyped
<1>2. \A k \in Stack : Open(k) \in DOMAIN text
  <2> DEFINE S == [fi : DOMAIN text, at : Nat]
  <2>1. cs \in Seq(S) /\ \A e \in S : e.fi \in DOMAIN text
      BY DEF TypeInv, FilesTyped
  <2> HIDE DEF S
  <2>2. \A k \in 1 .. Len(cs) : cs[k].fi \in DOMAIN text
      BY <2>1
  <2> QED BY <1>1, <2>2 DEF TypeInv, FilesTyped, Open, Stack
<1>3. DOMAIN text \subseteq File
    BY ProgramAssumption DEF TypeInv, FilesTyped
<1>4. Len(cs) + 1 \in Stack /\ Open(Len(cs) + 1) = fi
    BY <1>1 DEF Stack, Open
<1>5. fi # WorkspaceFile => fi \in seen.read
    BY <1>1, <1>4 DEF StackInv
<1> QED BY <1>1, <1>2, <1>3, <1>4, <1>5 DEF Near

\* What does not change keeps what is said of it.
LEMMA QuietKeeps ==
    ASSUME IInv, NEW d, Reads(d), Stay,
           UNCHANGED <<includes, compilation_unit, projects, truth, finished>>,
           seen'.read = seen.read, seen'.incs = seen.incs,
           seen'.sites = seen.sites, seen'.place = seen.place
    PROVE  /\ FilesTyped' /\ TableInv' /\ StackInv' /\ TruthInv' /\ IncludesInv'
           /\ seen'.provs = seen.provs => NearInv'
           /\ seen'.uses = seen.uses /\ seen'.provs = seen.provs /\ UNCHANGED fdep => FdepInv'
           /\ seen'.skips = seen.skips /\ include_path' = include_path /\ offset' = offset
                => PathInv'
           /\ UNCHANGED <<known, collected>> => TouchedInv'
           /\ skipped' = skipped /\ seen'.build = seen.build => OnceInv'
           /\ project' = project => ProjectsInv'
<1>1. /\ FilesTyped' /\ Stack' = Stack /\ \A k \in Stack : Open(k)' = Open(k)
    BY StayStays DEF IInv
<1>2. root' = root /\ fi' = fi /\ cs' = cs /\ Near' = Near
    BY DEF Stay, Near
<1>3. TableInv' /\ TruthInv'
    BY DEF IInv, TableInv, TruthInv
<1>4. StackInv'
    BY <1>1, <1>2 DEF IInv, StackInv, Open
<1>5. IncludesInv'
  <2>1. Inclusions' = Inclusions /\ Sites' = Sites
      BY DEF Inclusions, Sites
  <2>2. ASSUME NEW f, NEW g, IncludeRight(f, g) PROVE IncludeRight(f, g)'
    <3>1. /\ (Recalled(f, g) <=> Recalled(f, g)') /\ (Wanted(f, g) <=> Wanted(f, g)')
          /\ (Complete(f) <=> Complete(f)')
        BY DEF Recalled, Wanted, Complete, UnitsOf
    <3> QED BY <2>1, <2>2, <3>1 DEF IncludeRight
  <2> QED BY <2>2 DEF IInv, IncludesInv
<1>6. ASSUME seen'.provs = seen.provs
      PROVE  /\ NearInv'
             /\ seen'.uses = seen.uses /\ UNCHANGED fdep => FdepInv'
    BY <1>2, <1>6 DEF IInv, NearInv, FdepInv, fdep
<1>7. ASSUME seen'.skips = seen.skips, include_path' = include_path, offset' = offset
      PROVE  PathInv'
    BY <1>1, <1>2, <1>7 DEF IInv, PathInv
<1>8. ASSUME UNCHANGED <<known, collected>>
      PROVE  TouchedInv'
  <2>1. ~finished
      BY DEF IInv, TypeInv, FilesTyped, TouchedInv, Reads
  <2> QED BY <1>2, <1>8, <2>1 DEF IInv, TouchedInv, Touched
<1>9. ASSUME skipped' = skipped, seen'.build = seen.build
      PROVE  OnceInv'
    BY <1>1, <1>9 DEF IInv, OnceInv
<1>10. ASSUME project' = project
      PROVE  ProjectsInv'
    BY <1>1, <1>10 DEF IInv, ProjectsInv
<1> QED BY <1>1, <1>3, <1>4, <1>5, <1>6, <1>7, <1>8, <1>9, <1>10


LEMMA IncludeErrorKeeps ==
    ASSUME IInv, IncludeError
    PROVE  IInv'
<1>1. TypeInv'
    BY StayStays DEF IInv, IncludeError, TypeInv, search, table, fdep, other
<1> QED BY <1>1, QuietKeeps DEF IInv, IncludeError, search, table, fdep, other

LEMMA IncludeSkippedKeeps ==
    ASSUME IInv, IncludeSkipped
    PROVE  IInv'
<1>1. /\ Found \in Nat /\ (Found # 0 => Found - 1 \in Nat)
      /\ fi \in File /\ seen \in Seen /\ offset \in [File -> Nat]
    BY FoundTyped, LineTyped DEF IInv, TypeInv, IncludeSkipped
<1>2. /\ Reads("include") /\ Stay /\ include_path' = include_path
      /\ UNCHANGED <<includes, compilation_unit, projects, truth, finished, macros,
                     known, collected, project, required, readonly, skipped>>
      /\ UNCHANGED fdep
      /\ seen' = [seen EXCEPT !.skips = @ \cup {fi}]
      /\ offset' = IF Found = 0 THEN offset ELSE [offset EXCEPT ![fi] = Found - 1]
    BY DEF IncludeSkipped, table, fdep, other
<1>3. /\ seen'.read = seen.read /\ seen'.incs = seen.incs /\ seen'.uses = seen.uses
      /\ seen'.provs = seen.provs /\ seen'.sites = seen.sites /\ seen'.place = seen.place
      /\ seen'.skips = seen.skips \cup {fi} /\ seen'.build = seen.build /\ seen' \in Seen
    BY <1>1, <1>2 DEF Seen
<1>4. offset' \in [File -> Nat]
      /\ \A f \in File : f # fi => offset'[f] = offset[f]
    BY <1>1, <1>2
<1>5. Stack' = Stack /\ FilesTyped' /\ \A k \in Stack : Open(k)' = Open(k) /\ Open(k) \in File
    BY <1>2, StayStays, StackTyped DEF IInv
<1>6. PathInv'
  <2>1. cs' = cs
      BY <1>2 DEF Stay
  <2> QED BY <1>2, <1>3, <1>4, <1>5, <2>1 DEF IInv, PathInv
<1>7. TypeInv'
    BY <1>2, <1>3, <1>4, <1>5 DEF IInv, TypeInv
<1> QED BY <1>2, <1>3, <1>6, <1>7, QuietKeeps DEF IInv

LEMMA OnceKeeps ==
    ASSUME IInv, Orderly, Once
    PROVE  IInv'
<1>1. fi \in File /\ skipped' = skipped \cup {fi} /\ fi # WorkspaceFile
    BY LineTyped DEF IInv, Once, Orderly
<1>2. TypeInv'
    BY <1>1, StayStays DEF IInv, Once, TypeInv, table, fdep, other
<1>3. fi \in seen.build
  <2>1. Len(cs) + 1 \in Stack /\ Open(Len(cs) + 1) = fi /\ Len(cs) \in Nat
      BY StackTyped DEF IInv
  <2>2. Len(cs) + 1 > 1
      BY <1>1, <2>1 DEF IInv, StackInv
  <2> QED BY <2>1, <2>2 DEF IInv, OnceInv
<1>4. OnceInv'
  <2>1. Stack' = Stack /\ \A k \in Stack : Open(k)' = Open(k)
      BY StayStays DEF IInv, Once
  <2> QED BY <1>1, <1>3, <2>1 DEF IInv, OnceInv, Once
<1> QED BY <1>2, <1>4, QuietKeeps DEF IInv, Once, table, fdep, other

LEMMA IncludePathKeeps ==
    ASSUME IInv, Orderly, IncludePath
    PROVE  IInv'
<1>1. /\ Line.dir \in Dirs /\ include_path \in Seq(Dirs) /\ cs = <<>> /\ cs' = cs
      /\ include_path' = Append(include_path, Line.dir)
      /\ \A i \in DOMAIN include_path : include_path[i] # Line.dir
    BY LineTyped DEF IInv, TypeInv, IncludePath, Orderly, Stay
<1>2. TypeInv'
    BY <1>1, StayStays DEF IInv, IncludePath, TypeInv, table, fdep, other
<1>3. PathInv'
  <2>1. \A i, j \in DOMAIN include_path' : include_path'[i] = include_path'[j] => i = j
      BY <1>1 DEF IInv, PathInv
  <2>2. Stack' = 1 .. 1
      BY <1>1 DEF Stack
  <2> QED BY <1>1, <2>1, <2>2 DEF IInv, PathInv, IncludePath
<1> QED BY <1>2, <1>3, QuietKeeps DEF IInv, IncludePath, table, fdep, other

LEMMA ClearIncludeKeeps ==
    ASSUME IInv, Orderly, ClearInclude
    PROVE  IInv'
<1>1. /\ cs = <<>> /\ cs' = cs /\ include_path' = <<>> /\ skipped' = {}
      /\ seen' = [seen EXCEPT !.build = {}] /\ seen \in Seen
    BY DEF ClearInclude, Orderly, Stay, IInv, TypeInv
<1>2. /\ seen'.read = seen.read /\ seen'.incs = seen.incs /\ seen'.uses = seen.uses
      /\ seen'.provs = seen.provs /\ seen'.sites = seen.sites /\ seen'.place = seen.place
      /\ seen'.skips = seen.skips /\ seen'.build = {} /\ seen' \in Seen
    BY <1>1 DEF Seen
<1>3. TypeInv'
    BY <1>1, <1>2, StayStays DEF IInv, ClearInclude, TypeInv, table, fdep, other
<1>4. Stack' = 1 .. 1
    BY <1>1 DEF Stack
<1>5. PathInv'
    BY <1>1, <1>2, <1>4 DEF IInv, PathInv, ClearInclude
<1>6. OnceInv'
    BY <1>1, <1>4 DEF OnceInv
<1> QED BY <1>2, <1>3, <1>5, <1>6, QuietKeeps DEF IInv, ClearInclude, table, fdep, other

LEMMA ClearDefinesKeeps ==
    ASSUME IInv, ClearDefines
    PROVE  IInv'
<1>1. macros' = [n \in Name |-> NoFile]
    BY DEF ClearDefines
<1>2. TypeInv'
    BY <1>1, StayStays DEF IInv, ClearDefines, TypeInv, search, table, fdep
<1> QED BY <1>2, QuietKeeps DEF IInv, ClearDefines, search, table, fdep

LEMMA SetProjectKeeps ==
    ASSUME IInv, Orderly, SetProject
    PROVE  IInv'
<1>1. project' = Line.project /\ Line.project \in Project /\ seen.read = {}
    BY LineTyped DEF IInv, SetProject, Orderly, LineIsOf
<1>2. TypeInv'
    BY <1>1, StayStays DEF IInv, SetProject, TypeInv, search, table, fdep
<1>3. ProjectsInv'
    BY <1>1 DEF IInv, ProjectsInv, SetProject, table
<1> QED BY <1>2, <1>3, QuietKeeps DEF IInv, SetProject, search, table, fdep

LEMMA SetReadonlyKeeps ==
    ASSUME IInv, Orderly, SetReadonly
    PROVE  IInv'
<1>1. Line.file \in File /\ Line.file \in known
    BY LineTyped DEF IInv, SetReadonly, Orderly, LineIsOf
<1>2. known' = known /\ readonly' = readonly \cup {Line.file}
    BY <1>1 DEF SetReadonly
<1>3. TypeInv'
    BY <1>1, <1>2, StayStays DEF IInv, SetReadonly, TypeInv, search, fdep, other
<1> QED BY <1>2, <1>3, QuietKeeps DEF IInv, SetReadonly, search, fdep, other

LEMMA DefineKeeps ==
    ASSUME IInv, Define
    PROVE  IInv'
<1>1. /\ Line.name \in Name /\ Line.body \in Name \cup {NoFile} /\ fi \in File
      /\ macros' = [macros EXCEPT ![Line.name] = [file |-> fi, body |-> Line.body]]
    BY LineTyped DEF IInv, Define, LineIsOf
<1>2. macros' \in [Name -> Macro \cup {NoFile}]
    BY <1>1 DEF IInv, TypeInv, Macro
<1>3. TypeInv'
    BY <1>2, StayStays DEF IInv, Define, TypeInv, search, table, fdep
<1> QED BY <1>3, QuietKeeps DEF IInv, Define, search, table, fdep


LEMMA UseKeeps ==
    ASSUME IInv, Use
    PROVE  IInv'
<1>1. /\ Reads("use") /\ Stay /\ UNCHANGED <<include_path, skipped, offset>>
      /\ UNCHANGED <<includes, compilation_unit, projects, truth, finished, macros,
                     known, collected, project, required, readonly>>
      /\ UNCHANGED <<includers, providers, last_provider>>
      /\ definers' = definers \cup {r \in References(Line.name) : r[1] # r[2]}
      /\ seen' = [seen EXCEPT !.uses = @ \cup References(Line.name)]
    BY DEF Use, search, table, other
<1>2. References(Line.name) \subseteq File \X File
  <2>1. \A n \in Name : macros[n] # NoFile => macros[n] \in Macro
      BY DEF IInv, TypeInv
  <2>2. Line.name \in Name /\ fi \in File
      BY <1>1, LineTyped DEF IInv, LineIsOf
  <2>3. macros[Line.name] # NoFile =>
            /\ macros[Line.name].file \in File
            /\ macros[Line.name].body # NoFile => macros[Line.name].body \in Name
      BY <2>1, <2>2 DEF Macro
  <2> QED BY <2>1, <2>2, <2>3 DEF References, Macro
<1>3. /\ seen'.read = seen.read /\ seen'.incs = seen.incs
      /\ seen'.provs = seen.provs /\ seen'.sites = seen.sites
      /\ seen'.place = seen.place /\ seen'.skips = seen.skips
      /\ seen'.uses = seen.uses \cup References(Line.name)
      /\ seen'.build = seen.build /\ seen' \in Seen
  <2>1. seen \in Seen
      BY DEF IInv, TypeInv
  <2> QED BY <1>1, <1>2, <2>1 DEF Seen
<1>4. TypeInv'
    BY <1>1, <1>3, StayStays DEF IInv, TypeInv
<1>5. FdepInv'
    BY <1>1, <1>3 DEF IInv, FdepInv
<1> QED BY <1>1, <1>3, <1>4, <1>5, QuietKeeps DEF IInv

LEMMA ProvideKeeps ==
    ASSUME IInv, Provide
    PROVE  IInv'
<1>1. /\ Reads("provide") /\ Stay /\ UNCHANGED <<include_path, skipped, offset>>
      /\ UNCHANGED <<includes, compilation_unit, projects, truth, finished, macros,
                     known, collected, project, required, readonly>>
      /\ UNCHANGED <<definers, includers>>
      /\ providers' = IF fi = last_provider THEN providers ELSE providers \cup {fi}
      /\ last_provider' = fi
      /\ seen' = [seen EXCEPT !.provs = @ \cup {fi}]
    BY DEF Provide, search, table, other
<1>2. fi \in Near /\ fi \in File
    BY StackTyped, WorkspaceAssumption, LineTyped, <1>1 DEF IInv
<1>3. /\ seen'.read = seen.read /\ seen'.incs = seen.incs
      /\ seen'.provs = seen.provs \cup {fi} /\ seen'.sites = seen.sites
      /\ seen'.place = seen.place /\ seen'.skips = seen.skips
      /\ seen'.uses = seen.uses /\ seen'.build = seen.build /\ seen' \in Seen
  <2>1. seen \in Seen
      BY DEF IInv, TypeInv
  <2> QED BY <1>1, <1>2, <2>1 DEF Seen
<1>4. TypeInv'
    BY <1>1, <1>3, StayStays DEF IInv, TypeInv
<1>5. FdepInv'
  <2>1. fi # NoFile
      BY <1>2, WorkspaceAssumption
  <2> QED BY <1>1, <1>3, <2>1 DEF IInv, FdepInv
<1>6. NearInv'
  <2>1. Near' = Near /\ root' = root
      BY <1>1, <1>3 DEF Near, Stay
  <2> QED BY <1>1, <1>2, <1>3, <2>1 DEF IInv, NearInv
<1> QED BY <1>1, <1>3, <1>4, <1>5, <1>6, QuietKeeps DEF IInv


-----------------------------------------------------------------------------
(* Steps that open a file                                                  *)

\* Each site is that of an inclusion.
LEMMA SitesInclude ==
    ASSUME NearInv, TruthInv
    PROVE  \A s \in Sites : <<s[3], s[1]>> \in Inclusions
<1> SUFFICES ASSUME NEW s \in Sites PROVE <<s[3], s[1]>> \in Inclusions
    OBVIOUS
<1>1. CASE s \in seen.sites
    BY <1>1 DEF NearInv, Inclusions
<1>2. CASE \E t \in truth : s \in t.sites
  <2>1. PICK t \in truth : s \in t.sites
      BY <1>2
  <2>2. <<s[3], s[1]>> \in t.incs
      BY <2>1 DEF TruthInv
  <2> QED BY <2>2 DEF Inclusions
<1> QED BY <1>1, <1>2 DEF Sites

\* What is known of a pair, in the table or not.
LEMMA KnownIsRight ==
    ASSUME IInv, NEW a \in File, NEW g \in File \ {WorkspaceFile}
    PROVE  /\ Known(includes, <<a, g>>).direct <=> <<g, a>> \in Inclusions
           /\ a # g /\ Complete(a) => (Known(includes, <<a, g>>).required <=> Wanted(a, g))
           /\ a # WorkspaceFile => Known(includes, <<a, g>>).lines
                                        = {l \in Nat : <<a, l, g>> \in Sites}
<1>1. IncludeRight(a, g) /\ (Wanted(a, g) => Recalled(a, g))
    BY DEF IInv, IncludesInv, Recalled, Wanted
<1>2. CASE <<a, g>> \in DOMAIN includes
    BY <1>1, <1>2 DEF Known, IncludeRight
<1>3. CASE <<a, g>> \notin DOMAIN includes
  <2>1. <<g, a>> \notin Inclusions /\ (a # g => ~Wanted(a, g))
      BY <1>1, <1>3 DEF IncludeRight
  <2>2. \A l : <<a, l, g>> \notin Sites
      BY <2>1, SitesInclude DEF IInv
  <2> QED BY <1>3, <2>1, <2>2 DEF Known
<1> QED BY <1>2, <1>3

\* The table of includes when f is included by the current file.
LEMMA PushIncludes ==
    ASSUME IInv, NEW d, Reads(d), NEW f \in DOMAIN text, f # WorkspaceFile, PushInput(f),
           truth' = truth, seen'.incs = seen.incs \cup {<<f, fi>>},
           \/ seen'.sites = seen.sites \cup {<<fi, at + 1, f>>}
           \/ fi = WorkspaceFile /\ seen'.sites = seen.sites
    PROVE  TableInv' /\ IncludesInv'
<1>1. /\ fi \in File /\ f \in File /\ at + 1 \in Nat
      /\ includes' = SetIncludes(includes, fi, f, TRUE, FALSE, {at + 1})
    BY LineTyped DEF IInv, PushInput
<1> DEFINE p == <<fi, f>>
<1>2. /\ DOMAIN includes' = DOMAIN includes \cup {p}
      /\ includes' \in [DOMAIN includes' -> IncludeRecord]
      /\ \A q \in DOMAIN includes : q # p => includes'[q] = includes[q]
      /\ includes'[p].direct = (TRUE \/ Known(includes, p).direct)
      /\ includes'[p].required = (FALSE \/ Known(includes, p).required)
      /\ includes'[p].lines = Known(includes, p).lines \cup {at + 1}
  <2>1. Becomes(includes', p, TRUE, FALSE, {at + 1})
      BY <1>1, SetIncludesTyped DEF IInv
  <2> QED BY <2>1 DEF Becomes
<1>3. TableInv'
  <2>1. p \in File \X File /\ DOMAIN includes \subseteq File \X File
      BY <1>1 DEF IInv, TableInv
  <2>3. \A a \in File : <<a, WorkspaceFile>> # p
      OBVIOUS
  <2> HIDE DEF p
  <2>2. DOMAIN includes' \subseteq File \X File
      BY <1>2, <2>1
  <2>4. \A a \in File : <<a, WorkspaceFile>> \in DOMAIN includes' =>
                ~includes'[<<a, WorkspaceFile>>].direct
    <3> SUFFICES ASSUME NEW a \in File, <<a, WorkspaceFile>> \in DOMAIN includes'
                 PROVE  ~includes'[<<a, WorkspaceFile>>].direct
        OBVIOUS
    <3>1. /\ <<a, WorkspaceFile>> \in DOMAIN includes
          /\ includes'[<<a, WorkspaceFile>>] = includes[<<a, WorkspaceFile>>]
        BY <1>2, <2>3
    <3> QED BY <3>1 DEF IInv, TableInv
  <2> QED BY <1>2, <2>2, <2>4 DEF TableInv
<1>4. Inclusions' = Inclusions \cup {<<f, fi>>}
    BY DEF Inclusions
<1>5. Sites' = Sites \cup {<<fi, at + 1, f>>} \/ (fi = WorkspaceFile /\ Sites' = Sites)
    BY DEF Sites
<1>6. ASSUME NEW a \in File, NEW g \in File \ {WorkspaceFile}
      PROVE  IncludeRight(a, g)'
  <2>1. IncludeRight(a, g)
      BY DEF IInv, IncludesInv
  <2>2. (Recalled(a, g) <=> Recalled(a, g)') /\ (Wanted(a, g) <=> Wanted(a, g)')
        /\ (Wanted(a, g) => Recalled(a, g)) /\ (Complete(a) <=> Complete(a)')
      BY DEF Recalled, Wanted, Complete, UnitsOf
  <2>3. CASE <<a, g>> # p
    <3>1. <<a, g>> \in DOMAIN includes' <=> <<a, g>> \in DOMAIN includes
        BY <1>2, <2>3
    <3>2. <<g, a>> \in Inclusions' <=> <<g, a>> \in Inclusions
        BY <1>4, <2>3
    <3>3. \A l : <<a, l, g>> \in Sites' <=> <<a, l, g>> \in Sites
        BY <1>5, <2>3
    <3>4. <<a, g>> \in DOMAIN includes => includes'[<<a, g>>] = includes[<<a, g>>]
        BY <1>2, <2>3
    <3> HIDE DEF p
    <3> QED BY <2>1, <2>2, <3>1, <3>2, <3>3, <3>4 DEF IncludeRight
  <2>4. CASE a = fi /\ g = f
    <3>1. <<a, g>> \in DOMAIN includes' /\ <<g, a>> \in Inclusions'
        BY <1>2, <1>4, <2>4
    <3>2. includes'[<<a, g>>].direct
        BY <1>2, <2>4
    <3>3. a # g /\ Complete(a) => (includes'[<<a, g>>].required <=> Wanted(a, g))
        BY <1>2, <2>4, KnownIsRight
    <3>4. a # WorkspaceFile =>
            includes'[<<a, g>>].lines = {l \in Nat : <<a, l, g>> \in Sites'}
      <4> SUFFICES ASSUME a # WorkspaceFile
                   PROVE  includes'[<<a, g>>].lines = {l \in Nat : <<a, l, g>> \in Sites'}
          OBVIOUS
      <4>1. includes'[<<a, g>>].lines = Known(includes, <<a, g>>).lines \cup {at + 1}
          BY <1>2, <2>4
      <4>2. Sites' = Sites \cup {<<a, at + 1, g>>}
          BY <1>5, <2>4
      <4>3. Known(includes, <<a, g>>).lines = {l \in Nat : <<a, l, g>> \in Sites}
          BY KnownIsRight
      <4> QED BY <1>1, <4>1, <4>2, <4>3
    <3> QED BY <2>2, <3>1, <3>2, <3>3, <3>4 DEF IncludeRight
  <2> QED BY <2>3, <2>4
<1>7. IncludesInv'
    BY <1>6 DEF IncludesInv
<1> QED BY <1>3, <1>7


\* What a step does that opens f.
Pushes(f, place) ==
    /\ PushInput(f) /\ text' = text
    /\ UNCHANGED <<include_path, skipped, required, compilation_unit, projects, readonly,
                   definers, providers, last_provider, project, macros, finished, truth>>
    /\ root' = root \/ (root = NoFile /\ root' = f /\ fi = WorkspaceFile /\ cs = <<>>)
    /\ offset' = IF place = 0 THEN offset ELSE [offset EXCEPT ![f] = place - 1]
    /\ place # 0 => place \in DOMAIN include_path /\ include_path[place] = f[1]
    /\ \/ seen' = [seen EXCEPT !.read = @ \cup {f}, !.build = @ \cup {f},
                               !.incs = @ \cup {<<f, fi>>}, !.place = Append(@, place),
                               !.sites = @ \cup {<<fi, at + 1, f>>}]
       \/ fi = WorkspaceFile
          /\ seen' = [seen EXCEPT !.read = @ \cup {f}, !.build = @ \cup {f},
                                  !.incs = @ \cup {<<f, fi>>}, !.place = Append(@, place)]

LEMMA PushKeeps ==
    ASSUME IInv, NEW d, Reads(d), NEW f \in DOMAIN text, f # WorkspaceFile,
           NEW place \in Nat, Pushes(f, place)
    PROVE  IInv'
<1>1. /\ fi \in File /\ f \in File /\ at + 1 \in Nat /\ seen \in Seen
      /\ text' = text /\ PushInput(f) /\ root' \in {root, f}
    BY LineTyped DEF IInv, TypeInv, Pushes
<1>2. /\ FilesTyped' /\ Stack' = Stack \cup {Len(cs) + 2}
      /\ Len(cs) \in Nat /\ Len(cs') = Len(cs) + 1
      /\ \A k \in Stack : Open(k)' = Open(k)
      /\ \A k : k = Len(cs) + 2 => Open(k)' = f
    BY <1>1, PushOpens DEF IInv
<1>3. /\ \A k \in Stack : Open(k) \in File
      /\ fi \in Near /\ (cs # <<>> => Len(cs) >= 1)
    BY StackTyped DEF IInv
<1>4. /\ seen'.read = seen.read \cup {f} /\ seen'.incs = seen.incs \cup {<<f, fi>>}
      /\ seen'.uses = seen.uses /\ seen'.provs = seen.provs /\ seen'.skips = seen.skips
      /\ seen'.place = Append(seen.place, place) /\ seen'.build = seen.build \cup {f}
      /\ \/ seen'.sites = seen.sites \cup {<<fi, at + 1, f>>}
         \/ fi = WorkspaceFile /\ seen'.sites = seen.sites
    BY <1>1 DEF Seen, Pushes
<1>5. seen' \in Seen
  <2>1. <<fi, at + 1, f>> \in File \X Nat \X File
      BY <1>1
  <2>2. seen.place \in Seq(Nat) /\ Append(seen.place, place) \in Seq(Nat)
      BY <1>1 DEF Seen
  <2> DEFINE rd == seen.read \cup {f}
             bd == seen.build \cup {f}
             ic == seen.incs \cup {<<f, fi>>}
             pl == Append(seen.place, place)
             st == seen.sites \cup {<<fi, at + 1, f>>}
  <2>3. rd \in SUBSET File /\ ic \in SUBSET (File \X File) /\ pl \in Seq(Nat)
        /\ st \in SUBSET (File \X Nat \X File) /\ bd \in SUBSET File
      BY <1>1, <2>1, <2>2 DEF Seen
  <2>4. \/ seen' = [seen EXCEPT !.read = rd, !.build = bd, !.incs = ic, !.place = pl,
                                !.sites = st]
        \/ seen' = [seen EXCEPT !.read = rd, !.build = bd, !.incs = ic, !.place = pl]
      BY DEF Pushes
  <2> HIDE DEF rd, bd, ic, pl, st
  <2>5. CASE seen' = [seen EXCEPT !.read = rd, !.build = bd, !.incs = ic, !.place = pl,
                                   !.sites = st]
      BY <1>1, <2>3, <2>5 DEF Seen
  <2>6. CASE seen' = [seen EXCEPT !.read = rd, !.build = bd, !.incs = ic, !.place = pl]
      BY <1>1, <2>3, <2>6 DEF Seen
  <2> QED BY <2>4, <2>5, <2>6
<1>6. /\ offset' \in [File -> Nat]
      /\ place # 0 => offset'[f] = place - 1
      /\ \A g \in File : (g # f \/ place = 0) => offset'[g] = offset[g]
    BY <1>1 DEF Pushes, IInv, TypeInv
<1>7. TypeInv'
    BY <1>1, <1>2, <1>5, <1>6 DEF IInv, TypeInv, Pushes, PushInput
<1>8. TableInv' /\ IncludesInv'
    BY <1>1, <1>4, PushIncludes DEF Pushes
<1>9. StackInv'
  <2>1. cs' # <<>>
      BY <1>2, <1>7 DEF TypeInv, FilesTyped
  <2>2. Open(1)' = WorkspaceFile
      BY <1>2 DEF IInv, StackInv, Stack
  <2>3. ASSUME NEW k \in Stack', k > 1 PROVE Open(k)' \in seen'.read
      BY <1>2, <1>4, <2>3 DEF IInv, StackInv
  <2>4. root' # NoFile => Open(2)' = root'
    <3>1. CASE root' = root /\ root # NoFile
      <4>1. 2 \in Stack /\ Open(2) = root
          BY <1>2, <1>3, <3>1 DEF IInv, StackInv, Stack
      <4> QED BY <1>2, <3>1, <4>1
    <3>2. CASE root' = f /\ cs = <<>>
        BY <1>2, <3>2
    <3> QED BY <3>1, <3>2 DEF Pushes
  <2> QED BY <1>4, <2>1, <2>2, <2>3, <2>4 DEF IInv, StackInv
<1>10. FdepInv'
    BY <1>4 DEF IInv, FdepInv, Pushes, PushInput
<1>11. Near' = Near \cup {f}
    BY <1>4 DEF Near
<1>12. NearInv'
  <2>1. seen'.provs \subseteq Near'
      BY <1>4, <1>11 DEF IInv, NearInv
  <2>2. seen'.incs \subseteq seen'.read \X Near'
      BY <1>3, <1>4, <1>11 DEF IInv, NearInv
  <2>3. \A s \in seen'.sites : <<s[3], s[1]>> \in seen'.incs
    <3> SUFFICES ASSUME NEW s \in seen'.sites PROVE <<s[3], s[1]>> \in seen'.incs
        OBVIOUS
    <3>1. CASE s \in seen.sites
        BY <1>4, <3>1 DEF IInv, NearInv
    <3>2. CASE s = <<fi, at + 1, f>>
        BY <1>4, <3>2
    <3> QED BY <1>4, <3>1, <3>2
  <2>4. root' # NoFile => <<root', WorkspaceFile>> \in seen'.incs
      BY <1>4 DEF IInv, NearInv, Pushes
  <2> QED BY <2>1, <2>2, <2>3, <2>4 DEF NearInv
<1>13. TouchedInv'
  <2>1. ~finished
      BY DEF IInv, TypeInv, FilesTyped, TouchedInv, Reads
  <2>2. Touched' = Touched \cup {f}
      BY DEF Touched, Pushes, PushInput
  <2> QED BY <1>11, <2>1, <2>2 DEF IInv, TouchedInv, Pushes, PushInput
<1>14. OnceInv'
  <2>1. skipped' = skipped
      BY DEF Pushes
  <2> QED BY <1>2, <1>4, <2>1 DEF IInv, OnceInv
<1>15. PathInv'
  <2>1. /\ seen.place \in Seq(Nat) /\ Len(seen.place) = Len(cs) + 1
        /\ seen.place[1] = 0
      BY <1>1 DEF Seen, IInv, PathInv
  <2>2. /\ Len(seen'.place) = Len(cs) + 2 /\ seen'.place[1] = 0
        /\ \A k \in Stack : seen'.place[k] = seen.place[k]
        /\ seen'.place[Len(cs) + 2] = place
    <3>1. Stack = 1 .. Len(cs) + 1 /\ seen'.place = Append(seen.place, place)
        BY <1>4 DEF Stack
    <3> DEFINE pl == seen.place
    <3>2. pl \in Seq(Nat) /\ Len(pl) = Len(cs) + 1 /\ pl[1] = 0 /\ Len(cs) \in Nat
        BY <1>2, <2>1
    <3> HIDE DEF pl
    <3>3. /\ Len(Append(pl, place)) = Len(cs) + 2 /\ Append(pl, place)[1] = 0
          /\ \A k \in 1 .. Len(cs) + 1 : Append(pl, place)[k] = pl[k]
          /\ Append(pl, place)[Len(cs) + 2] = place
        BY <3>2
    <3> QED BY <3>1, <3>3 DEF pl
  <2>3. ASSUME NEW k \in Stack', seen'.place[k] > 0
        PROVE  /\ seen'.place[k] \in DOMAIN include_path
               /\ include_path[seen'.place[k]] = Open(k)'[1]
               /\ Open(k)' \notin seen'.skips => offset'[Open(k)'] = seen'.place[k] - 1
    <3>1. CASE k \in Stack
      <4>1. /\ seen.place[k] \in DOMAIN include_path
            /\ include_path[seen.place[k]] = Open(k)[1] /\ Open(k) \in File
            /\ Open(k) \notin seen.skips => offset[Open(k)] = seen.place[k] - 1
          BY <1>3, <2>2, <2>3, <3>1 DEF IInv, PathInv
      <4>2. CASE Open(k) = f /\ place # 0
        <5>1. place \in DOMAIN include_path /\ include_path[place] = f[1]
            BY <4>2 DEF Pushes
        <5>2. seen.place[k] = place
            BY <4>1, <4>2, <5>1 DEF IInv, PathInv
        <5> QED BY <1>2, <1>6, <2>2, <3>1, <4>1, <4>2, <5>2
      <4>3. CASE Open(k) # f \/ place = 0
          BY <1>2, <1>4, <1>6, <2>2, <3>1, <4>1, <4>3
      <4> QED BY <4>2, <4>3
    <3>2. CASE k = Len(cs) + 2
        BY <1>2, <1>6, <2>2, <2>3, <3>2 DEF Pushes
    <3> QED BY <1>2, <3>1, <3>2
  <2>4. include_path' = include_path
      BY DEF Pushes
  <2> QED BY <1>2, <2>2, <2>3, <2>4 DEF IInv, PathInv
<1>16. TruthInv'
    BY DEF IInv, TruthInv, Pushes
<1>17. ProjectsInv'
  <2>1. \A g \in File : (\A k \in Stack' : Open(k)' # g) => g # f /\ \A k \in Stack : Open(k) # g
      BY <1>2
  <2> QED BY <1>4, <2>1 DEF IInv, ProjectsInv, Pushes
<1> QED BY <1>7, <1>8, <1>9, <1>10, <1>12, <1>13, <1>14, <1>15, <1>16, <1>17 DEF IInv

LEMMA IncludeOpenKeeps ==
    ASSUME IInv, Orderly, IncludeOpen
    PROVE  IInv'
<1>1. /\ FoundFile \in DOMAIN text /\ FoundFile # WorkspaceFile /\ Found \in Nat
      /\ Found # 0 => Found \in DOMAIN include_path /\ include_path[Found] = FoundFile[1]
    BY FoundTyped DEF IInv, TypeInv, IncludeOpen, Orderly
<1>2. Pushes(FoundFile, Found)
    BY <1>1 DEF Pushes, IncludeOpen, Orderly, other
<1> QED BY <1>1, <1>2, PushKeeps DEF IncludeOpen

LEMMA ProcessKeeps ==
    ASSUME IInv, Orderly, Process
    PROVE  IInv'
<1>1. Line.file \in DOMAIN text /\ Line.file # WorkspaceFile /\ cs = <<>>
    BY LineTyped DEF IInv, Process, Orderly, LineIsOf
<1>2. fi = WorkspaceFile
    BY <1>1 DEF IInv, StackInv, Open
<1>3. Pushes(Line.file, 0)
    BY <1>1, <1>2 DEF Pushes, Process, Orderly, search, other
<1> QED BY <1>1, <1>3, PushKeeps DEF Process


-----------------------------------------------------------------------------
(* The ends of files                                                       *)

LEMMA EndOfIncludeKeeps ==
    ASSUME IInv, EndOfInclude
    PROVE  IInv'
<1>1. /\ cs # <<>> /\ fi' = cs[Len(cs)].fi /\ at' = cs[Len(cs)].at
      /\ cs' = SubSeq(cs, 1, Len(cs) - 1) /\ ~(root # NoFile /\ Len(cs) = 1)
      /\ collected' = collected \ {fi'}
      /\ projects' = [projects EXCEPT ![fi] = @ \cup {project}]
      /\ seen' = [seen EXCEPT !.place = SubSeq(@, 1, Len(@) - 1)]
      /\ UNCHANGED <<text, root, include_path, skipped, offset, known, required, includes,
                     compilation_unit, readonly, fdep, project, macros, finished, truth>>
    BY DEF EndOfInclude, SetAttribute, search, other
<1>2. /\ FilesTyped' /\ Stack' = 1 .. Len(cs) /\ Stack = 1 .. Len(cs) + 1
      /\ Len(cs) \in Nat /\ Len(cs) >= 1 /\ Len(cs') = Len(cs) - 1
      /\ \A k \in Stack' : Open(k)' = Open(k)
      /\ Open(Len(cs) + 1) = fi /\ Open(Len(cs)) = fi'
    BY <1>1, PopCloses DEF IInv
<1>3. /\ fi \in File /\ (fi # WorkspaceFile => fi \in seen.read)
      /\ \A k \in Stack : Open(k) \in File
    BY StackTyped DEF IInv
<1>4. seen \in Seen /\ seen.place \in Seq(Nat) /\ Len(seen.place) = Len(cs) + 1
    BY DEF IInv, TypeInv, PathInv, Seen
<1> DEFINE pl == SubSeq(seen.place, 1, Len(seen.place) - 1)
<1>5. /\ pl \in Seq(Nat) /\ Len(pl) = Len(cs)
      /\ \A k \in 1 .. Len(cs) : pl[k] = seen.place[k]
  <2>1. seen.place # <<>> /\ Len(seen.place) - 1 = Len(cs)
      BY <1>2, <1>4
  <2> QED BY <1>4, <2>1, Shorter
<1>6. seen' = [seen EXCEPT !.place = pl]
    BY <1>1
<1> HIDE DEF pl
<1>7. /\ seen'.read = seen.read /\ seen'.incs = seen.incs /\ seen'.uses = seen.uses
      /\ seen'.provs = seen.provs /\ seen'.sites = seen.sites /\ seen'.skips = seen.skips
      /\ seen'.place = pl /\ seen'.build = seen.build /\ seen' \in Seen
    BY <1>4, <1>5, <1>6 DEF Seen
<1>8. TypeInv'
  <2>1. projects' \in [File -> SUBSET Project]
      BY <1>1 DEF IInv, TypeInv
  <2> QED BY <1>1, <1>2, <1>7, <2>1 DEF IInv, TypeInv
<1>9. TableInv' /\ TruthInv' /\ FdepInv' /\ OnceInv'
  <2>1. \A k \in Stack' : k \in Stack /\ Open(k)' = Open(k)
      BY <1>2
  <2>2. OnceInv'
      BY <1>1, <1>7, <2>1 DEF IInv, OnceInv
  <2> QED BY <1>1, <1>7, <2>2 DEF IInv, TableInv, TruthInv, FdepInv, fdep
<1>10. StackInv'
  <2>1. cs' = <<>> => root' = NoFile
      BY <1>1, <1>2
  <2>2. root' # NoFile => Open(2)' = root'
      BY <1>1, <1>2 DEF IInv, StackInv
  <2>3. \A k \in Stack' : k > 1 => Open(k)' \in seen'.read
      BY <1>2, <1>7 DEF IInv, StackInv
  <2> QED BY <1>2, <1>7, <2>1, <2>2, <2>3 DEF IInv, StackInv
<1>11. NearInv'
    BY <1>1, <1>7 DEF IInv, NearInv, Near
<1>12. TouchedInv'
  <2>1. ~finished
      BY <1>1 DEF IInv, TypeInv, TouchedInv
  <2>2. Open(Len(cs)) \in Near
      BY <1>2 DEF IInv, StackInv, Near
  <2>3. fi' \in Touched
      BY <1>2, <2>1, <2>2 DEF IInv, TouchedInv
  <2>4. Touched' = Touched /\ Near' = Near
      BY <1>1, <1>7, <2>3 DEF Touched, Near
  <2> QED BY <1>1, <2>1, <2>4 DEF IInv, TouchedInv
<1>13. PathInv'
  <2>1. Len(seen'.place) = Len(cs') + 1 /\ seen'.place[1] = 0
      BY <1>2, <1>5, <1>7 DEF IInv, PathInv
  <2>2. \A k \in Stack' : seen'.place[k] = seen.place[k] /\ k \in Stack
      BY <1>2, <1>5, <1>7
  <2> QED BY <1>1, <1>2, <1>7, <2>1, <2>2 DEF IInv, PathInv
<1>14. IncludesInv'
  <2>1. Inclusions' = Inclusions /\ Sites' = Sites
      BY <1>1, <1>7 DEF Inclusions, Sites
  <2>2. ASSUME NEW f, NEW g, IncludeRight(f, g) PROVE IncludeRight(f, g)'
    <3>1. /\ (Recalled(f, g) <=> Recalled(f, g)') /\ (Wanted(f, g) <=> Wanted(f, g)')
          /\ (Complete(f) <=> Complete(f)')
        BY <1>1 DEF Recalled, Wanted, Complete, UnitsOf
    <3> QED BY <1>1, <2>1, <2>2, <3>1 DEF IncludeRight
  <2> QED BY <2>2 DEF IInv, IncludesInv
<1>15. ProjectsInv'
  <2> SUFFICES ASSUME NEW g \in File \ (Copied \cup {WorkspaceFile})
      PROVE  /\ {t.proj : t \in {t \in truth : g \in t.read}} \subseteq projects'[g]
             /\ projects'[g] \subseteq {t.proj : t \in {t \in truth : g \in t.read}}
                                       \cup (IF g \in seen.read THEN {project} ELSE {})
             /\ g \in seen.read /\ (\A k \in Stack' : Open(k)' # g) => project \in projects'[g]
      BY <1>1, <1>7 DEF ProjectsInv
  <2>1. projects'[g] = IF g = fi THEN projects[g] \cup {project} ELSE projects[g]
      BY <1>1 DEF IInv, TypeInv
  <2>2. g # fi /\ (\A k \in Stack' : Open(k)' # g) => \A k \in Stack : Open(k) # g
      BY <1>2
  <2> QED BY <1>3, <2>1, <2>2 DEF IInv, ProjectsInv
<1> QED BY <1>8, <1>9, <1>10, <1>11, <1>12, <1>13, <1>14, <1>15 DEF IInv

LEMMA EndOfWorkspaceKeeps ==
    ASSUME IInv, EndOfWorkspace
    PROVE  IInv'
<1> DEFINE again == {WorkspaceFile} \cup (Copied \cap known)
<1>1. /\ finished' = TRUE /\ AtEnd /\ cs = <<>>
      /\ projects' = [f \in File |-> projects[f] \cup (IF f \in again THEN {project} ELSE {})]
      /\ collected' = collected \ again
      /\ UNCHANGED <<text, fi, at, cs, root, include_path, skipped, offset, known, required,
                     includes, compilation_unit, readonly, fdep, project, macros, seen, truth>>
    BY DEF EndOfWorkspace, files, search
<1>2. TypeInv'
    BY <1>1 DEF IInv, TypeInv, FilesTyped
<1>3. TableInv' /\ TruthInv' /\ FdepInv' /\ NearInv'
    BY <1>1 DEF IInv, TableInv, TruthInv, FdepInv, fdep, NearInv, Near
<1>4. Stack' = Stack /\ \A k : Open(k)' = Open(k)
    BY <1>1 DEF Stack, Open
<1>5. StackInv' /\ PathInv' /\ OnceInv'
    BY <1>1, <1>4 DEF IInv, StackInv, PathInv, OnceInv
<1>6. TouchedInv'
    BY <1>1 DEF IInv, TouchedInv, StackInv, AtEnd
<1>7. IncludesInv'
  <2>1. Inclusions' = Inclusions /\ Sites' = Sites
      BY <1>1 DEF Inclusions, Sites
  <2>2. ASSUME NEW f, NEW g, IncludeRight(f, g) PROVE IncludeRight(f, g)'
    <3>1. /\ (Recalled(f, g) <=> Recalled(f, g)') /\ (Wanted(f, g) <=> Wanted(f, g)')
          /\ (Complete(f) <=> Complete(f)')
        BY <1>1 DEF Recalled, Wanted, Complete, UnitsOf
    <3> QED BY <1>1, <2>1, <2>2, <3>1 DEF IncludeRight
  <2> QED BY <2>2 DEF IInv, IncludesInv
<1>8. ProjectsInv'
  <2>1. \A g \in File \ (Copied \cup {WorkspaceFile}) : projects'[g] = projects[g]
      BY <1>1
  <2> QED BY <1>1, <1>4, <2>1 DEF IInv, ProjectsInv
<1> QED BY <1>2, <1>3, <1>5, <1>6, <1>7, <1>8 DEF IInv


\* The table of includes when a unit ends.
LEMMA RecordedIncludes ==
    ASSUME IInv, EndOfUnit, root \in seen.read, root # NoFile
    PROVE  TableInv' /\ IncludesInv'
<1>1. /\ root \in File /\ Near \subseteq File /\ ~finished /\ NoFile \notin File
    BY WorkspaceAssumption DEF IInv, TypeInv, Seen, Near, TouchedInv
<1>2. /\ Touched = Near
      /\ ~Cut => Required \cap Near = Needed \cap Near
    BY <1>1, MarkedIsNeeded DEF IInv, TouchedInv
<1> DEFINE new == {<<root, f>> : f \in Touched \ {root, NoFile}}
           set(f) == SetIncludes(includes, root, f, FALSE, f \in Required, {})
<1>3. /\ DOMAIN includes' = DOMAIN includes \cup new
      /\ \A p \in DOMAIN includes \ new : includes'[p] = includes[p]
      /\ \A f \in Touched \ {root, NoFile} : includes'[<<root, f>>] = set(f)[<<root, f>>]
      /\ includes' = [p \in DOMAIN includes' |-> includes'[p]]
  <2>1. includes' = [p \in DOMAIN includes \cup new |->
                        IF p \in new
                        THEN SetIncludes(includes, root, p[2], FALSE, p[2] \in Required, {})[p]
                        ELSE includes[p]]
      BY DEF EndOfUnit, Recorded
  <2>2. \A f \in Touched \ {root, NoFile} : <<root, f>> \in new /\ <<root, f>>[2] = f
      OBVIOUS
  <2> HIDE DEF new
  <2> QED BY <2>1, <2>2
<1>4. ASSUME NEW f \in Touched \ {root, NoFile}
      PROVE  /\ set(f)[<<root, f>>] \in IncludeRecord
             /\ set(f)[<<root, f>>].direct = Known(includes, <<root, f>>).direct
             /\ set(f)[<<root, f>>].required
                    = (f \in Required \/ Known(includes, <<root, f>>).required)
             /\ set(f)[<<root, f>>].lines = Known(includes, <<root, f>>).lines
  <2>1. f \in File /\ (f \in Required) \in BOOLEAN
      BY <1>1, <1>2
  <2>2. Becomes(set(f), <<root, f>>, FALSE, f \in Required, {})
      BY <1>1, <2>1, SetIncludesTyped DEF IInv
  <2>3. Known(includes, <<root, f>>) \in IncludeRecord
      BY DEF IInv, TableInv, Known, IncludeRecord
  <2> HIDE DEF set
  <2>4. /\ set(f) \in [DOMAIN set(f) -> IncludeRecord] /\ <<root, f>> \in DOMAIN set(f)
        /\ set(f)[<<root, f>>].direct = (FALSE \/ Known(includes, <<root, f>>).direct)
        /\ set(f)[<<root, f>>].required
                = ((f \in Required) \/ Known(includes, <<root, f>>).required)
        /\ set(f)[<<root, f>>].lines = Known(includes, <<root, f>>).lines \cup {}
      BY <2>2 DEF Becomes
  <2>5. Known(includes, <<root, f>>).direct \in BOOLEAN
      BY <2>3 DEF IncludeRecord
  <2> QED BY <2>4, <2>5
<1> HIDE DEF set
<1>5. TableInv'
  <2>1. new \subseteq File \X File /\ DOMAIN includes \subseteq File \X File
      BY <1>1, <1>2 DEF IInv, TableInv
  <2>2. \A p \in DOMAIN includes' : includes'[p] \in IncludeRecord
    <3> SUFFICES ASSUME NEW p \in DOMAIN includes' PROVE includes'[p] \in IncludeRecord
        OBVIOUS
    <3>1. CASE p \in new
        BY <1>3, <1>4, <3>1
    <3>2. CASE p \notin new
      <4>1. p \in DOMAIN includes
          BY <1>3, <3>2
      <4> HIDE DEF new
      <4> QED BY <1>3, <3>2, <4>1 DEF IInv, TableInv
    <3> QED BY <3>1, <3>2
  <2>6. \A a, g : <<a, g>> \in new => a = root /\ g \in Touched \ {root, NoFile}
      OBVIOUS
  <2> HIDE DEF new
  <2>3. DOMAIN includes' \subseteq File \X File
      BY <1>3, <2>1
  <2>4. includes' \in [DOMAIN includes' -> IncludeRecord]
      BY <1>3, <2>2
  <2>5. \A a \in File : <<a, WorkspaceFile>> \in DOMAIN includes' =>
                ~includes'[<<a, WorkspaceFile>>].direct
    <3> SUFFICES ASSUME NEW a \in File, <<a, WorkspaceFile>> \in DOMAIN includes'
                 PROVE  ~includes'[<<a, WorkspaceFile>>].direct
        OBVIOUS
    <3>1. ~Known(includes, <<a, WorkspaceFile>>).direct
        BY DEF IInv, TableInv, Known
    <3>2. CASE <<a, WorkspaceFile>> \in new
      <4>1. a = root /\ WorkspaceFile \in Touched \ {root, NoFile}
          BY <2>6, <3>2
      <4> QED BY <1>3, <1>4, <3>1, <4>1
    <3>3. CASE <<a, WorkspaceFile>> \notin new
      <4>1. <<a, WorkspaceFile>> \in DOMAIN includes
          BY <1>3, <3>3
      <4> QED BY <1>3, <3>1, <3>3, <4>1 DEF Known
    <3> QED BY <3>2, <3>3
  <2> QED BY <2>3, <2>4, <2>5 DEF TableInv
<1> DEFINE now == [root |-> root, proj |-> project, read |-> seen.read, incs |-> seen.incs,
                   sites |-> seen.sites, needed |-> Needed, cut |-> Cut]
<1>6. /\ truth' = truth \cup {now} /\ seen'.incs = {} /\ seen'.sites = {}
      /\ now.root = root /\ now.read = seen.read /\ now.incs = seen.incs
      /\ now.sites = seen.sites /\ now.needed = Needed /\ now.cut = Cut
    BY DEF EndOfUnit, Nothing
<1> HIDE DEF now
<1>7. Inclusions' = Inclusions /\ Sites' = Sites
  <2>1. UNION {t.incs : t \in truth'} = now.incs \cup UNION {t.incs : t \in truth}
      BY <1>6
  <2>2. UNION {t.sites : t \in truth'} = now.sites \cup UNION {t.sites : t \in truth}
      BY <1>6
  <2> QED BY <1>6, <2>1, <2>2 DEF Inclusions, Sites
<1>8. ASSUME NEW a \in File, NEW g \in File \ {WorkspaceFile}
      PROVE  IncludeRight(a, g)'
  <2>1. IncludeRight(a, g)
      BY DEF IInv, IncludesInv
  <2>2. Recalled(a, g)' <=> Recalled(a, g) \/ (a = root /\ g \in seen.read)
      BY <1>6 DEF Recalled
  <2>3. Wanted(a, g)' <=> Wanted(a, g) \/ (a = root /\ g \in seen.read \cap Needed)
      BY <1>6 DEF Wanted
  <2>4. Complete(a)' => Complete(a) /\ (a = root => ~Cut)
      BY <1>6 DEF Complete, UnitsOf
  <2>5. CASE a = root /\ g \in seen.read /\ g # root
    <3>1. g \in Touched \ {root, NoFile} /\ g \in Near
        BY <1>1, <1>2, <2>5 DEF Near
    <3>2. <<a, g>> \in new
        BY <2>5, <3>1
    <3>3. <<a, g>> \in DOMAIN includes'
        BY <1>3, <3>2
    <3>4. /\ includes'[<<a, g>>].direct = Known(includes, <<a, g>>).direct
          /\ includes'[<<a, g>>].required
                = (g \in Required \/ Known(includes, <<a, g>>).required)
          /\ includes'[<<a, g>>].lines = Known(includes, <<a, g>>).lines
        BY <1>3, <1>4, <2>5, <3>1
    <3>5. ~Cut => (g \in Required <=> g \in seen.read \cap Needed)
        BY <1>2, <2>5, <3>1
    <3> HIDE DEF new
    <3>6. /\ Known(includes, <<a, g>>).direct <=> <<g, a>> \in Inclusions
          /\ a # g /\ Complete(a) => (Known(includes, <<a, g>>).required <=> Wanted(a, g))
          /\ a # WorkspaceFile => Known(includes, <<a, g>>).lines
                                        = {l \in Nat : <<a, l, g>> \in Sites}
        BY KnownIsRight
    <3>7. Complete(a)' => (includes'[<<a, g>>].required <=> Wanted(a, g)')
        BY Zenon, <2>3, <2>5, <2>4, <3>4, <3>5, <3>6
    <3>8. a # g /\ Recalled(a, g)'
        BY <2>2, <2>5
    <3>9. includes'[<<a, g>>].direct <=> <<g, a>> \in Inclusions'
        BY Zenon, <1>7, <3>4, <3>6
    <3>10. a # WorkspaceFile =>
                includes'[<<a, g>>].lines = {l \in Nat : <<a, l, g>> \in Sites'}
        BY <1>7, <3>4, <3>6
    <3> QED BY <3>3, <3>7, <3>8, <3>9, <3>10 DEF IncludeRight
  <2>6. CASE ~(a = root /\ g \in seen.read /\ g # root)
    <3>1. <<a, g>> \notin new
        BY <1>2, <2>6 DEF Near
    <3> HIDE DEF new
    <3>2. <<a, g>> \in DOMAIN includes' <=> <<a, g>> \in DOMAIN includes
        BY <1>3, <3>1
    <3>3. <<a, g>> \in DOMAIN includes => includes'[<<a, g>>] = includes[<<a, g>>]
        BY <1>3, <3>1
    <3>4. a # g => (Recalled(a, g)' <=> Recalled(a, g)) /\ (Wanted(a, g)' <=> Wanted(a, g))
        BY <2>2, <2>3, <2>6
    <3> QED BY <1>7, <2>1, <2>4, <3>2, <3>3, <3>4 DEF IncludeRight
  <2> QED BY <2>5, <2>6
<1>9. IncludesInv'
    BY <1>8 DEF IncludesInv
<1> QED BY <1>5, <1>9

LEMMA EndOfUnitKeeps ==
    ASSUME IInv, EndOfUnit
    PROVE  IInv'
<1>1. /\ root # NoFile /\ Len(cs) = 1 /\ fi' = cs[1].fi /\ at' = cs[1].at /\ cs' = <<>>
      /\ projects' = [projects EXCEPT ![root] = @ \cup {project}]
      /\ compilation_unit' = compilation_unit \cup {root}
      /\ required' = Required /\ Reset /\ root' = NoFile
      /\ seen' = [Nothing EXCEPT !.build = seen.build]
      /\ collected' = (collected \cup Touched) \ {fi'}
      /\ truth' = truth \cup {[root |-> root, proj |-> project, read |-> seen.read,
                               incs |-> seen.incs, sites |-> seen.sites,
                               needed |-> Needed, cut |-> Cut]}
      /\ UNCHANGED <<text, include_path, skipped, offset, known, readonly,
                     project, macros, finished>>
    BY DEF EndOfUnit, SetAttribute, search, other
<1>2. /\ Stack = {1, 2} /\ Open(1) = WorkspaceFile /\ Open(2) = root
      /\ root \in seen.read /\ root \in File /\ fi' = WorkspaceFile
  <2>1. Stack = {1, 2}
      BY <1>1 DEF Stack
  <2>2. Open(2) = root /\ Open(1) = WorkspaceFile /\ Open(2) \in seen.read
      BY <1>1, <2>1 DEF IInv, StackInv
  <2> QED BY <1>1, <2>1, <2>2 DEF IInv, TypeInv, Seen, Open
<1>3. Stack' = {1} /\ Open(1)' = WorkspaceFile
    BY <1>1, <1>2 DEF Stack, Open
<1>4. ~finished /\ Touched = Near /\ WorkspaceFile \in known
    BY <1>1 DEF IInv, TypeInv, TouchedInv
<1>5. Needed \subseteq File /\ Required \subseteq File
    BY <1>1, <1>4, MarkedIsNeeded DEF IInv
<1>6. /\ seen'.read = {} /\ seen'.uses = {} /\ seen'.incs = {} /\ seen'.provs = {}
      /\ seen'.sites = {} /\ seen'.place = <<0>> /\ seen'.skips = {}
      /\ seen'.build = seen.build /\ seen' \in Seen
  <2>1. <<0>> \in Seq(Nat) /\ seen.build \in SUBSET File
      BY DEF IInv, TypeInv, Seen
  <2> QED BY <1>1, <2>1 DEF Nothing, Seen
<1> DEFINE now == [root |-> root, proj |-> project, read |-> seen.read, incs |-> seen.incs,
                   sites |-> seen.sites, needed |-> Needed, cut |-> Cut]
<1>7. TypeInv'
  <2>1. now \in Told
    <3>1. Cut \in BOOLEAN
        BY DEF Cut
    <3> QED BY <1>2, <1>5, <3>1 DEF IInv, TypeInv, Seen, Told
  <2>2. FilesTyped'
    <3>1. cs[1].fi \in DOMAIN text /\ cs[1].at \in 0 .. Len(text[cs[1].fi])
      <4>1. 1 \in Stack /\ 1 \in 1 .. Len(cs) /\ Open(1) = cs[1].fi
          BY <1>1, <1>2 DEF Open
      <4> QED BY <4>1, StackTyped DEF IInv, TypeInv, FilesTyped
    <3> QED BY <1>1, <3>1 DEF IInv, TypeInv, FilesTyped
  <2>3. projects' \in [File -> SUBSET Project]
      BY <1>1 DEF IInv, TypeInv
  <2>4. truth' \subseteq Told
      BY <1>1, <2>1 DEF IInv, TypeInv
  <2> HIDE DEF now
  <2> QED BY <1>1, <1>2, <1>5, <1>6, <2>2, <2>3, <2>4 DEF IInv, TypeInv, Touched
<1>8. TableInv' /\ IncludesInv'
    BY <1>1, <1>2, RecordedIncludes
<1>9. StackInv'
    BY <1>1, <1>3, <1>6 DEF StackInv
<1>10. FdepInv' /\ NearInv' /\ OnceInv'
    BY <1>1, <1>3, <1>6 DEF IInv, FdepInv, NearInv, OnceInv, Reset
<1>11. TouchedInv'
    BY <1>1, <1>2, <1>4, <1>6 DEF TouchedInv, Touched, Near
<1>12. PathInv'
  <2>1. Len(seen'.place) = 1 /\ seen'.place[1] = 0 /\ Len(cs') = 0
    <3>1. Len(<<0>>) = 1 /\ <<0>>[1] = 0 /\ Len(<<>>) = 0
        OBVIOUS
    <3>2. seen'.place = <<0>> /\ cs' = <<>>
        BY <1>1, <1>6
    <3> QED BY <3>1, <3>2
  <2> QED BY <1>1, <1>3, <2>1 DEF IInv, PathInv
<1>13. TruthInv'
  <2>1. /\ WorkspaceFile \notin now.read /\ now.root \in now.read
        /\ now.incs \subseteq now.read \X (now.read \cup {WorkspaceFile})
        /\ <<now.root, WorkspaceFile>> \in now.incs
        /\ \A s \in now.sites : <<s[3], s[1]>> \in now.incs
      BY <1>1, <1>2 DEF IInv, StackInv, NearInv, Near
  <2>2. truth' = truth \cup {now} /\ now.root = root
      BY <1>1
  <2> HIDE DEF now
  <2>3. compilation_unit' = {t.root : t \in truth'}
      BY <1>1, <2>2 DEF IInv, TruthInv
  <2> QED BY <2>1, <2>2, <2>3 DEF IInv, TruthInv
<1>14. ProjectsInv'
  <2> SUFFICES ASSUME NEW g \in File \ (Copied \cup {WorkspaceFile})
               PROVE  projects'[g] = {t.proj : t \in {t \in truth' : g \in t.read}}
      BY <1>1, <1>6 DEF ProjectsInv
  <2> DEFINE old == {t.proj : t \in {t \in truth : g \in t.read}}
  <2>1. {t.proj : t \in {t \in truth' : g \in t.read}}
            = old \cup (IF g \in seen.read THEN {project} ELSE {})
    <3>1. truth' = truth \cup {now} /\ now.proj = project /\ now.read = seen.read
        BY <1>1
    <3> HIDE DEF now
    <3> QED BY <3>1
  <2>2. /\ old \subseteq projects[g]
        /\ projects[g] \subseteq old \cup (IF g \in seen.read THEN {project} ELSE {})
        /\ g \in seen.read /\ (\A k \in Stack : Open(k) # g) => project \in projects[g]
      BY DEF IInv, ProjectsInv
  <2>3. projects'[g] = IF g = root THEN projects[g] \cup {project} ELSE projects[g]
      BY <1>1 DEF IInv, TypeInv
  <2>4. g # root => \A k \in Stack : Open(k) # g
      BY <1>2
  <2> HIDE DEF old
  <2> QED BY <1>2, <2>1, <2>2, <2>3, <2>4
<1> QED BY <1>7, <1>8, <1>9, <1>10, <1>11, <1>12, <1>13, <1>14 DEF IInv


-----------------------------------------------------------------------------
(* The invariant holds                                                     *)

LEMMA InitEstablishes ==
    ASSUME Init
    PROVE  IInv
<1>1. /\ text \in Program /\ WorkspaceFile \in DOMAIN text /\ Len(text[WorkspaceFile]) \in Nat
      /\ WorkspaceFile \in File /\ Unspecified \in Project
    BY WorkspaceAssumption, ProgramAssumption DEF Init
<1>2. seen \in Seen /\ Near = {WorkspaceFile}
  <2>1. <<0>> \in Seq(Nat)
      OBVIOUS
  <2> QED BY <2>1 DEF Init, Nothing, Seen, Near
<1>3. Stack = {1} /\ Open(1) = WorkspaceFile
    BY DEF Init, Stack, Open
<1>4. TypeInv
  <2>1. /\ cs \in Seq([fi : DOMAIN text, at : Nat]) /\ include_path \in Seq(Dirs)
        /\ Len(cs) = 0
      BY DEF Init
  <2>2. FilesTyped
      BY <1>1, <2>1 DEF Init, FilesTyped
  <2>3. offset \in [File -> Nat] /\ projects \in [File -> SUBSET Project]
      BY DEF Init
  <2>4. macros \in [Name -> Macro \cup {NoFile}]
      BY DEF Init
  <2>5. /\ known \subseteq File /\ readonly \subseteq File /\ project \in Project
        /\ skipped = {} /\ collected = {} /\ required = {} /\ compilation_unit = {}
        /\ finished \in BOOLEAN /\ truth = {}
      BY <1>1 DEF Init
  <2> QED BY <1>2, <2>1, <2>2, <2>3, <2>4, <2>5 DEF TypeInv
<1>5. TableInv
    BY DEF Init, TableInv
<1>6. StackInv
    BY <1>3 DEF Init, StackInv, Nothing
<1>7. FdepInv
    BY DEF Init, FdepInv, Nothing
<1>8. NearInv
    BY DEF Init, NearInv, Nothing
<1>9. TouchedInv
    BY <1>2 DEF Init, TouchedInv, Touched
<1>10. OnceInv
    BY <1>3 DEF Init, OnceInv
<1>11. PathInv
    BY <1>3 DEF Init, PathInv, Nothing
<1>12. TruthInv
    BY DEF Init, TruthInv
<1>13. IncludesInv
    BY DEF Init, IncludesInv, IncludeRight, Inclusions, Recalled, Nothing
<1>14. ProjectsInv
    BY DEF Init, ProjectsInv, Nothing
<1> QED BY <1>4, <1>5, <1>6, <1>7, <1>8, <1>9, <1>10, <1>11, <1>12, <1>13, <1>14 DEF IInv

LEMMA StutterKeeps ==
    ASSUME IInv, UNCHANGED vars
    PROVE  IInv'
<1>1. UNCHANGED <<text, fi, at, cs, root, include_path, skipped, offset, known, collected,
                  required, includes, compilation_unit, projects, readonly, fdep, project,
                  macros, finished, seen, truth>>
    BY DEF vars, files, search, table, other
<1>2. Stack' = Stack /\ \A k : Open(k)' = Open(k)
    BY <1>1 DEF Stack, Open
<1>3. TypeInv' /\ TableInv'
    BY <1>1 DEF IInv, TypeInv, FilesTyped, TableInv
<1>4. StackInv' /\ PathInv'
    BY <1>1, <1>2 DEF IInv, StackInv, PathInv
<1>5. FdepInv' /\ NearInv' /\ TouchedInv' /\ OnceInv' /\ TruthInv'
    BY <1>1, <1>2 DEF IInv, FdepInv, fdep, NearInv, Near, TouchedInv, Touched, OnceInv, TruthInv
<1>6. IncludesInv'
  <2>1. Inclusions' = Inclusions /\ Sites' = Sites
      BY <1>1 DEF Inclusions, Sites
  <2>2. ASSUME NEW f, NEW g, IncludeRight(f, g) PROVE IncludeRight(f, g)'
    <3>1. /\ (Recalled(f, g) <=> Recalled(f, g)') /\ (Wanted(f, g) <=> Wanted(f, g)')
          /\ (Complete(f) <=> Complete(f)')
        BY <1>1 DEF Recalled, Wanted, Complete, UnitsOf
    <3> QED BY <1>1, <2>1, <2>2, <3>1 DEF IncludeRight
  <2> QED BY <2>2 DEF IInv, IncludesInv
<1>7. ProjectsInv'
    BY <1>1, <1>2 DEF IInv, ProjectsInv
<1> QED BY <1>3, <1>4, <1>5, <1>6, <1>7 DEF IInv

LEMMA StepKeeps ==
    ASSUME IInv, Orderly, [Next]_vars
    PROVE  IInv'
<1>1. CASE IncludeError
    BY <1>1, IncludeErrorKeeps
<1>2. CASE IncludeOpen
    BY <1>2, IncludeOpenKeeps
<1>3. CASE IncludeSkipped
    BY <1>3, IncludeSkippedKeeps
<1>4. CASE Once
    BY <1>4, OnceKeeps
<1>5. CASE IncludePath
    BY <1>5, IncludePathKeeps
<1>6. CASE ClearInclude
    BY <1>6, ClearIncludeKeeps
<1>7. CASE ClearDefines
    BY <1>7, ClearDefinesKeeps
<1>8. CASE SetProject
    BY <1>8, SetProjectKeeps
<1>9. CASE SetReadonly
    BY <1>9, SetReadonlyKeeps
<1>10. CASE Process
    BY <1>10, ProcessKeeps
<1>11. CASE Define
    BY <1>11, DefineKeeps
<1>12. CASE Use
    BY <1>12, UseKeeps
<1>13. CASE Provide
    BY <1>13, ProvideKeeps
<1>14. CASE EndOfInclude
    BY <1>14, EndOfIncludeKeeps
<1>15. CASE EndOfUnit
    BY <1>15, EndOfUnitKeeps
<1>16. CASE EndOfWorkspace
    BY <1>16, EndOfWorkspaceKeeps
<1>17. CASE UNCHANGED vars
    BY <1>17, StutterKeeps
<1> QED BY <1>1, <1>2, <1>3, <1>4, <1>5, <1>6, <1>7, <1>8, <1>9, <1>10, <1>11, <1>12,
           <1>13, <1>14, <1>15, <1>16, <1>17 DEF Next

\* It holds in every state of an orderly workspace.
LEMMA InvariantHolds == Spec /\ []Orderly => []IInv
<1>1. Init => IInv
    BY InitEstablishes
<1>2. IInv /\ Orderly /\ [Next]_vars => IInv'
    BY StepKeeps
<1> QED BY <1>1, <1>2, PTL DEF Spec

-----------------------------------------------------------------------------
(* What it implies                                                         *)

\* What is recorded of the files, and where they are found.
LEMMA InvariantRecords ==
    ASSUME IInv, Orderly
    PROVE  RecordsExact
<1>1. RequiredExact
  <2> SUFFICES ASSUME NEW p \in DOMAIN includes, p[1] # p[2], p[2] # WorkspaceFile,
                      Complete(p[1])
               PROVE  RequiredRight(p)
      BY DEF RequiredExact
  <2>1. p = <<p[1], p[2]>> /\ p[1] \in File /\ p[2] \in File
      BY DEF IInv, TableInv
  <2>2. IncludeRight(p[1], p[2])
      BY <2>1 DEF IInv, IncludesInv
  <2>3. includes[p].required <=> Wanted(p[1], p[2])
      BY <2>1, <2>2 DEF IncludeRight
  <2> QED BY <2>3 DEF RequiredRight, Wanted, UnitsOf
<1>2. IncludesExact
  <2> SUFFICES ASSUME NEW f \in File, NEW g \in File \ {WorkspaceFile}
               PROVE  /\ Included(f, g) <=>
                            \/ <<g, f>> \in Inclusions
                            \/ f # g /\ \E t \in UnitsOf(f) : g \in t.read
                      /\ Included(f, g) =>
                            (includes[<<f, g>>].direct <=> <<g, f>> \in Inclusions)
      BY DEF IncludesExact
  <2>1. IncludeRight(f, g)
      BY DEF IInv, IncludesInv
  <2>2. Recalled(f, g) <=> \E t \in UnitsOf(f) : g \in t.read
      BY DEF Recalled, UnitsOf
  <2> QED BY <2>1, <2>2 DEF IncludeRight, Included
<1>3. ProjectsExact
    BY DEF IInv, ProjectsInv, ProjectsExact
<1>4. NextGoesOn
  <2> SUFFICES ASSUME Reads("include"), Line.next, Here > 0, Candidates # {},
                      fi \notin seen.skips
               PROVE  AfterHere
      BY DEF NextGoesOn
  <2>1. /\ Len(cs) + 1 \in Stack /\ Open(Len(cs) + 1) = fi
        /\ Here = seen.place[Len(cs) + 1]
      BY StackTyped DEF IInv, PathInv, Here
  <2>2. offset[fi] = Here - 1 /\ Here \in DOMAIN include_path
      BY <2>1 DEF IInv, PathInv
  <2>3. Here \in Nat /\ Len(include_path) \in Nat
        /\ DOMAIN include_path = 1 .. Len(include_path)
      BY <2>2 DEF IInv, TypeInv
  <2>4. /\ Found \in Candidates /\ Found \in 0 .. Len(include_path)
        /\ \A j \in Candidates : Found <= j
      BY FoundTyped DEF IInv
  <2>5. Candidates = {i \in Here + 1 .. Len(include_path) :
                            Exists(<<include_path[i], Line.name>>)}
      BY <2>2, <2>3 DEF Candidates
  <2>6. Found > Here /\ Found <= Len(include_path)
      BY <2>3, <2>4, <2>5
  <2>7. ASSUME NEW i \in Here + 1 .. Found - 1, Exists(<<include_path[i], Line.name>>)
        PROVE  FALSE
    <3>1. i \in Here + 1 .. Len(include_path) /\ ~(Found <= i)
        BY <2>3, <2>4, <2>6
    <3> QED BY <2>4, <2>5, <2>7, <3>1
  <2> QED BY <2>6, <2>7 DEF AfterHere
<1>5. OnlyOnce
    BY DEF IInv, OnceInv, OnlyOnce
<1> QED BY <1>1, <1>2, <1>3, <1>4, <1>5 DEF RecordsExact

\* What is reported of a unit's lines.
LEMMA InvariantWarns ==
    ASSUME IInv
    PROVE  WarningsExact
<1> SUFFICES ASSUME Idle, NEW f \in File, Reported(f), Complete(f),
                    NEW line \in 1 .. Len(text[f])
             PROVE  LET there == {s[3] : s \in {s \in Sites : s[1] = f /\ s[2] = line}}
                    IN  Unused(f, line) <=>
                            /\ there # {}
                            /\ \A t \in UnitsOf(f) : there \cap t.read \cap t.needed = {}
    BY DEF WarningsExact
<1> DEFINE there == {s[3] : s \in {s \in Sites : s[1] = f /\ s[2] = line}}
<1>1. /\ f # WorkspaceFile /\ f \in compilation_unit /\ line \in Nat
      /\ Cardinality({a \in File : Included(a, f)}) <= 1
    BY DEF Reported
\* The workspace definition file includes the unit, so that no other file does.
<1>2. ~Included(f, f)
  <2>1. PICK t \in truth : t.root = f
      BY <1>1 DEF IInv, TruthInv
  <2>2. <<f, WorkspaceFile>> \in Inclusions
      BY <2>1 DEF IInv, TruthInv, Inclusions
  <2>3. WorkspaceFile \in File /\ Included(WorkspaceFile, f)
      BY <1>1, <2>2, WorkspaceAssumption DEF IInv, IncludesInv, IncludeRight, Included
  <2> DEFINE S == {a \in File : Included(a, f)}
  <2>4. IsFiniteSet(S) /\ Cardinality(S) \in Nat
      BY WorkspaceAssumption, FS_Subset, FS_CardinalityType
  <2> SUFFICES ASSUME Included(f, f) PROVE FALSE
      OBVIOUS
  <2>5. f \in S /\ WorkspaceFile \in S
      BY <2>3
  <2>6. Cardinality(S) <= 1
      BY <1>1
  <2> HIDE DEF S
  <2>7. Cardinality(S) = 1
      BY <2>4, <2>5, <2>6, FS_EmptySet
  <2>8. \E x : S = {x}
      BY <2>4, <2>7, FS_Singleton
  <2> QED BY <1>1, <2>5, <2>8
\* The files that the line included are those the table has.
<1>3. Sites \subseteq File \X Nat \X File /\ \A s \in Sites : s[3] # WorkspaceFile
  <2>1. \A s \in Sites : s \in File \X Nat \X File
    <3> SUFFICES ASSUME NEW s \in Sites PROVE s \in File \X Nat \X File
        OBVIOUS
    <3>1. CASE s \in seen.sites
        BY <3>1 DEF IInv, TypeInv, Seen
    <3>2. CASE \E t \in truth : s \in t.sites
        BY <3>2 DEF IInv, TypeInv, Told
    <3> QED BY <3>1, <3>2 DEF Sites
  <2>2. \A r \in Inclusions : r[1] # WorkspaceFile
    <3> SUFFICES ASSUME NEW r \in Inclusions PROVE r[1] # WorkspaceFile
        OBVIOUS
    <3>1. CASE r \in seen.incs
        BY <3>1 DEF IInv, NearInv, StackInv
    <3>2. CASE \E t \in truth : r \in t.incs
        BY <3>2 DEF IInv, TruthInv
    <3> QED BY <3>1, <3>2 DEF Inclusions
  <2>3. ASSUME NEW s \in Sites PROVE s[3] # WorkspaceFile
    <3>1. <<s[3], s[1]>> \in Inclusions
        BY SitesInclude DEF IInv
    <3>2. <<s[3], s[1]>>[1] = s[3]
        OBVIOUS
    <3> QED BY <2>2, <3>1, <3>2
  <2> QED BY <2>1, <2>3
<1>4. \A g \in File : g \in there <=> <<f, line, g>> \in Sites
  <2>1. \A s \in Sites : s = <<s[1], s[2], s[3]>>
      BY <1>3
  <2> QED BY <2>1
<1>5. there \subseteq File \ {WorkspaceFile}
    BY <1>3
<1> HIDE DEF there
<1>6. \A g \in File \ {WorkspaceFile} : g \in At(f, line) <=> g \in there
  <2> SUFFICES ASSUME NEW g \in File \ {WorkspaceFile}
               PROVE  g \in At(f, line) <=> g \in there
      OBVIOUS
  <2>1. IncludeRight(f, g)
      BY DEF IInv, IncludesInv
  <2>2. <<f, line, g>> \in Sites => <<g, f>> \in Inclusions
    <3>1. <<f, line, g>>[3] = g /\ <<f, line, g>>[1] = f
        OBVIOUS
    <3> QED BY <3>1, SitesInclude DEF IInv
  <2>3. g \in At(f, line) <=> Included(f, g) /\ includes[<<f, g>>].direct
                                /\ line \in includes[<<f, g>>].lines
      BY DEF At
  <2> QED BY <1>1, <1>4, <2>1, <2>2, <2>3 DEF IncludeRight, Included
<1>7. At(f, line) = there
  <2>1. WorkspaceFile \notin At(f, line)
      BY DEF IInv, TableInv, At, Included
  <2>2. At(f, line) \subseteq File
      BY DEF At
  <2> QED BY <1>5, <1>6, <2>1, <2>2
\* One of them is required exactly when some unit needed it.
<1>8. ASSUME NEW g \in there
      PROVE  includes[<<f, g>>].required
                <=> \E t \in UnitsOf(f) : g \in t.read \cap t.needed
  <2>1. g \in File \ {WorkspaceFile} /\ g \in At(f, line)
      BY <1>5, <1>7
  <2>2. <<f, g>> \in DOMAIN includes /\ f # g
      BY <1>2, <2>1 DEF At, Included
  <2>3. includes[<<f, g>>].required <=> Wanted(f, g)
      BY <2>1, <2>2 DEF IInv, IncludesInv, IncludeRight
  <2> QED BY <2>3 DEF Wanted, UnitsOf
<1>9. Unused(f, line) <=>
            there # {} /\ \A t \in UnitsOf(f) : there \cap t.read \cap t.needed = {}
    BY <1>7, <1>8 DEF Unused
<1> QED BY <1>9 DEF there

\* In every state of a workspace of the form csmake writes, with any number of
\* units for a command, between units: the table of includes says which files each
\* file included and, unless its marking was cut short, which of them it required;
\* the attributes of a file name the projects whose units read it; and the search
\* for a file and #pragma once pick what they should: pdtoken.cpp's process_include
\* and process_pragma, filedetails.cpp's set_includes and engine.cpp's
\* garbage_collect.
THEOREM RecordsAreExact == Spec /\ []Orderly => []RecordsExact
<1>1. IInv /\ Orderly => RecordsExact
    BY InvariantRecords
<1> QED BY <1>1, InvariantHolds, PTL

\* In every such state warning_report reports a line of a unit whose marking was
\* not cut short as including nothing needed exactly when none of the files it
\* included was ever needed by a definition or a macro.
THEOREM WarningsAreExact == Spec /\ []Orderly => []WarningsExact
<1>1. IInv => WarningsExact
    BY InvariantWarns
<1> QED BY <1>1, InvariantHolds, PTL

=============================================================================
