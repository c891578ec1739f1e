----------------------------- MODULE MappedFile -----------------------------
(***************************************************************************)
(* The RAII wrapper labs/misc/io_opt1/MappedFile.hpp on both its           *)
(* platforms: objects that are constructed, moved and destroyed by any     *)
(* program, and the mappings and handles the operating system keeps for    *)
(* the process.  Addresses and handles are reused once they are released,  *)
(* so a stale one may come to name somebody else's resource.               *)
(***************************************************************************)
EXTENDS Naturals, FiniteSets, TLC, TLAPS

CONSTANTS
  Objects,    \* the objects a program may create
  Addresses,  \* where mappings can be placed
  Handles,    \* file descriptors, or Windows handles
  Sizes,      \* sizes of the files
  Nil        \* nullptr; no object; an invalid handle

ASSUME FileSizeAssumption == Sizes \subseteq Nat
ASSUME NilAssumption == Nil \notin Addresses \cup Handles

Members == [content : Addresses \cup {Nil}, size : Nat,
            file : Handles \cup {Nil}, mapping : Handles \cup {Nil}]

ASSUME DeadAssumption == Nil \notin Members

VARIABLES
  platform,  \* "linux" or "windows"; no step changes it
  obj,     \* the members of each live object, Nil otherwise
  mapped,  \* the length mapped at each address, 0 if none
  open     \* open handles

fileVars == <<platform, obj, mapped, open>>

FileTypeOK ==
  /\ platform \in {"linux", "windows"}
  /\ obj \in [Objects -> Members \cup {Nil}]
  /\ mapped \in [Addresses -> Nat]
  /\ open \subseteq Handles

FileInit ==
  /\ platform \in {"linux", "windows"}
  /\ obj = [o \in Objects |-> Nil]
  /\ mapped = [a \in Addresses |-> 0]
  /\ open = {}

Live(o)  == obj[o] # Nil
Owns(o)  == Live(o) /\ obj[o].content # Nil

-----------------------------------------------------------------------------
(* Construction *)

\* Linux has no handle members: they stand for nothing and are Nil.
HandleMember == IF platform = "windows" THEN Handles \cup {Nil} ELSE {Nil}

\* The handles of a default-constructed object are not initialized.
DefaultConstruct(o) ==
  /\ ~Live(o)
  /\ \E f, m \in HandleMember :
       obj' = [obj EXCEPT ![o] =
                 [content |-> Nil, size |-> 0, file |-> f, mapping |-> m]]
  /\ UNCHANGED <<mapped, open>>

\* open, fstat, mmap, close: the descriptor is closed once the file is mapped.
ConstructLinux(o) ==
  /\ platform = "linux"
  /\ ~Live(o)
  /\ \E fd \in Handles \ open, a \in Addresses, n \in Sizes \ {0} :
       /\ mapped[a] = 0
       /\ mapped' = [mapped EXCEPT ![a] = n]
       /\ obj' = [obj EXCEPT ![o] =
                    [content |-> a, size |-> n, file |-> Nil, mapping |-> Nil]]
  /\ UNCHANGED open

\* fstat or mmap fails (it does for an empty file): the exception leaves the
\* descriptor open.
FailToMapLinux(o) ==
  /\ platform = "linux"
  /\ ~Live(o)
  /\ \E fd \in Handles \ open : open' = open \cup {fd}
  /\ UNCHANGED <<obj, mapped>>

\* close fails, although it releases the descriptor: the object was never
\* constructed, so no destructor unmaps the file.
FailToCloseLinux(o) ==
  /\ platform = "linux"
  /\ ~Live(o)
  /\ \E fd \in Handles \ open, a \in Addresses, n \in Sizes \ {0} :
       /\ mapped[a] = 0
       /\ mapped' = [mapped EXCEPT ![a] = n]
  /\ UNCHANGED <<obj, open>>

\* Windows: the handles that each error path of the constructor closes before it
\* throws.  Mutant: the last one forgets the file's.
ClosedWithoutSize(f)    == {f}
ClosedWithoutMapping(f) == {f}
ClosesMappingOnly(f, m) == {m}
ClosedWithoutView(f, m) == {m, f}

\* CreateFile, CreateFileMapping, MapViewOfFile: the object keeps both handles.
ConstructWindows(o) ==
  /\ platform = "windows"
  /\ ~Live(o)
  /\ \E f, m \in Handles \ open, a \in Addresses, n \in Sizes \ {0} :
       /\ f # m
       /\ mapped[a] = 0
       /\ mapped' = [mapped EXCEPT ![a] = n]
       /\ open' = open \cup {f, m}
       /\ obj' = [obj EXCEPT ![o] =
                    [content |-> a, size |-> n, file |-> f, mapping |-> m]]

\* The constructor throws at the call that failed, with the handles that the calls
\* before it have opened: GetFileSizeEx,
FailToSizeWindows(o) ==
  /\ platform = "windows"
  /\ ~Live(o)
  /\ \E f \in Handles \ open : open' = (open \cup {f}) \ ClosedWithoutSize(f)
  /\ UNCHANGED <<obj, mapped>>

\* CreateFileMapping, which fails for an empty file,
FailToCreateMappingWindows(o) ==
  /\ platform = "windows"
  /\ ~Live(o)
  /\ \E f \in Handles \ open : open' = (open \cup {f}) \ ClosedWithoutMapping(f)
  /\ UNCHANGED <<obj, mapped>>

\* or MapViewOfFile, when there are two.
FailToViewWindows(o) ==
  /\ platform = "windows"
  /\ ~Live(o)
  /\ \E f, m \in Handles \ open :
       f # m /\ open' = (open \cup {f, m}) \ ClosedWithoutView(f, m)
  /\ UNCHANGED <<obj, mapped>>

FailWindows(o) ==
  FailToSizeWindows(o) \/ FailToCreateMappingWindows(o) \/ FailToViewWindows(o)

-----------------------------------------------------------------------------
(* Moves and destruction *)

\* Mutants: the source of a move keeps its pointer; an object is assigned to
\* itself; the members are taken over before the old mapping is released.
LeftAlone(x)     == x
Itself(o, other) == TRUE
Taken(o, other)  == obj[other]

\* What a move leaves in its source: only the pointer is reset.
MovedFrom(x) == [x EXCEPT !.content = Nil]

MoveConstruct(o, other) ==
  /\ ~Live(o)
  /\ Live(other)
  /\ obj' = [obj EXCEPT ![o] = obj[other], ![other] = MovedFrom(obj[other])]
  /\ UNCHANGED <<mapped, open>>

\* dtorImpl on an object's members: munmap, or UnmapViewOfFile and CloseHandle.
Unmapped(x) ==
  IF x.content = Nil THEN mapped ELSE [mapped EXCEPT ![x.content] = 0]
OpenWithout(x) ==
  IF x.content = Nil \/ platform = "linux" THEN open
  ELSE open \ {x.file, x.mapping}

\* this != &other, and the members dtorImpl releases.
Distinct(o, other) == o # other
Replaced(o, other) == obj[o]

MoveAssign(o, other) ==
  /\ Live(o)
  /\ Live(other)
  /\ Distinct(o, other)
  /\ mapped' = Unmapped(Replaced(o, other))
  /\ open' = OpenWithout(Replaced(o, other))
  /\ obj' = [obj EXCEPT ![o] = obj[other], ![other] = MovedFrom(obj[other])]

Destroy(o) ==
  /\ Live(o)
  /\ mapped' = Unmapped(obj[o])
  /\ open' = OpenWithout(obj[o])
  /\ obj' = [obj EXCEPT ![o] = Nil]

FileNext ==
  UNCHANGED platform /\ \E o \in Objects :
    \/ DefaultConstruct(o)
    \/ ConstructLinux(o) \/ FailToMapLinux(o) \/ FailToCloseLinux(o)
    \/ ConstructWindows(o) \/ FailWindows(o)
    \/ \E other \in Objects : MoveConstruct(o, other) \/ MoveAssign(o, other)
    \/ Destroy(o)

FileSpec == FileInit /\ [][FileNext]_fileVars

-----------------------------------------------------------------------------
(* Properties *)

\* Two objects never own one mapping, or one handle: the second destructor
\* would release a resource that is gone, or that is another object's by then.
OneOwner ==
  \A o, p \in Objects : (Owns(o) /\ Owns(p) /\ o # p) =>
    /\ obj[o].content # obj[p].content
    /\ platform = "windows" =>
         {obj[o].file, obj[o].mapping} \cap {obj[p].file, obj[p].mapping} = {}

\* What an object owns exists: getContents() denotes a mapping of exactly the
\* size it says, and the handles it will close are open.
OwnedExists ==
  \A o \in Objects : Owns(o) =>
    /\ obj[o].size > 0 /\ mapped[obj[o].content] = obj[o].size
    /\ platform = "windows" => {obj[o].file, obj[o].mapping} \subseteq open

\* A move hands the mapping over: a mapping ends only with a live owner that
\* is being destroyed or assigned to, never because its owner was moved from.
MappingsEndWithTheirOwner ==
  [][\A a \in Addresses : (mapped[a] > 0 /\ mapped'[a] # mapped[a]) =>
       \E o \in Objects :
         /\ Owns(o) /\ obj[o].content = a
         /\ obj'[o] = Nil \/ \E p \in Objects \ {o} : obj'[o] = obj[p]]_fileVars

\* "All the gnarly details of creating and destroying the mapping are taken
\* care of": every mapping and every open handle belongs to a live object.  The
\* Linux constructor breaks this when it fails.
NothingLeaks ==
  /\ \A a \in Addresses : mapped[a] > 0 =>
       \E o \in Objects : Owns(o) /\ obj[o].content = a
  /\ \A h \in open :
       \E o \in Objects : Owns(o) /\ h \in {obj[o].file, obj[o].mapping}

\* On Windows nothing leaks, whichever of the system calls of a construction fails.
WindowsKeepsNothing == platform = "windows" => NothingLeaks

---------------------------------------------------------------------------
\* For the runs: objects, addresses and handles are interchangeable.
Symmetry == Permutations(Objects) \cup Permutations(Addresses) \cup Permutations(Handles)

---------------------------------------------------------------------------
(* Proofs: ownership of mappings and handles, for any number of objects,
   addresses and handles and any sequence of constructions, moves and
   destructions. *)

USE FileSizeAssumption, NilAssumption, DeadAssumption
USE DEF Live, Owns

\* Each error path of the Windows constructor closes what was opened before it.
LEMMA FailuresCloseAll ==
  ASSUME NEW o \in Objects, FailWindows(o)
  PROVE  obj' = obj /\ mapped' = mapped /\ open' = open
<1>1. CASE FailToSizeWindows(o)
  BY <1>1 DEF FailToSizeWindows, ClosedWithoutSize
<1>2. CASE FailToCreateMappingWindows(o)
  BY <1>2 DEF FailToCreateMappingWindows, ClosedWithoutMapping
<1>3. CASE FailToViewWindows(o)
  BY <1>3 DEF FailToViewWindows, ClosedWithoutView
<1> QED
  BY <1>1, <1>2, <1>3 DEF FailWindows

\* No object is constructed and nothing is mapped.
LEMMA InitType == FileInit => FileTypeOK
  BY DEF FileInit, FileTypeOK

\* Every step keeps the types.
LEMMA NextType == FileTypeOK /\ [FileNext]_fileVars => FileTypeOK'
<1> SUFFICES ASSUME FileTypeOK, [FileNext]_fileVars PROVE FileTypeOK'
  OBVIOUS
<1> USE DEF FileTypeOK, Members
<1>0. platform' = platform
  BY DEF FileNext, fileVars
<1>1. ASSUME NEW o \in Objects, DefaultConstruct(o) PROVE FileTypeOK'
  BY <1>0, <1>1 DEF DefaultConstruct, HandleMember
<1>2. ASSUME NEW o \in Objects,
             ConstructLinux(o) \/ FailToMapLinux(o) \/ FailToCloseLinux(o)
      PROVE  FileTypeOK'
  <2>1. CASE ConstructLinux(o)
    <3>1. PICK a \in Addresses, n \in Sizes \ {0} :
            /\ mapped' = [mapped EXCEPT ![a] = n]
            /\ obj' = [obj EXCEPT ![o] = [content |-> a, size |-> n,
                                         file |-> Nil, mapping |-> Nil]]
      BY <2>1 DEF ConstructLinux
    <3>2. n \in Nat
      OBVIOUS
    <3> QED
      BY <1>0, <2>1, <3>1, <3>2 DEF ConstructLinux
  <2>2. CASE FailToMapLinux(o)
    BY <1>0, <2>2 DEF FailToMapLinux
  <2>3. CASE FailToCloseLinux(o)
    BY <1>0, <2>3 DEF FailToCloseLinux
  <2> QED
    BY <1>2, <2>1, <2>2, <2>3
<1>3. ASSUME NEW o \in Objects, ConstructWindows(o) \/ FailWindows(o)
      PROVE  FileTypeOK'
  <2>1. CASE ConstructWindows(o)
    <3>1. PICK f \in Handles, m \in Handles, a \in Addresses, n \in Sizes \ {0} :
            /\ mapped' = [mapped EXCEPT ![a] = n]
            /\ open' = open \cup {f, m}
            /\ obj' = [obj EXCEPT ![o] = [content |-> a, size |-> n,
                                         file |-> f, mapping |-> m]]
      BY <2>1 DEF ConstructWindows
    <3>2. n \in Nat
      OBVIOUS
    <3> QED
      BY <1>0, <3>1, <3>2
  <2>2. CASE FailWindows(o)
    BY <1>0, <2>2, FailuresCloseAll
  <2> QED
    BY <1>3, <2>1, <2>2
<1>4. ASSUME NEW x \in Members
      PROVE  /\ Unmapped(x) \in [Addresses -> Nat]
             /\ OpenWithout(x) \subseteq Handles
             /\ MovedFrom(x) \in Members
  BY DEF Unmapped, OpenWithout, MovedFrom
<1>5. ASSUME NEW o \in Objects, NEW p \in Objects,
             MoveConstruct(o, p) \/ MoveAssign(o, p)
      PROVE  FileTypeOK'
  BY <1>0, <1>4, <1>5 DEF MoveConstruct, MoveAssign, Replaced
<1>6. ASSUME NEW o \in Objects, Destroy(o) PROVE FileTypeOK'
  BY <1>0, <1>4, <1>6 DEF Destroy
<1>7. CASE UNCHANGED fileVars
  BY <1>7 DEF fileVars
<1> QED
  BY <1>1, <1>2, <1>3, <1>5, <1>6, <1>7 DEF FileNext

\* The members of every object, what is mapped and what is open stay typed.
THEOREM FileTypesCorrect == FileSpec => []FileTypeOK
  BY InitType, NextType, PTL DEF FileSpec

-----------------------------------------------------------------------------
(* Ownership *)

FileInv == FileTypeOK /\ OneOwner /\ OwnedExists

\* At the start nothing is owned.
LEMMA FileInitInv == FileInit => FileInv
  BY InitType DEF FileInit, FileInv, OneOwner, OwnedExists

\* Releasing what an object owns leaves what the others own alone.
LEMMA ReleaseEffect ==
  ASSUME FileInv, NEW o \in Objects, Live(o), NEW q \in Objects, q # o, Owns(q)
  PROVE  /\ Unmapped(obj[o])[obj[q].content] = mapped[obj[q].content]
         /\ platform = "windows" =>
              ({obj[q].file, obj[q].mapping} \subseteq OpenWithout(obj[o]))
<1> USE DEF FileInv, FileTypeOK, Members
<1>1. CASE obj[o].content = Nil
  BY <1>1 DEF OwnedExists, Unmapped, OpenWithout
<1>2. CASE obj[o].content # Nil
  <2>1. obj[o].content # obj[q].content
    BY <1>2 DEF OneOwner
  <2>2. platform = "windows" =>
          {obj[o].file, obj[o].mapping} \cap {obj[q].file, obj[q].mapping} = {}
    BY <1>2 DEF OneOwner
  <2>3. platform = "windows" => {obj[q].file, obj[q].mapping} \subseteq open
    BY DEF OwnedExists
  <2>4. Unmapped(obj[o])[obj[q].content] = mapped[obj[q].content]
    BY <1>2, <2>1 DEF Unmapped
  <2>5. platform = "windows" =>
          ({obj[q].file, obj[q].mapping} \subseteq OpenWithout(obj[o]))
    BY <1>2, <2>2, <2>3 DEF OpenWithout
  <2> QED
    BY <2>4, <2>5
<1> QED
  BY <1>1, <1>2

\* A construction owns a mapping of its own, or nothing.
LEMMA ConstructInv ==
  ASSUME FileInv, FileTypeOK', UNCHANGED platform, NEW o \in Objects,
         \/ DefaultConstruct(o)
         \/ ConstructLinux(o) \/ FailToMapLinux(o) \/ FailToCloseLinux(o)
         \/ ConstructWindows(o) \/ FailWindows(o)
  PROVE  OneOwner' /\ OwnedExists'
<1> USE DEF FileInv, FileTypeOK, Members
<1>1. CASE DefaultConstruct(o)
  BY <1>1 DEF DefaultConstruct, OneOwner, OwnedExists
<1>2. CASE ConstructLinux(o)
  BY <1>2 DEF ConstructLinux, OneOwner, OwnedExists
<1>3. CASE FailToMapLinux(o) \/ FailToCloseLinux(o)
  BY <1>3 DEF FailToMapLinux, FailToCloseLinux, OneOwner, OwnedExists
<1>4. CASE ConstructWindows(o)
  BY <1>4 DEF ConstructWindows, OneOwner, OwnedExists
<1>5. CASE FailWindows(o)
  BY <1>5, FailuresCloseAll DEF OneOwner, OwnedExists
<1> QED
  BY <1>1, <1>2, <1>3, <1>4, <1>5

\* A move leaves one owner.
LEMMA MoveInv ==
  ASSUME FileInv, FileTypeOK', UNCHANGED platform, NEW o \in Objects, NEW p \in Objects,
         MoveConstruct(o, p) \/ MoveAssign(o, p)
  PROVE  OneOwner' /\ OwnedExists'
<1> USE DEF FileInv, FileTypeOK, Members
<1>1. CASE MoveConstruct(o, p)
  BY <1>1 DEF MoveConstruct, MovedFrom, OneOwner, OwnedExists
<1>2. CASE MoveAssign(o, p)
  <2>1. /\ o # p /\ Live(o) /\ Live(p)
        /\ mapped' = Unmapped(obj[o]) /\ open' = OpenWithout(obj[o])
    BY <1>2 DEF MoveAssign, Replaced, Distinct
  <2>2. /\ obj'[o] = obj[p]
        /\ obj'[p].content = Nil
        /\ \A q \in Objects : (q # o /\ q # p) => obj'[q] = obj[q]
    BY <1>2, <2>1 DEF MoveAssign, MovedFrom
  <2>3. OneOwner'
    BY <2>1, <2>2 DEF OneOwner
  <2>4. ASSUME NEW q \in Objects, Owns(q)'
        PROVE  \E r \in Objects : r # o /\ Owns(r) /\ obj'[q] = obj[r]
    BY <2>1, <2>2, <2>4
  <2>5. OwnedExists'
    BY <2>1, <2>4, ReleaseEffect DEF OwnedExists
  <2> QED
    BY <2>3, <2>5
<1> QED
  BY <1>1, <1>2

\* A destruction unmaps what its object owned, and nothing else.
LEMMA DestroyInv ==
  ASSUME FileInv, FileTypeOK', UNCHANGED platform, NEW o \in Objects, Destroy(o)
  PROVE  OneOwner' /\ OwnedExists'
<1>1. /\ Live(o)
      /\ mapped' = Unmapped(obj[o]) /\ open' = OpenWithout(obj[o])
      /\ obj'[o] = Nil
      /\ \A q \in Objects : q # o => obj'[q] = obj[q]
  BY DEF Destroy, FileInv, FileTypeOK
<1>2. OneOwner'
  BY <1>1 DEF FileInv, OneOwner
<1>3. OwnedExists'
  BY <1>1, ReleaseEffect DEF FileInv, OwnedExists
<1> QED
  BY <1>2, <1>3

\* Every step keeps the inductive invariant.
LEMMA FileNextInv == FileInv /\ [FileNext]_fileVars => FileInv'
<1> SUFFICES ASSUME FileInv, [FileNext]_fileVars PROVE FileInv'
  OBVIOUS
<1>1. FileTypeOK'
  BY NextType DEF FileInv
<1>2. CASE UNCHANGED fileVars
  BY <1>1, <1>2 DEF fileVars, FileInv, OneOwner, OwnedExists
<1> QED
  BY <1>1, <1>2, ConstructInv, MoveInv, DestroyInv DEF FileNext, FileInv

\* For any files, addresses and objects, on both platforms, no mapping has two
\* owners and what an object owns exists.
THEOREM FileInvariant == FileSpec => []FileInv
  BY FileInitInv, FileNextInv, PTL DEF FileSpec

\* No mapping and no handle is ever released twice: it has one owner.
THEOREM Ownership == FileSpec => []OneOwner
<1>1. FileInv => OneOwner
  BY DEF FileInv
<1> QED
  BY FileInvariant, <1>1, PTL

\* What an object is going to release exists, with the size it is going to pass,
\* whatever was constructed, moved from, assigned to or destroyed before.
THEOREM OwnedIsThere == FileSpec => []OwnedExists
<1>1. FileInv => OwnedExists
  BY DEF FileInv
<1> QED
  BY FileInvariant, <1>1, PTL

-----------------------------------------------------------------------------
(* What ends a mapping *)

\* The owner of what ends at a: it is destroyed, or another object's members
\* replace its own.
EndedWithOwner(a) ==
  \E o \in Objects :
    /\ Owns(o) /\ obj[o].content = a
    /\ obj'[o] = Nil \/ \E p \in Objects \ {o} : obj'[o] = obj[p]

\* dtorImpl changes one address at most, the one its object points to.
LEMMA UnmappedAddress ==
  ASSUME FileTypeOK, NEW o \in Objects, Live(o),
         NEW a \in Addresses, Unmapped(obj[o])[a] # mapped[a]
  PROVE  Owns(o) /\ obj[o].content = a
  BY DEF FileTypeOK, Members, Unmapped

\* A construction places its mapping where there was none.
LEMMA ConstructKeepsMappings ==
  ASSUME FileTypeOK, NEW o \in Objects,
         \/ DefaultConstruct(o)
         \/ ConstructLinux(o) \/ FailToMapLinux(o) \/ FailToCloseLinux(o)
         \/ ConstructWindows(o) \/ FailWindows(o),
         NEW a \in Addresses, mapped[a] > 0
  PROVE  mapped'[a] = mapped[a]
<1>1. CASE DefaultConstruct(o) \/ FailToMapLinux(o) \/ FailWindows(o)
  BY <1>1, FailuresCloseAll DEF DefaultConstruct, FailToMapLinux
<1>2. CASE ConstructLinux(o) \/ FailToCloseLinux(o) \/ ConstructWindows(o)
  <2>1. PICK b \in Addresses, n \in Sizes :
          mapped[b] = 0 /\ mapped' = [mapped EXCEPT ![b] = n]
    BY <1>2 DEF ConstructLinux, FailToCloseLinux, ConstructWindows
  <2> QED
    BY <2>1 DEF FileTypeOK
<1> QED
  BY <1>1, <1>2

\* No mapping goes away under a live owner that keeps it: it ends only when its
\* owner is destroyed or takes another object's members, whoever was moved from
\* before.
THEOREM OnlyOwnersUnmap == FileSpec => MappingsEndWithTheirOwner
<1>1. ASSUME FileTypeOK, [FileNext]_fileVars, NEW a \in Addresses,
             mapped[a] > 0, mapped'[a] # mapped[a]
      PROVE  EndedWithOwner(a)
  <2>1. PICK o \in Objects :
          \/ \E p \in Objects : MoveConstruct(o, p) \/ MoveAssign(o, p)
          \/ Destroy(o)
    BY <1>1, ConstructKeepsMappings DEF FileNext, fileVars
  <2>2. ASSUME NEW p \in Objects, MoveConstruct(o, p) PROVE FALSE
    BY <1>1, <2>2 DEF MoveConstruct
  <2>3. ASSUME NEW p \in Objects, MoveAssign(o, p) PROVE EndedWithOwner(a)
    <3>1. /\ o # p /\ Live(o) /\ mapped' = Unmapped(obj[o])
          /\ obj'[o] = obj[p]
      BY <1>1, <2>3 DEF MoveAssign, Distinct, Replaced, FileTypeOK
    <3> QED
      BY <1>1, <3>1, UnmappedAddress DEF EndedWithOwner
  <2>4. CASE Destroy(o)
    <3>1. Live(o) /\ mapped' = Unmapped(obj[o]) /\ obj'[o] = Nil
      BY <1>1, <2>4 DEF Destroy, FileTypeOK
    <3> QED
      BY <1>1, <3>1, UnmappedAddress DEF EndedWithOwner
  <2> QED
    BY <2>1, <2>2, <2>3, <2>4
<1>2. FileTypeOK /\ [FileNext]_fileVars =>
        [\A a \in Addresses : (mapped[a] > 0 /\ mapped'[a] # mapped[a]) =>
           \E o \in Objects :
             /\ Owns(o) /\ obj[o].content = a
             /\ obj'[o] = Nil \/ \E p \in Objects \ {o} : obj'[o] = obj[p]]_fileVars
  BY <1>1 DEF EndedWithOwner
<1> QED
  BY <1>2, FileTypesCorrect, PTL DEF FileSpec, MappingsEndWithTheirOwner

-----------------------------------------------------------------------------
(* The Windows half leaks nothing. The Linux half does: FailToMapLinux keeps *)
(* the descriptor, FailToCloseLinux the mapping.                             *)

\* Somebody is responsible for a mapping, and for a handle.
Mapper(a) == \E o \in Objects : Owns(o) /\ obj[o].content = a
Keeper(h) == \E o \in Objects : Owns(o) /\ h \in {obj[o].file, obj[o].mapping}

\* What a release unmaps is mapped, and is owned by no other object.
LEMMA ReleasedOnly ==
  ASSUME FileInv, platform = "windows", NEW o \in Objects, Live(o)
  PROVE  /\ \A a \in Addresses : Unmapped(obj[o])[a] > 0 =>
              mapped[a] > 0 /\ (Owns(o) => obj[o].content # a)
         /\ \A h \in OpenWithout(obj[o]) :
              h \in open /\ (Owns(o) => h \notin {obj[o].file, obj[o].mapping})
  BY DEF FileInv, FileTypeOK, Members, Unmapped, OpenWithout

\* On Windows no construction, the failing ones included, leaves a mapping without an owner.
LEMMA ConstructLeaks ==
  ASSUME FileInv, NothingLeaks, platform = "windows", NEW o \in Objects,
         DefaultConstruct(o) \/ ConstructWindows(o) \/ FailWindows(o)
  PROVE  NothingLeaks'
<1> USE DEF FileInv, FileTypeOK, Members
<1>1. \A q \in Objects : Owns(q) => q # o /\ obj'[q] = obj[q]
  <2>1. ~Live(o)
    BY DEF DefaultConstruct, ConstructWindows, FailWindows, FailToSizeWindows,
           FailToCreateMappingWindows, FailToViewWindows
  <2>2. \A q \in Objects : q # o => obj'[q] = obj[q]
    BY FailuresCloseAll DEF DefaultConstruct, ConstructWindows
  <2> QED
    BY <2>1, <2>2
<1>2. /\ \A a \in Addresses : Mapper(a) => Mapper(a)'
      /\ \A h \in Handles : Keeper(h) => Keeper(h)'
  BY <1>1 DEF Mapper, Keeper
<1>3. CASE DefaultConstruct(o) \/ FailWindows(o)
  BY <1>2, <1>3, FailuresCloseAll DEF DefaultConstruct, NothingLeaks, Mapper, Keeper
<1>4. CASE ConstructWindows(o)
  <2>1. PICK f \in Handles, m \in Handles, a \in Addresses, n \in Sizes \ {0} :
          /\ mapped' = [mapped EXCEPT ![a] = n]
          /\ open' = open \cup {f, m}
          /\ obj' = [obj EXCEPT ![o] = [content |-> a, size |-> n,
                                       file |-> f, mapping |-> m]]
    BY <1>4 DEF ConstructWindows
  <2>2. Owns(o)' /\ obj'[o].content = a /\ obj'[o].file = f /\ obj'[o].mapping = m
    <3>1. [content |-> a, size |-> n, file |-> f, mapping |-> m] \in Members
      OBVIOUS
    <3> QED
      BY <2>1, <3>1
  <2>3. \A b \in Addresses : mapped'[b] > 0 => Mapper(b)'
    BY <1>2, <2>1, <2>2 DEF NothingLeaks, Mapper
  <2>4. \A h \in open' : Keeper(h)'
    BY <1>2, <2>1, <2>2 DEF NothingLeaks, Keeper
  <2> QED
    BY <2>3, <2>4 DEF NothingLeaks, Mapper, Keeper
<1> QED
  BY <1>3, <1>4

\* On Windows no move and no destruction leaves a mapping without an owner.
LEMMA ReleaseLeaks ==
  ASSUME FileInv, NothingLeaks, platform = "windows",
         NEW o \in Objects, NEW p \in Objects,
         MoveConstruct(o, p) \/ MoveAssign(o, p) \/ Destroy(o)
  PROVE  NothingLeaks'
<1> USE DEF FileInv, FileTypeOK, Members
<1>1. CASE MoveConstruct(o, p)
  <2>1. /\ o # p /\ obj'[o] = obj[p] /\ ~Owns(o)
        /\ \A q \in Objects : (q # o /\ q # p) => obj'[q] = obj[q]
    BY <1>1 DEF MoveConstruct
  <2> QED
    BY <1>1, <2>1 DEF MoveConstruct, NothingLeaks
<1>2. CASE MoveAssign(o, p)
  <2>1. /\ o # p /\ obj'[o] = obj[p] /\ Live(o)
        /\ mapped' = Unmapped(obj[o]) /\ open' = OpenWithout(obj[o])
        /\ \A q \in Objects : (q # o /\ q # p) => obj'[q] = obj[q]
    BY <1>2 DEF MoveAssign, Distinct, Replaced
  <2>2. \A q \in Objects : (q # o /\ Owns(q)) =>
          \E r \in Objects : obj'[r] = obj[q]
    BY <2>1
  <2> QED
    BY <2>1, <2>2, ReleasedOnly DEF NothingLeaks
<1>3. CASE Destroy(o)
  <2>1. /\ Live(o)
        /\ mapped' = Unmapped(obj[o]) /\ open' = OpenWithout(obj[o])
        /\ \A q \in Objects : q # o => obj'[q] = obj[q]
    BY <1>3 DEF Destroy
  <2> QED
    BY <2>1, ReleasedOnly DEF NothingLeaks
<1> QED
  BY <1>1, <1>2, <1>3

\* On Windows every mapping and every open handle belongs to a live object,
\* whichever of the three system calls of a construction fails.
THEOREM WindowsLeaksNothing == FileSpec => []WindowsKeepsNothing
<1>1. FileInit => WindowsKeepsNothing
  BY DEF FileInit, WindowsKeepsNothing, NothingLeaks
<1>2. ASSUME FileInv, WindowsKeepsNothing, [FileNext]_fileVars PROVE WindowsKeepsNothing'
  <2>1. platform' = platform
    BY <1>2 DEF FileNext, fileVars
  <2>2. CASE UNCHANGED fileVars
    BY <1>2, <2>2 DEF fileVars, WindowsKeepsNothing, NothingLeaks
  <2>3. CASE FileNext /\ platform = "windows"
    BY <1>2, <2>3, ConstructLeaks, ReleaseLeaks
       DEF FileNext, ConstructLinux, FailToMapLinux, FailToCloseLinux, WindowsKeepsNothing
  <2>4. CASE FileNext /\ platform # "windows"
    BY <2>1, <2>4 DEF WindowsKeepsNothing
  <2> QED
    BY <1>2, <2>2, <2>3, <2>4
<1> QED
  BY FileInvariant, <1>1, <1>2, PTL DEF FileSpec
=============================================================================
