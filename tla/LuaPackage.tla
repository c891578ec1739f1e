----------------------------- MODULE LuaPackage -----------------------------
(***************************************************************************)
(* Modules of the Lua interpreter in the pgo lab: require, module and      *)
(* their loaders (loadlib.c), with luaL_findtable of lauxlib.c.  The       *)
(* chunks of modules run one inside the other and do what they like.       *)
(*                                                                         *)
(* The name of a module is the sequence of its parts.  Tables are numbered *)
(* in the order they are made, _G is the first.                            *)
(***************************************************************************)
EXTENDS Integers, FiniteSets, SequencesExt

CONSTANTS Names,       \* of modules
          Templates,   \* of package.path and package.cpath, 1..n
          Disks,       \* what is on the disk: see VARIABLE disk
          MaxTables, MaxDepth,   \* bounds: tables, and chunks inside one another
          Absent, True, False, Sentinel

VARIABLES
  disk,     \* [lua, c: readable files <<name, template>>; bad: those of them that
            \* do not load; open: <<file, name>>, the functions in a library;
            \* preload: the names in package.preload]
  loaded,   \* name -> its value in package.loaded
  tables,   \* of each table: field -> value
  running,  \* the chunks that run: [name, env]; the first is the program's
  libs,     \* C file -> the handle in its userdata: "none", "open" or "closed"
  starts    \* name -> how often its chunk was started since it gave false

vars == <<disk, loaded, tables, running, libs, starts>>

Global == 1
This == Last(running)
Field(i, f) == IF f \in DOMAIN tables[i] THEN tables[i][f] ELSE Absent
WithField(ts, i, f, v) ==
  [ts EXCEPT ![i] = [g \in DOMAIN ts[i] \cup {f} |-> IF g = f THEN v ELSE ts[i][g]]]
Table(i) == <<"table", i>>
IsTable(v) == v \notin {Absent, True, False, Sentinel}
Truth(v) == v \notin {Absent, False}

---------------------------------------------------------------------------
\* luaL_findtable: [tables, at], at = 0 where a field on the way is no table
RECURSIVE FindTable(_, _, _)
FindTable(ts, i, fname) ==
  LET f == Head(fname)
      v == IF f \in DOMAIN ts[i] THEN ts[i][f] ELSE Absent
  IN  IF fname = <<>> THEN [tables |-> ts, at |-> i]
      ELSE IF v = Absent
           THEN FindTable(Append(WithField(ts, i, f, Table(Len(ts) + 1)), <<>>), Len(ts) + 1, Tail(fname))
      ELSE IF ~ IsTable(v) THEN [tables |-> ts, at |-> 0]
      ELSE FindTable(ts, v[2], Tail(fname))

---------------------------------------------------------------------------
\* An error goes up to the pcall of some chunk that runs, or ends the program:
\* the chunks above are left.
Raise(chunks) == \E k \in 1..Len(chunks) : running' = SubSeq(chunks, 1, k)

\* findfile: the first template whose file can be read, or 0
FindFile(files, name) ==
  LET found == {t \in Templates : <<name, t>> \in files} IN IF found = {} THEN 0 ELSE Min(found)

\* ll_loadfunc of a C file, whose handle the registry keeps: [result, libs]
LoadFunc(file, sym) ==
  LET fails == libs[file] = "none" /\ file \in disk.bad
  IN  [result |-> IF fails THEN "ERRLIB" ELSE IF <<file, sym>> \in disk.open THEN "function" ELSE "ERRFUNC",
       libs |-> IF fails THEN libs ELSE [libs EXCEPT ![file] = "open"]]

\* What the loaders find, in their order: "function", "error" or "none"; and
\* the libraries they opened.
Result(r) == [result |-> r, libs |-> libs]
FromPreload(name) == Result(IF name \in disk.preload THEN "function" ELSE "none")
FromLua(name) ==
  LET template == FindFile(disk.lua, name)
  IN  Result(IF template = 0 THEN "none" ELSE IF <<name, template>> \in disk.bad THEN "error" ELSE "function")
FromC(name) ==
  LET template == FindFile(disk.c, name)
      r == LoadFunc(<<name, template>>, name)
  IN  IF template = 0 THEN Result("none") ELSE IF r.result = "function" THEN r ELSE [r EXCEPT !.result = "error"]
FromCRoot(name) ==
  LET root == <<Head(name)>>
      template == FindFile(disk.c, root)
      r == LoadFunc(<<root, template>>, name)
  IN  IF Len(name) = 1 \/ template = 0 THEN Result("none")
      ELSE [r EXCEPT !.result = CASE @ = "ERRLIB" -> "error" [] @ = "ERRFUNC" -> "none" [] OTHER -> @]

Loaders(name) == <<FromPreload(name), FromLua(name), FromC(name), FromCRoot(name)>>
Search(name) ==
  LET ls == Loaders(name)
      hits == {i \in DOMAIN ls : ls[i].result # "none"}
  IN  IF hits = {} THEN [ls[4] EXCEPT !.result = "error"] ELSE ls[Min(hits)]

---------------------------------------------------------------------------
\* Mutant: the mark is set only when the chunk has returned.
StartUnmarked(name) ==
  /\ UNCHANGED loaded
  /\ running' = Append(running, [name |-> name, env |-> Global])
  /\ starts' = [starts EXCEPT ![name] = @ + 1]

\* ll_require: gives what is loaded, raises an error, or starts the chunk
Start(name) ==
  /\ loaded' = [loaded EXCEPT ![name] = Sentinel]
  /\ running' = Append(running, [name |-> name, env |-> Global])
  /\ starts' = [starts EXCEPT ![name] = @ + 1]

Require(name) ==
  /\ Len(running) < MaxDepth
  /\ IF loaded[name] = Sentinel THEN Raise(running) /\ UNCHANGED <<loaded, starts, libs>>
     ELSE IF Truth(loaded[name]) THEN UNCHANGED <<running, loaded, starts, libs>>
     ELSE /\ libs' = Search(name).libs
          /\ IF Search(name).result = "function" THEN Start(name)
             ELSE Raise(running) /\ UNCHANGED <<loaded, starts>>
  /\ UNCHANGED <<disk, tables>>

\* the chunk of a module returns, and ll_require goes on
Return(v) ==
  /\ Len(running) > 1
  /\ LET n == This.name
         given == IF v # Absent THEN v ELSE IF loaded[n] = Sentinel THEN True ELSE loaded[n]
     IN  /\ loaded' = [loaded EXCEPT ![n] = given]
         /\ starts' = [starts EXCEPT ![n] = IF given = False THEN 0 ELSE @]
  /\ running' = Front(running)
  /\ UNCHANGED <<disk, tables, libs>>

Error ==
  /\ Len(running) > 1
  /\ Raise(Front(running))
  /\ UNCHANGED <<disk, loaded, tables, libs, starts>>

---------------------------------------------------------------------------
\* ll_module: the table of that name becomes the environment of the chunk
ModInit(ts, i, name) ==
  IF "_NAME" \in DOMAIN ts[i] THEN ts
  ELSE WithField(WithField(WithField(ts, i, "_M", Table(i)), i, "_NAME", name), i, "_PACKAGE", Front(name))
SeeAll(ts, i) == WithField(ts, i, "seeall", Table(Global))     \* dooptions: package.seeall

ModuleIn(ts, i, name, seeall) ==
  /\ tables' = IF seeall THEN SeeAll(ModInit(ts, i, name), i) ELSE ModInit(ts, i, name)
  /\ loaded' = [loaded EXCEPT ![name] = Table(i)]
  /\ running' = Append(Front(running), [This EXCEPT !.env = i])

Module(name, seeall) ==
  /\ LET found == FindTable(tables, Global, name)
     IN  IF IsTable(loaded[name]) THEN ModuleIn(tables, loaded[name][2], name, seeall)
         ELSE IF found.at = 0 THEN Raise(running) /\ UNCHANGED <<tables, loaded>>
         ELSE Len(found.tables) <= MaxTables /\ ModuleIn(found.tables, found.at, name, seeall)
  /\ UNCHANGED <<disk, libs, starts>>

\* The chunk sets a global of its own, which goes to its environment.
SetGlobal(f) ==
  /\ Field(This.env, f) = Absent
  /\ tables' = WithField(tables, This.env, f, True)
  /\ UNCHANGED <<disk, loaded, running, libs, starts>>

\* lua_close: gctm of every library
Close ==
  /\ running # <<>> /\ running' = <<>>
  /\ libs' = [file \in DOMAIN libs |-> IF libs[file] = "open" THEN "closed" ELSE libs[file]]
  /\ UNCHANGED <<disk, loaded, tables, starts>>

Parts == UNION {ToSet(n) : n \in Names}

\* luaopen_package, and a program that begins to run
Init ==
  /\ disk \in Disks
  /\ loaded = [n \in Names |-> Absent]
  /\ tables = <<[f \in {"_G"} |-> Table(Global)]>>
  /\ running = <<[name |-> <<>>, env |-> Global]>>
  /\ libs = [file \in disk.c |-> "none"]
  /\ starts = [n \in Names |-> 0]

Next ==
  \/ /\ running # <<>>
     /\ \/ \E n \in Names : Require(n) \/ \E seeall \in BOOLEAN : Module(n, seeall)
        \/ \E v \in {Absent, True, False, Table(This.env)} : Return(v)
        \/ \E f \in Parts : SetGlobal(f)
        \/ Error
        \/ Close
  \/ running = <<>> /\ UNCHANGED vars

Spec == Init /\ [][Next]_vars

---------------------------------------------------------------------------
\* The chunk of a module runs once, until its value is false, however modules
\* require each other, fail and try again (ll_require): also none is started
\* while it runs.
RunOnce == \A n \in Names : starts[n] <= 1

\* A module that is marked is being loaded, or its loading has failed; one that is
\* being loaded is in package.loaded (sentinel, LUA_REGISTRYINDEX _LOADED).
MarkedIsLoading ==
  /\ \A n \in Names : starts[n] = 0 => loaded[n] # Sentinel
  /\ \A i \in 2..Len(running) : Truth(loaded[running[i].name])

\* A table that is a module has a name, is its own _M, and was not renamed by
\* another module (modinit); a chunk runs in _G or in a module.
ModulesAreNamed ==
  /\ \A i \in DOMAIN tables :
       "_NAME" \in DOMAIN tables[i] =>
         /\ tables[i]["_M"] = Table(i) /\ tables[i]["_PACKAGE"] = Front(tables[i]["_NAME"])
         /\ tables[i]["_NAME"] \in Names
  /\ \A c \in ToSet(running) : c.env = Global \/ "_NAME" \in DOMAIN tables[c.env]
=============================================================================
