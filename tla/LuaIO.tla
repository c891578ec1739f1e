------------------------------- MODULE LuaIO -------------------------------
(***************************************************************************)
(* Files in the Lua interpreter of the pgo lab (liolib.c, and the loading  *)
(* of a file in lauxlib.c).  A handle is a userdata that owns a C stream   *)
(* and closes it in the way its environment says: explicitly, at the end   *)
(* of the lines of io.lines(name), or when it is collected.                *)
(***************************************************************************)
EXTENDS FiniteSets

CONSTANTS Handles,         \* those that can be made
          stdin, stdout,   \* the handles of the standard files; stderr is as they are
          Loader           \* the stream of luaL_loadfile, which no handle owns

IO_INPUT  == 1
IO_OUTPUT == 2

Std == {stdin, stdout}

VARIABLES
  os,        \* stream -> what the C library has open there: "none", "file",
             \* "process" or "std"; "undefined" after a call it does not allow
  open,      \* handles whose FILE pointer is not NULL
  env,       \* handle -> its environment, by its __close; "none" if it is no object
  default,   \* the environment of the library: the default files
  held,      \* handles that variables of the program refer to
  iterators  \* <<handle, toclose>>: the functions lines made, not yet dropped

vars == <<os, open, env, default, held, iterators>>

\* The C library.  Each of a use, a fclose and a pclose needs a stream of its kind.
Used(streams, s)   == IF streams[s] \in {"file", "process", "std"} THEN streams
                      ELSE [streams EXCEPT ![s] = "undefined"]
FClosed(streams, s) == [streams EXCEPT ![s] = IF @ = "file" THEN "none" ELSE "undefined"]
PClosed(streams, s) == [streams EXCEPT ![s] = IF @ = "process" THEN "none" ELSE "undefined"]

\* Mutant: the default close function of the library for every handle.
AlwaysFClose(h, streams) == os' = FClosed(streams, h) /\ open' = open \ {h}

\* aux_close: io_fclose, io_pclose and io_noclose
AuxClose(h, streams) ==
  CASE env[h] = "io_fclose"  -> os' = FClosed(streams, h) /\ open' = open \ {h}
    [] env[h] = "io_pclose"  -> os' = PClosed(streams, h) /\ open' = open \ {h}
    [] env[h] = "io_noclose" -> os' = streams /\ UNCHANGED open

\* newfile makes a closed handle; fopen, popen or tmpfile then may fail
NewFile(h, close, kind, opens) ==
  /\ env[h] = "none"
  /\ env' = [env EXCEPT ![h] = close]
  /\ os' = IF opens THEN [os EXCEPT ![h] = kind] ELSE os
  /\ open' = IF opens THEN open \cup {h} ELSE open

\* io_open, io_tmpfile, io_popen
Open(h, opens) ==
  /\ NewFile(h, "io_fclose", "file", opens)
  /\ held' = IF opens THEN held \cup {h} ELSE held
  /\ UNCHANGED <<default, iterators>>
POpen(h, opens) ==
  /\ NewFile(h, "io_pclose", "process", opens)
  /\ held' = IF opens THEN held \cup {h} ELSE held
  /\ UNCHANGED <<default, iterators>>

\* g_iofile with a name, with a handle (which tofile wants open), and without
IOFileNamed(f, h, opens) ==
  /\ NewFile(h, "io_fclose", "file", opens)
  /\ default' = IF opens THEN [default EXCEPT ![f] = h] ELSE default
  /\ UNCHANGED <<held, iterators>>
IOFileGiven(f, h) ==
  /\ h \in held \cap open
  /\ default' = [default EXCEPT ![f] = h]
  /\ UNCHANGED <<os, open, env, held, iterators>>
IOFile(f) == held' = held \cup {default[f]} /\ UNCHANGED <<os, open, env, default, iterators>>

\* io_close of a handle, and of the default output; tofile wants it open
Close(h) ==
  /\ h \in (held \cup {default[IO_OUTPUT]}) \cap open
  /\ AuxClose(h, os)
  /\ UNCHANGED <<env, default, held, iterators>>

\* f_lines, of a handle or the default input, and io_lines of a name
FLines(h) ==
  /\ h \in (held \cup {default[IO_INPUT]}) \cap open
  /\ iterators' = iterators \cup {<<h, FALSE>>}
  /\ UNCHANGED <<os, open, env, default, held>>
IOLines(h, opens) ==
  /\ NewFile(h, "io_fclose", "file", opens)
  /\ iterators' = IF opens THEN iterators \cup {<<h, TRUE>>} ELSE iterators
  /\ UNCHANGED <<default, held>>

\* io_readline: a closed file is an error; at the end of the file, one that the
\* function opened is closed
ReadLine(h, toclose, eof) ==
  /\ <<h, toclose>> \in iterators /\ h \in open
  /\ IF eof /\ toclose THEN AuxClose(h, Used(os, h)) ELSE os' = Used(os, h) /\ UNCHANGED open
  /\ UNCHANGED <<env, default, held, iterators>>

\* io_read and io_write of a default file, f_read, f_write, f_seek, f_setvbuf,
\* f_flush: getiofile and tofile want it open
Use(h) ==
  /\ h \in (held \cup {default[IO_INPUT], default[IO_OUTPUT]}) \cap open
  /\ os' = Used(os, h)
  /\ UNCHANGED <<open, env, default, held, iterators>>

\* The program forgets a handle or a function.
Drop(h) == held' = held \ ({h} \ Std) /\ UNCHANGED <<os, open, env, default, iterators>>
DropLines(i) == iterators' = iterators \ {i} /\ UNCHANGED <<os, open, env, default, held>>

\* io_gc, called of a handle that nothing refers to; then it is freed
Referred == held \cup {default[IO_INPUT], default[IO_OUTPUT]} \cup {i[1] : i \in iterators}
Collect(h) ==
  /\ env[h] # "none" /\ h \notin Referred
  /\ IF h \in open THEN AuxClose(h, os) ELSE UNCHANGED <<os, open>>
  /\ env' = [env EXCEPT ![h] = "none"]
  /\ UNCHANGED <<default, held, iterators>>

\* luaL_loadfile: opens the file, opens it again if it is binary (freopen closes
\* it whether or not it can), reads it, and closes it when lua_load has returned,
\* whatever that returned.  lua_load may collect garbage, whose finalizers run.
LoadOpen ==
  /\ os[Loader] = "none" /\ os' = [os EXCEPT ![Loader] = "file"]
  /\ UNCHANGED <<open, env, default, held, iterators>>
LoadReopen ==
  /\ os[Loader] # "none" /\ \E s \in {Used(os, Loader), FClosed(os, Loader)} : os' = s
  /\ UNCHANGED <<open, env, default, held, iterators>>
LoadClose ==
  /\ os[Loader] # "none" /\ os' = FClosed(Used(os, Loader), Loader)
  /\ UNCHANGED <<open, env, default, held, iterators>>

\* lua_close: every handle is finalized, in whatever order, and the state freed.
LuaClose ==
  /\ os[Loader] = "none"
  /\ os' = [s \in DOMAIN os |->
              IF s \notin open \/ env[s] = "io_noclose" THEN os[s]
              ELSE IF env[s] = "io_fclose" THEN FClosed(os, s)[s] ELSE PClosed(os, s)[s]]
  /\ open' = {} /\ env' = [h \in DOMAIN env |-> "none"]
  /\ held' = {} /\ iterators' = {} /\ UNCHANGED default
Closed == open = {} /\ held = {} /\ UNCHANGED vars

\* luaopen_io
Init ==
  /\ os = [s \in Handles \cup Std \cup {Loader} |-> IF s \in Std THEN "std" ELSE "none"]
  /\ open = Std
  /\ env = [h \in Handles \cup Std |-> IF h \in Std THEN "io_noclose" ELSE "none"]
  /\ default = [f \in {IO_INPUT, IO_OUTPUT} |-> IF f = IO_INPUT THEN stdin ELSE stdout]
  /\ held = Std /\ iterators = {}

Running == held # {}

Next ==
  \/ /\ Running
     /\ \/ \E h \in Handles, opens \in BOOLEAN :
             \/ Open(h, opens)
             \/ POpen(h, opens)
             \/ IOLines(h, opens)
             \/ \E f \in {IO_INPUT, IO_OUTPUT} : IOFileNamed(f, h, opens)
        \/ \E h \in held \cup {default[IO_INPUT], default[IO_OUTPUT]} :
             Close(h) \/ FLines(h) \/ Use(h) \/ Drop(h)
        \/ \E f \in {IO_INPUT, IO_OUTPUT} : IOFile(f) \/ \E h \in held : IOFileGiven(f, h)
        \/ \E i \in iterators : DropLines(i) \/ \E eof \in BOOLEAN : ReadLine(i[1], i[2], eof)
        \/ \E h \in Handles : Collect(h)
        \/ LoadOpen
        \/ LoadReopen
        \/ LoadClose
        \/ LuaClose
  \/ Closed

Spec == Init /\ [][Next]_vars

---------------------------------------------------------------------------
\* No stream is used or closed after it was closed, a process is closed by
\* pclose and a file by fclose, and the standard files by nobody: not by io.close,
\* a finalizer, the end of io.lines, nor two of them (aux_close, tofile, io_gc).
NothingUndefined == \A s \in DOMAIN os : os[s] # "undefined"

\* Whatever is open is closed at last: each stream is that of a handle that is
\* still to be finalized, or is being loaded (newfile, io_gc, luaL_loadfile).
OpenMeansOwned ==
  \A h \in Handles : /\ os[h] # "none" <=> h \in open
                     /\ h \in open => env[h] # "none"
=============================================================================
