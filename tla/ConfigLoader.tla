---------------------------- MODULE ConfigLoader ----------------------------
(***************************************************************************)
(* lib/config_loader.c: a struct server_config from config_new to          *)
(* config_free, loaded from files and from the environment in any order.   *)
(* One thread uses a configuration.  A call that loads is taken setting by *)
(* setting, for each of its strings may fail to be copied.                 *)
(***************************************************************************)
EXTENDS Integers, SequencesExt

CONSTANTS
  Text,         \* the values of strings; "" is the empty one
  File,         \* what config files may hold
  Environment,  \* what the environment may hold
  MaxCalls,     \* bound: how many times a configuration is loaded
  AllocMayFail

IntSetting == {"port", "thread_num", "timeout", "max_connections", "log_level",
               "buffer_size", "keep_alive_timeout", "max_request_size"}
StringSetting == {"host", "log_file"}
Setting == IntSetting \cup StringSetting

\* A value as it is written, without its quotes if it has any, and what atoi
\* makes of that: 0 of what is no number.
Value == [raw: Text, text: Text, number: Int]

\* What fgets reads in one go: a line, or, if that is longer than its buffer, its
\* beginning, and then the rest.  Keys and values are trimmed; blank lines,
\* comments, and lines without a colon or with an unknown key name "other".
Piece == [key: Setting \cup {"other"}, value: Value, rest: BOOLEAN]
\* What a variable says that is not set.
Nothing == [key |-> "nothing"]

ASSUME ConfigAssumption ==
  /\ "" \in Text
  /\ {"0.0.0.0", "x-net.log"} \subseteq Text
  /\ File \subseteq Seq(Piece)
  /\ \A env \in Environment : DOMAIN env \subseteq Setting \ {"keep_alive_timeout",
                                                             "max_request_size"}
  /\ \A env \in Environment : \A s \in DOMAIN env : env[s] \in Value
  /\ MaxCalls \in Nat
  /\ AllocMayFail \in BOOLEAN

VARIABLES
  config,    \* the integers of *config
  strings,   \* its strings: strings[s] = [block, text], block 0 being NULL
  heap,      \* the blocks allocated for strings and not freed
  todo,      \* what the call in progress has still to assign
  pc,        \* "none" without a configuration, "idle", or "loading"
  calls      \* history: what was loaded, one after the other

vars == <<config, strings, heap, todo, pc, calls>>

\* What may be allocated: no more than there are strings.
Block == 1 .. Cardinality(StringSetting)
NULL == [block |-> 0, text |-> ""]

DefaultInt ==
  [port |-> 3000, thread_num |-> 4, timeout |-> 30, max_connections |-> 1024,
   log_level |-> 1, buffer_size |-> 65535, keep_alive_timeout |-> 60,
   max_request_size |-> 10485760]
DefaultText == [host |-> "0.0.0.0", log_file |-> "x-net.log"]

Init ==
  /\ config = DefaultInt
  /\ strings = [s \in StringSetting |-> NULL]
  /\ heap = {}
  /\ todo = <<>>
  /\ pc = "none"
  /\ calls = <<>>
-----------------------------------------------------------------------------
\* What strdup(text) may return while the blocks in use are in use.
strdup(text, used) ==
  {[block |-> CHOOSE b \in 1 .. Cardinality(used) + 1 : b \notin used,
    text |-> text]}
  \cup {p \in {NULL} : AllocMayFail}

\* If a string is missing, all is freed again and the caller gets NULL.
config_new ==
  /\ pc = "none"
  /\ config' = DefaultInt
  /\ \E host \in strdup(DefaultText.host, {}) :
     \E log_file \in strdup(DefaultText.log_file, {host.block}) :
       \/ /\ NULL \notin {host, log_file}
          /\ strings' = [host |-> host, log_file |-> log_file]
          /\ heap' = {host.block, log_file.block}
          /\ pc' = "idle"
       \/ /\ NULL \in {host, log_file}
          /\ UNCHANGED <<strings, heap, pc>>
  /\ UNCHANGED <<todo, calls>>

\* Slip: the old string is not freed.
Assign_Leaks(piece) ==
  \/ /\ piece.key \in IntSetting
     /\ config' = [config EXCEPT ![piece.key] = piece.value.number]
     /\ UNCHANGED <<strings, heap>>
  \/ /\ piece.key \in StringSetting
     /\ \E copy \in strdup(piece.value.text, heap) :
          /\ strings' = [strings EXCEPT ![piece.key] = copy]
          /\ heap' = heap \cup ({copy.block} \ {0})
     /\ UNCHANGED config
  \/ piece.key \notin Setting /\ UNCHANGED <<config, strings, heap>>

\* The old string is freed first; that strdup failed is not looked at.
Assign(piece) ==
  \/ /\ piece.key \in IntSetting
     /\ config' = [config EXCEPT ![piece.key] = piece.value.number]
     /\ UNCHANGED <<strings, heap>>
  \/ /\ piece.key \in StringSetting
     /\ LET left == heap \ {strings[piece.key].block}
        IN \E copy \in strdup(piece.value.text, left) :
             /\ strings' = [strings EXCEPT ![piece.key] = copy]
             /\ heap' = left \cup ({copy.block} \ {0})
     /\ UNCHANGED config
  \/ piece.key \notin Setting /\ UNCHANGED <<config, strings, heap>>

Load(source, assignments) ==
  /\ pc = "idle"
  /\ Len(calls) < MaxCalls
  /\ calls' = Append(calls, source)
  /\ todo' = assignments
  /\ pc' = "loading"
  /\ UNCHANGED <<config, strings, heap>>

\* Slip: a file is parsed from its end, so that the first line decides.
config_load_from_file_Backwards(file) ==
  Load([from |-> "file", says |-> file], Reverse(file))

\* parse_config_line of piece after piece; remove_quotes takes the quotes off.
\* (A file that does not open is not read and changes nothing.)
config_load_from_file(file) == Load([from |-> "file", says |-> file], file)

\* The environment has no quotes: they are part of a value.
AsItStands(value) ==
  [value EXCEPT !.text = value.raw,
                !.number = IF value.raw = value.text THEN @ ELSE 0]

EnvironmentOrder ==
  <<"port", "thread_num", "timeout", "max_connections", "host", "log_file",
    "log_level", "buffer_size">>

config_load_from_env(env) ==
  Load([from |-> "env", says |-> env],
       [i \in 1 .. Len(EnvironmentOrder) |->
          LET s == EnvironmentOrder[i]
          IN IF s \in DOMAIN env
             THEN [key |-> s, value |-> AsItStands(env[s]), rest |-> FALSE]
             ELSE Nothing])

Step ==
  /\ pc = "loading"
  /\ \/ /\ todo # <<>>
        /\ Assign(Head(todo))
        /\ todo' = Tail(todo)
        /\ UNCHANGED pc
     \/ /\ todo = <<>>
        /\ pc' = "idle"
        /\ UNCHANGED <<config, strings, heap, todo>>
  /\ UNCHANGED calls

MaxPort == 65535

\* Slip: a text that is no number passes for a port.
config_validate_PortZero ==
  /\ config.port \in 0 .. MaxPort
  /\ config.thread_num \in 0 .. 256
  /\ config.timeout >= 0
  /\ config.max_connections >= 1
  /\ strings.host # NULL /\ strings.host.text # ""
  /\ config.buffer_size >= 1024

\* Whether it returns 0.  log_file, log_level, keep_alive_timeout and
\* max_request_size are not looked at.
config_validate ==
  /\ config.port \in 1 .. MaxPort
  /\ config.thread_num \in 0 .. 256
  /\ config.timeout >= 0
  /\ config.max_connections >= 1
  /\ strings.host # NULL /\ strings.host.text # ""
  /\ config.buffer_size >= 1024

\* Slip: only the host is freed.
config_free_HostOnly ==
  /\ pc = "idle"
  /\ heap' = heap \ {strings.host.block}
  /\ strings' = [s \in StringSetting |-> NULL]
  /\ pc' = "none"
  /\ calls' = <<>>
  /\ UNCHANGED <<config, todo>>

config_free ==
  /\ pc = "idle"
  /\ heap' = heap \ {strings.host.block, strings.log_file.block}
  /\ strings' = [s \in StringSetting |-> NULL]
  /\ pc' = "none"
  /\ calls' = <<>>
  /\ UNCHANGED <<config, todo>>

Next ==
  \/ config_new
  \/ \E file \in File : config_load_from_file(file)
  \/ \E env \in Environment : config_load_from_env(env)
  \/ Step
  \/ config_free

Spec == Init /\ [][Next]_vars
-----------------------------------------------------------------------------
(* Properties                                                              *)

\* Every variable holds a value of its type, and no more is allocated than the
\* strings of one configuration.
TypeOK ==
  /\ config \in [IntSetting -> Int]
  /\ strings \in [StringSetting -> [block: Block \cup {0}, text: Text]]
  /\ heap \subseteq Block
  /\ todo \in Seq(Piece \cup {Nothing})
  /\ pc \in {"none", "idle", "loading"}
  /\ Len(calls) <= MaxCalls

\* Every string of a configuration is in a block of its own, which is allocated,
\* and nothing else is: however often a setting is given again, a copy fails,
\* or config_new gives up halfway, no string leaks, dangles or is freed twice.
StringsOwnedOnce ==
  /\ heap = {strings[s].block : s \in StringSetting} \ {0}
  /\ strings.host.block = strings.log_file.block => strings.host = NULL
  /\ pc = "none" => heap = {}

\* Where a source names a setting: the lines of a file, the environment once.
Places(source, s) ==
  IF source.from = "env" THEN {n \in {1} : s \in DOMAIN source.says}
  ELSE {n \in 1 .. Len(source.says) : source.says[n].key = s /\ ~source.says[n].rest}

\* Where all sources name it: in which of the calls, and in which place.
Given(s) == UNION {{i} \X Places(calls[i], s) : i \in 1 .. Len(calls)}

ValueAt(p, s) ==
  LET source == calls[p[1]]
  IN IF source.from = "env" THEN AsItStands(source.says[s]) ELSE source.says[p[2]].value

\* p is the last place that names s.
IsLast(p, s) ==
  /\ p \in Given(s)
  /\ \A q \in Given(s) : q[1] < p[1] \/ (q[1] = p[1] /\ q[2] <= p[2])

LinesFit ==
  \A i \in 1 .. Len(calls) :
    calls[i].from = "file" => \A n \in 1 .. Len(calls[i].says) : ~calls[i].says[n].rest

\* The last to name a setting decides it, so that the environment overrides the
\* file it is loaded after (config_loader.h) and settings nobody names keep
\* their defaults; provided that no line is longer than the buffer of fgets,
\* whose rest would be taken for a line of its own.
LatestWins ==
  pc = "idle" /\ LinesFit =>
    /\ \A s \in IntSetting :
         /\ Given(s) = {} => config[s] = DefaultInt[s]
         /\ \A p \in Given(s) : IsLast(p, s) => config[s] = ValueAt(p, s).number
    /\ \A s \in StringSetting :
         /\ Given(s) = {} => strings[s].text = DefaultText[s]
         /\ \A p \in Given(s) : IsLast(p, s) =>
              \/ strings[s].text = ValueAt(p, s).text
              \/ strings[s] = NULL /\ AllocMayFail

\* A configuration that config_validate accepts was not given, last, a text for
\* a port, a number of connections or a buffer size, nor, through the
\* environment, a number in quotes, and the copy of its host has not failed.
AcceptedIsComplete ==
  pc = "idle" /\ config_validate /\ LinesFit =>
    /\ \A s \in {"port", "max_connections", "buffer_size"} :
         \A p \in Given(s) : IsLast(p, s) => ValueAt(p, s).number # 0
    /\ strings.host.block \in heap
=============================================================================
