-------------------------------- MODULE Tuner --------------------------------
(***************************************************************************)
(* The tuner of the products with a quantized matrix.                      *)
(*                                                                         *)
(* The first product of a shape on a GPU times the variants of its kernel  *)
(* and keeps the fastest one, in memory and in a file, the sidecar, that   *)
(* the next processes read (~/.helios/tune.cache).  The file has sections, *)
(* each one a header with the name of a GPU and the decisions made on it.  *)
(***************************************************************************)
EXTENDS Integers, Sequences

CONSTANTS
  DeviceNames,  \* device -> the words of the name of its GPU
  Shapes,       \* what is multiplied: <<format, K, N>>
  MaxProcesses  \* starts of the program

VARIABLES
  sidecar,      \* the lines of the file
  process,      \* the tables of the running process
  processes,    \* how many there have been
  first         \* GPU and shape -> the first decision

tuner == <<sidecar, process, processes, first>>

Devices == DOMAIN DeviceNames

\* Said for the provers: the words are strings, and a name has some.
ASSUME DevicesAssumption ==
  \A d \in Devices : DeviceNames[d] \in Seq(STRING) /\ DeviceNames[d] # <<>>

Wide == {"hq44k", "hq8k"}

\* Warps per row, rows per block, superblocks per turn.
Variants(f) ==
  CASE f \in Wide -> <<<<1, 8, 4>>, <<2, 8, 2>>, <<2, 4, 2>>, <<4, 2, 2>>>>
    [] f = "hq31k" -> <<<<4, 4, 1>>, <<2, 8, 1>>, <<4, 1, 1>>>>
    [] OTHER -> <<<<1, 4, 1>>, <<2, 8, 1>>, <<2, 4, 1>>>>
Letters(shape) == DOMAIN Variants(shape[1])

\* hq31k has a table of its own and no sidecar.
Persistent(shape) == shape[1] # "hq31k"

NoName == <<>>
Fresh(nocache) == [nocache |-> nocache, loaded |-> {}, path |-> FALSE, tail |-> NoName, cache |-> <<>>]

Header(name) == [gpu |-> name, shape |-> <<>>, choice |-> 0]
Decision(shape, choice) == [gpu |-> NoName, shape |-> shape, choice |-> choice]

Known(table, key, choice) == [k \in DOMAIN table \cup {key} |-> IF k = key THEN choice ELSE table[k]]
-----------------------------------------------------------------------------
(* tune_sidecar_load_once.                                                  *)

\* strstr(line, device).
IsSectionOf(header, name) == \E i \in 0 .. Len(header) - Len(name) : SubSeq(header, i + 1, i + Len(name)) = name

LastOf(S) == CHOOSE i \in S : \A j \in S : j <= i

\* The GPU in whose section a line is.
Headers(lines, i) == {j \in 1 .. i : lines[j].gpu # NoName}
Section(lines, i) == IF Headers(lines, i) = {} THEN NoName ELSE lines[LastOf(Headers(lines, i))].gpu

\* The lines a device takes: a letter beyond the variants of its format is skipped.
LinesFor(d) ==
  {i \in DOMAIN sidecar :
     /\ sidecar[i].gpu = NoName /\ IsSectionOf(Section(sidecar, i), DeviceNames[d])
     /\ sidecar[i].choice \in Letters(sidecar[i].shape)}
LinesForShape(d, shape) == {i \in LinesFor(d) : sidecar[i].shape = shape}

\* The last decision of a shape counts.
ReadInto(cache, d) ==
  [e \in DOMAIN cache \cup {<<d, sidecar[i].shape>> : i \in LinesFor(d)} |->
     IF e[1] = d /\ LinesForShape(d, e[2]) # {} THEN sidecar[LastOf(LinesForShape(d, e[2]))].choice ELSE cache[e]]

\* Once per device.
Loaded(d) ==
  IF d \in process.loaded THEN process
  ELSE [nocache |-> process.nocache, loaded |-> process.loaded \cup {d},
        path |-> ~process.nocache,
        tail |-> IF process.nocache \/ sidecar = <<>> THEN process.tail ELSE Section(sidecar, Len(sidecar)),
        cache |-> IF process.nocache THEN process.cache ELSE ReadInto(process.cache, d)]
-----------------------------------------------------------------------------
\* Mutant of Appended: the header is written once per process.
Appended_OneHeader(p, d, shape, choice) ==
  IF p.tail # NoName THEN Append(sidecar, Decision(shape, choice))
  ELSE Append(Append(sidecar, Header(DeviceNames[d])), Decision(shape, choice))

\* tune_sidecar_append: a header when the last section is another GPU's.
Appended(p, d, shape, choice) ==
  IF p.tail = DeviceNames[d] THEN Append(sidecar, Decision(shape, choice))
  ELSE Append(Append(sidecar, Header(DeviceNames[d])), Decision(shape, choice))

\* The tables when a product of a shape looks for its variant.
Consulted(d, shape) == IF Persistent(shape) THEN Loaded(d) ELSE process

\* The decision is in memory.
Recall(d, shape, choice) ==
  LET p == Consulted(d, shape) IN
    /\ <<d, shape>> \in DOMAIN p.cache /\ choice = p.cache[<<d, shape>>]
    /\ process' = p
    /\ UNCHANGED sidecar

\* The variants are timed, and any of them may be the fastest.
Time(d, shape, choice) ==
  LET p == Consulted(d, shape)
      saved == Persistent(shape) /\ p.path
  IN  /\ <<d, shape>> \notin DOMAIN p.cache /\ choice \in Letters(shape)
      /\ process' = [nocache |-> p.nocache, loaded |-> p.loaded, path |-> p.path,
                     tail |-> IF saved THEN DeviceNames[d] ELSE p.tail,
                     cache |-> Known(p.cache, <<d, shape>>, choice)]
      /\ sidecar' = IF saved THEN Appended(p, d, shape, choice) ELSE sidecar

Tune(d, shape, choice) ==
  /\ Recall(d, shape, choice) \/ Time(d, shape, choice)
  /\ LET key == <<DeviceNames[d], shape>> IN
       first' = IF process.nocache \/ ~Persistent(shape) \/ key \in DOMAIN first THEN first
                ELSE Known(first, key, choice)
  /\ UNCHANGED processes

\* Another start, with HELIOS_TUNE_NOCACHE or without it; the user may have
\* removed the sidecar, which forgets the decisions.
StartAgain(nocache, removed) ==
  /\ processes < MaxProcesses
  /\ processes' = processes + 1
  /\ process' = Fresh(nocache)
  /\ sidecar' = IF removed THEN <<>> ELSE sidecar
  /\ first' = IF removed THEN <<>> ELSE first

TunerInit == sidecar = <<>> /\ process = Fresh(FALSE) /\ processes = 1 /\ first = <<>>

TunerNext ==
  \/ \E d \in Devices, shape \in Shapes : \E choice \in Letters(shape) : Tune(d, shape, choice)
  \/ \E nocache, removed \in BOOLEAN : StartAgain(nocache, removed)

TunerSpec == TunerInit /\ [][TunerNext]_tuner
-----------------------------------------------------------------------------
\* No GPU is called like a part of another one.
NamesApart == \A d, e \in Devices : IsSectionOf(DeviceNames[e], DeviceNames[d]) => d = e

(* The first decision for a shape on a GPU is the one every later process     *)
(* takes, until the sidecar is removed, also with another GPU tuning beside it.  *)
TuneDecisionsPersist ==
  ~process.nocache =>
    \A e \in DOMAIN process.cache :
      <<DeviceNames[e[1]], e[2]>> \in DOMAIN first => process.cache[e] = first[<<DeviceNames[e[1]], e[2]>>]
=============================================================================
