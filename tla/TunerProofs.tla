----------------------------- MODULE TunerProofs -----------------------------
(***************************************************************************)
(* The decisions of the tuner last, whatever the GPUs, the products, the   *)
(* order of both and the number of starts, as long as no GPU is called     *)
(* like a part of another one.                                             *)
(*                                                                         *)
(* And the variant decided on never matters to the result: every product   *)
(* adds each weight of a row once, in an order the persistent formats      *)
(* share, and all the readers of a format see the same weights.            *)
(***************************************************************************)
EXTENDS Products, AttentionProofs, SequenceTheorems

(* The invariant.                                                           *)

Lines == {Header(DeviceNames[d]) : d \in Devices} \cup {Decision(s, c) : s \in Shapes, c \in Nat}
IsDecision(i) == sidecar[i].gpu = NoName
Here(i) == Section(sidecar, i)

\* Tables of a process.
ProcessOK(p) ==
  /\ p = [nocache |-> p.nocache, loaded |-> p.loaded, path |-> p.path, tail |-> p.tail, cache |-> p.cache]
  /\ p.nocache \in BOOLEAN /\ p.path \in BOOLEAN
  /\ p.loaded \subseteq Devices
  /\ p.path <=> ~p.nocache /\ p.loaded # {}
  /\ DOMAIN p.cache \subseteq Devices \X Shapes
  /\ \A e \in DOMAIN p.cache : p.cache[e] \in Letters(e[2])

\* The file: each line is in the section of a GPU of the computer.
FileOK ==
  /\ sidecar \in Seq(Lines)
  /\ \A i \in DOMAIN sidecar : \E d \in Devices : Here(i) = DeviceNames[d]

\* What is written is what was decided first, and all of it.
FirstOK ==
  /\ \A i \in DOMAIN sidecar : IsDecision(i) =>
       /\ <<Here(i), sidecar[i].shape>> \in DOMAIN first
       /\ sidecar[i].choice = first[<<Here(i), sidecar[i].shape>>]
       /\ sidecar[i].shape \in Shapes
       /\ sidecar[i].choice \in Letters(sidecar[i].shape)
  /\ \A k \in DOMAIN first :
       /\ k = <<k[1], k[2]>> /\ Persistent(k[2])
       /\ \E i \in DOMAIN sidecar : IsDecision(i) /\ Here(i) = k[1] /\ sidecar[i].shape = k[2]

\* A device that has read the file knows what was decided for it, and where the
\* file ends; another one has nothing that lasts.
CacheOK(p) ==
  ~p.nocache =>
    /\ p.tail = IF p.loaded = {} \/ sidecar = <<>> THEN NoName ELSE Here(Len(sidecar))
    /\ \A e \in DOMAIN p.cache : Persistent(e[2]) =>
         e[1] \in p.loaded /\ <<DeviceNames[e[1]], e[2]>> \in DOMAIN first
    /\ \A d \in p.loaded : \A s \in Shapes : <<DeviceNames[d], s>> \in DOMAIN first =>
         <<d, s>> \in DOMAIN p.cache /\ p.cache[<<d, s>>] = first[<<DeviceNames[d], s>>]

TunerInv == ProcessOK(process) /\ FileOK /\ FirstOK /\ CacheOK(process)
-----------------------------------------------------------------------------
(* The last of a set of lines.                                              *)

\* A set of line numbers that is not empty has a last one.
LEMMA LastExists ==
  ASSUME NEW n \in Nat, NEW S \in SUBSET (1 .. n), S # {}
  PROVE  LastOf(S) \in S /\ \A j \in S : j <= LastOf(S)
  <1> DEFINE R == {ss \in Nat \X Nat : ss[1] < ss[2]}
             T == {n - i : i \in S}
  <1>1. T \in SUBSET Nat /\ T # {}
    <2>1. \A i \in S : i \in Nat /\ i <= n /\ n - i \in Nat
      OBVIOUS
    <2> QED BY <2>1
  <1>2. PICK x \in T : \A y \in T : ~(<<y, x>> \in R)
    <2> HIDE DEF R, T
    <2> QED BY <1>1, NatWF, WFMin DEF R
  <1>3. PICK i \in S : x = n - i
    OBVIOUS
  <1>4. ASSUME NEW j \in S PROVE j <= i
    <2>1. n - j \in T /\ n - j \in Nat /\ n - i \in Nat /\ i \in Nat /\ j \in Nat
      OBVIOUS
    <2>2. ~(n - j < n - i)
      BY <1>2, <1>3, <2>1
    <2> QED BY <2>1, <2>2
  <1> QED BY <1>4 DEF LastOf
-----------------------------------------------------------------------------
(* Sections.                                                                *)

\* A name is a part of itself.
LEMMA ItsOwn ==
  ASSUME NEW d \in Devices
  PROVE  IsSectionOf(DeviceNames[d], DeviceNames[d])
  <1>1. PICK name : name = DeviceNames[d]
    OBVIOUS
  <1>2. name \in Seq(STRING)
    BY <1>1, DevicesAssumption
  <1>3. SubSeq(name, 1, Len(name)) = name
    BY <1>2
  <1>4. 0 \in 0 .. Len(name) - Len(name) /\ SubSeq(name, 0 + 1, 0 + Len(name)) = name
    BY <1>2, <1>3
  <1> QED BY <1>1, <1>4 DEF IsSectionOf

\* A section is read by its GPU and by no other.
LEMMA NamesDiffer ==
  ASSUME NamesApart, NEW d \in Devices, NEW e \in Devices
  PROVE  /\ IsSectionOf(DeviceNames[e], DeviceNames[d]) <=> d = e
         /\ DeviceNames[d] = DeviceNames[e] => d = e
         /\ DeviceNames[d] # NoName
  BY ItsOwn, DevicesAssumption DEF NamesApart, NoName

\* A line more leaves the others in their sections.
LEMMA SectionBefore ==
  ASSUME NEW S, NEW s \in Seq(S), NEW l \in S, NEW i \in 1 .. Len(s)
  PROVE  Section(Append(s, l), i) = Section(s, i)
  <1>1. PICK t : t = Append(s, l)
    OBVIOUS
  <1>2. \A j \in 1 .. Len(s) : t[j] = s[j]
    BY <1>1
  <1>3. Headers(t, i) = Headers(s, i) /\ Headers(s, i) \in SUBSET (1 .. i) /\ i \in Nat
    BY <1>2 DEF Headers
  <1>4. CASE Headers(s, i) = {}
    BY <1>1, <1>3, <1>4 DEF Section
  <1>5. CASE Headers(s, i) # {}
    <2>1. LastOf(Headers(s, i)) \in 1 .. Len(s)
      <3>1. LastOf(Headers(s, i)) \in Headers(s, i)
        BY <1>3, <1>5, LastExists, Zenon
      <3> QED BY <1>3, <3>1
    <2> QED BY <1>1, <1>2, <1>3, <1>5, <2>1 DEF Section
  <1> QED BY <1>4, <1>5

\* A header begins its section, another line stays in that of the one before.
LEMMA SectionAt ==
  ASSUME NEW S, NEW s \in Seq(S), NEW l \in S
  PROVE  Section(Append(s, l), Len(s) + 1) = IF l.gpu # NoName THEN l.gpu ELSE Section(s, Len(s))
  <1>1. PICK t, n : t = Append(s, l) /\ n = Len(s)
    OBVIOUS
  <1>2. n \in Nat /\ t[n + 1] = l /\ \A j \in 1 .. n : t[j] = s[j]
    BY <1>1
  <1>3. CASE l.gpu # NoName
    <2>1. n + 1 \in Headers(t, n + 1) /\ Headers(t, n + 1) \in SUBSET (1 .. n + 1)
      BY <1>2, <1>3 DEF Headers
    <2>2. LastOf(Headers(t, n + 1)) \in Headers(t, n + 1) /\ n + 1 <= LastOf(Headers(t, n + 1))
      <3>1. PICK top, found : top = n + 1 /\ found = Headers(t, n + 1)
        OBVIOUS
      <3>2. top \in Nat /\ found \in SUBSET (1 .. top) /\ found # {} /\ n + 1 \in found
        BY <1>2, <2>1, <3>1
      <3>3. LastOf(found) \in found /\ \A j \in found : j <= LastOf(found)
        BY <3>2, LastExists
      <3> QED BY <3>1, <3>2, <3>3
    <2>3. LastOf(Headers(t, n + 1)) = n + 1
      BY <1>2, <2>1, <2>2
    <2> QED BY <1>1, <1>2, <1>3, <2>1, <2>3 DEF Section
  <1>4. CASE l.gpu = NoName
    <2>1. Headers(t, n + 1) = Headers(s, n) /\ Headers(s, n) \in SUBSET (1 .. n)
      BY <1>2, <1>4 DEF Headers
    <2>2. CASE Headers(s, n) = {}
      BY <1>1, <1>4, <2>1, <2>2 DEF Section
    <2>3. CASE Headers(s, n) # {}
      <3>1. LastOf(Headers(s, n)) \in 1 .. n
        BY <1>2, <2>1, <2>3, LastExists
      <3> QED BY <1>1, <1>2, <1>4, <2>1, <2>3, <3>1 DEF Section
    <2> QED BY <2>2, <2>3
  <1> QED BY <1>3, <1>4

\* What tune_sidecar_append leaves: the lines there were, then lines of the GPU
\* of which the last one is the decision.
LEMMA Appending ==
  ASSUME FileOK, NamesApart, NEW p, NEW d \in Devices, NEW shape \in Shapes, NEW choice \in Nat,
         p.tail = IF sidecar = <<>> THEN NoName ELSE Here(Len(sidecar)),
         NEW t, t = Appended(p, d, shape, choice), NEW n, n = Len(sidecar)
  PROVE  /\ t \in Seq(Lines) /\ n \in Nat /\ Len(t) \in Nat /\ Len(t) > n
         /\ \A i \in 1 .. n : t[i] = sidecar[i] /\ Section(t, i) = Section(sidecar, i)
         /\ \A i \in n + 1 .. Len(t) : Section(t, i) = DeviceNames[d]
         /\ \A i \in n + 1 .. Len(t) - 1 : t[i] = Header(DeviceNames[d])
         /\ t[Len(t)] = Decision(shape, choice)
  <1>1. PICK h, l : h = Header(DeviceNames[d]) /\ l = Decision(shape, choice)
    OBVIOUS
  <1>2. h \in Lines /\ l \in Lines
    BY <1>1 DEF Lines
  <1>3. h.gpu = DeviceNames[d] /\ h.gpu # NoName /\ l.gpu = NoName
    BY <1>1, NamesDiffer DEF Header, Decision
  <1>4. sidecar \in Seq(Lines) /\ n \in Nat
    BY DEF FileOK
  <1>5. CASE p.tail = DeviceNames[d]
    <2>1. t = Append(sidecar, l)
      BY <1>1, <1>5 DEF Appended
    <2>2. t \in Seq(Lines) /\ Len(t) = n + 1 /\ t[n + 1] = l /\ \A i \in 1 .. n : t[i] = sidecar[i]
      BY <1>2, <1>4, <2>1
    <2>3. \A i \in 1 .. n : Section(t, i) = Section(sidecar, i)
      BY <1>2, <1>4, <2>1, SectionBefore
    <2>4. Section(t, n + 1) = Section(sidecar, n)
      BY <1>2, <1>3, <1>4, <2>1, SectionAt
    <2>5. Section(sidecar, n) = DeviceNames[d]
      BY <1>3, <1>5 DEF Here
    <2> QED BY <1>1, <1>4, <2>2, <2>3, <2>4, <2>5
  <1>6. CASE p.tail # DeviceNames[d]
    <2>1. PICK u : u = Append(sidecar, h)
      OBVIOUS
    <2>2. t = Append(u, l)
      BY <1>1, <1>6, <2>1 DEF Appended
    <2>3. u \in Seq(Lines) /\ Len(u) = n + 1 /\ u[n + 1] = h /\ \A i \in 1 .. n : u[i] = sidecar[i]
      BY <1>2, <1>4, <2>1
    <2>4. /\ t \in Seq(Lines) /\ Len(t) = n + 2 /\ t[n + 2] = l /\ t[n + 1] = h
          /\ \A i \in 1 .. n : t[i] = sidecar[i]
      BY <1>2, <1>4, <2>2, <2>3
    <2>5. \A i \in 1 .. n : Section(t, i) = Section(sidecar, i)
      <3>1. ASSUME NEW i \in 1 .. n PROVE Section(t, i) = Section(sidecar, i)
        <4>1. i \in 1 .. Len(u)
          BY <1>4, <2>3
        <4>2. Section(t, i) = Section(u, i)
          BY <1>2, <2>2, <2>3, <4>1, SectionBefore
        <4>3. Section(u, i) = Section(sidecar, i)
          BY <1>2, <1>4, <2>1, SectionBefore
        <4> QED BY <4>2, <4>3
      <3> QED BY <3>1
    <2>6. Section(u, n + 1) = DeviceNames[d]
      BY <1>2, <1>3, <1>4, <2>1, SectionAt
    <2>7. Section(t, n + 1) = DeviceNames[d]
      <3>1. n + 1 \in 1 .. Len(u)
        BY <1>4, <2>3
      <3> QED BY <1>2, <2>2, <2>3, <2>6, <3>1, SectionBefore
    <2>8. Section(t, n + 2) = DeviceNames[d]
      <3>1. Section(t, Len(u) + 1) = Section(u, Len(u))
        BY <1>2, <1>3, <2>2, <2>3, SectionAt
      <3>2. Len(u) + 1 = n + 2 /\ Len(u) = n + 1
        BY <1>4, <2>3
      <3> QED BY <2>6, <3>1, <3>2
    <2>9. \A i \in n + 1 .. Len(t) : i = n + 1 \/ i = n + 2
      BY <1>4, <2>4
    <2>10. \A i \in n + 1 .. Len(t) - 1 : i = n + 1
      BY <1>4, <2>4
    <2> QED BY <1>1, <1>4, <2>4, <2>5, <2>7, <2>8, <2>9, <2>10
  <1> QED BY <1>5, <1>6
-----------------------------------------------------------------------------
(* Reading the file.                                                        *)

\* Letters are numbers of variants.
LEMMA LettersAre ==
  ASSUME NEW shape
  PROVE  Letters(shape) \in SUBSET Nat
  BY DEF Letters, Variants, Wide

\* A decision of a GPU is taken by its device, and by no other.
LEMMA TakenLines ==
  ASSUME TunerInv, NamesApart, NEW d \in Devices
  PROVE  /\ LinesFor(d) = {i \in DOMAIN sidecar : IsDecision(i) /\ Here(i) = DeviceNames[d]}
         /\ LinesFor(d) \in SUBSET (1 .. Len(sidecar)) /\ Len(sidecar) \in Nat
  <1> USE DEF TunerInv
  <1>1. ASSUME NEW i \in DOMAIN sidecar
        PROVE  IsSectionOf(Section(sidecar, i), DeviceNames[d]) <=> Here(i) = DeviceNames[d]
    <2>1. PICK e \in Devices : Here(i) = DeviceNames[e]
      BY DEF FileOK
    <2> QED BY <2>1, NamesDiffer DEF Here
  <1>2. \A i \in DOMAIN sidecar : IsDecision(i) => sidecar[i].choice \in Letters(sidecar[i].shape)
    BY DEF FirstOK
  <1>3. sidecar \in Seq(Lines)
    BY DEF FileOK
  <1>4. LinesFor(d) = {i \in DOMAIN sidecar : IsDecision(i) /\ Here(i) = DeviceNames[d]}
    BY <1>1, <1>2 DEF LinesFor, IsDecision
  <1> QED BY <1>3, <1>4

\* What the last line taken for a shape says is what was decided first.
LEMMA TakenIsFirst ==
  ASSUME TunerInv, NamesApart, NEW d \in Devices, NEW s, LinesForShape(d, s) # {}
  PROVE  /\ <<DeviceNames[d], s>> \in DOMAIN first /\ s \in Shapes
         /\ sidecar[LastOf(LinesForShape(d, s))].choice = first[<<DeviceNames[d], s>>]
         /\ sidecar[LastOf(LinesForShape(d, s))].choice \in Letters(s)
  <1> USE DEF TunerInv
  <1>1. PICK found, n : found = LinesForShape(d, s) /\ n = Len(sidecar)
    OBVIOUS
  <1>2. found \in SUBSET (1 .. n) /\ n \in Nat /\ found # {}
    BY <1>1, TakenLines DEF LinesForShape
  <1>3. LastOf(found) \in found
    BY <1>2, LastExists
  <1>4. PICK i : i = LastOf(LinesForShape(d, s))
    OBVIOUS
  <1>5. i \in DOMAIN sidecar /\ IsDecision(i) /\ Here(i) = DeviceNames[d] /\ sidecar[i].shape = s
    BY <1>1, <1>3, <1>4, TakenLines DEF LinesForShape
  <1> QED BY <1>4, <1>5 DEF FirstOK

\* What was decided on a GPU is in a line its device takes.
LEMMA FirstIsTaken ==
  ASSUME TunerInv, NamesApart, NEW d \in Devices, NEW s, <<DeviceNames[d], s>> \in DOMAIN first
  PROVE  LinesForShape(d, s) # {} /\ <<d, s>> \in {<<d, sidecar[i].shape>> : i \in LinesFor(d)}
  <1> USE DEF TunerInv
  <1>1. PICK k : k = <<DeviceNames[d], s>>
    OBVIOUS
  <1>2. PICK i \in DOMAIN sidecar : IsDecision(i) /\ Here(i) = k[1] /\ sidecar[i].shape = k[2]
    BY <1>1 DEF FirstOK
  <1>3. i \in LinesFor(d) /\ sidecar[i].shape = s
    BY <1>1, <1>2, TakenLines
  <1> QED BY <1>3 DEF LinesForShape

\* The tables after the file is read, if it had to be, are as they should.
LEMMA LoadedOK ==
  ASSUME TunerInv, NamesApart, NEW d \in Devices, NEW p, p = Loaded(d)
  PROVE  /\ ProcessOK(p) /\ CacheOK(p)
         /\ p.nocache = process.nocache /\ d \in p.loaded
  <1> USE DEF TunerInv
  <1>1. CASE d \in process.loaded
    BY <1>1 DEF Loaded
  <1>2. CASE d \notin process.loaded /\ process.nocache
    <2>1. p = [nocache |-> process.nocache, loaded |-> process.loaded \cup {d}, path |-> ~process.nocache,
               tail |-> process.tail, cache |-> process.cache]
      BY <1>2 DEF Loaded
    <2>2. /\ p.nocache = process.nocache /\ p.loaded = process.loaded \cup {d} /\ p.path = ~process.nocache
          /\ p.tail = process.tail /\ p.cache = process.cache
      BY <2>1
    <2>3. ~p.path /\ p.path \in BOOLEAN
      BY <1>2, <2>2
    <2>4. p = [nocache |-> p.nocache, loaded |-> p.loaded, path |-> p.path, tail |-> p.tail, cache |-> p.cache]
      BY <2>1, <2>2
    <2>5. ProcessOK(p)
      BY <1>2, <2>2, <2>3, <2>4 DEF ProcessOK
    <2> QED BY <1>2, <2>2, <2>5 DEF CacheOK
  <1>3. CASE d \notin process.loaded /\ ~process.nocache
    <2>1. PICK tail : tail = IF process.nocache \/ sidecar = <<>> THEN process.tail ELSE Section(sidecar, Len(sidecar))
      OBVIOUS
    <2>2. PICK cache : cache = ReadInto(process.cache, d)
      OBVIOUS
    <2>3. p = [nocache |-> process.nocache, loaded |-> process.loaded \cup {d}, path |-> ~process.nocache,
               tail |-> tail, cache |-> cache]
      BY <1>3, <2>1, <2>2 DEF Loaded
    <2>4. /\ p.nocache = process.nocache /\ p.loaded = process.loaded \cup {d} /\ p.path = ~process.nocache
          /\ p.tail = tail /\ p.cache = cache
      BY <2>3
    <2>5. p.path /\ p.path \in BOOLEAN
      BY <1>3, <2>4
    <2>6. p = [nocache |-> p.nocache, loaded |-> p.loaded, path |-> p.path, tail |-> p.tail, cache |-> p.cache]
      BY <2>3, <2>4
    <2>7. /\ DOMAIN cache = DOMAIN process.cache \cup {<<d, sidecar[i].shape>> : i \in LinesFor(d)}
          /\ \A e \in DOMAIN cache :
               cache[e] = IF e[1] = d /\ LinesForShape(d, e[2]) # {} THEN sidecar[LastOf(LinesForShape(d, e[2]))].choice
                          ELSE process.cache[e]
      BY <2>2 DEF ReadInto
    <2>8. ASSUME NEW e \in DOMAIN cache
          PROVE  \/ e[1] = d /\ LinesForShape(d, e[2]) # {} /\ cache[e] = sidecar[LastOf(LinesForShape(d, e[2]))].choice
                      /\ e \in Devices \X Shapes
                 \/ e \in DOMAIN process.cache /\ cache[e] = process.cache[e]
      <3>1. CASE e[1] = d /\ LinesForShape(d, e[2]) # {}
        <4>1. e[2] \in Shapes
          BY <3>1, TakenIsFirst
        <4>2. e = <<d, e[2]>>
          <5>1. CASE e \in DOMAIN process.cache
            BY <3>1, <5>1 DEF ProcessOK
          <5>2. CASE e \notin DOMAIN process.cache
            BY <2>7, <5>2
          <5> QED BY <5>1, <5>2
        <4> QED BY <2>7, <3>1, <4>1, <4>2
      <3>2. CASE ~(e[1] = d /\ LinesForShape(d, e[2]) # {})
        <4>1. ASSUME NEW i \in LinesFor(d), e = <<d, sidecar[i].shape>> PROVE FALSE
          BY <3>2, <4>1 DEF LinesForShape
        <4> QED BY <2>7, <3>2, <4>1
      <3> QED BY <3>1, <3>2
    <2>9. DOMAIN cache \subseteq Devices \X Shapes /\ \A e \in DOMAIN cache : cache[e] \in Letters(e[2])
      BY <2>8, TakenIsFirst DEF ProcessOK
    <2>10. ProcessOK(p)
      BY <1>3, <2>4, <2>5, <2>6, <2>9 DEF ProcessOK
    <2>11. tail = IF sidecar = <<>> THEN NoName ELSE Here(Len(sidecar))
      BY <1>3, <2>1 DEF CacheOK, Here
    <2>12. ASSUME NEW e \in DOMAIN cache, Persistent(e[2])
           PROVE  e[1] \in p.loaded /\ <<DeviceNames[e[1]], e[2]>> \in DOMAIN first
      <3>1. CASE e[1] = d /\ LinesForShape(d, e[2]) # {}
        BY <2>4, <3>1, TakenIsFirst
      <3>2. CASE e \in DOMAIN process.cache
        BY <1>3, <2>4, <2>12, <3>2 DEF CacheOK
      <3> QED BY <2>8, <3>1, <3>2
    <2>13. ASSUME NEW c \in p.loaded, NEW s \in Shapes, <<DeviceNames[c], s>> \in DOMAIN first
           PROVE  <<c, s>> \in DOMAIN cache /\ cache[<<c, s>>] = first[<<DeviceNames[c], s>>]
      <3>1. CASE c = d
        <4>1. LinesForShape(d, s) # {} /\ <<d, s>> \in DOMAIN cache
          BY <2>7, <2>13, <3>1, FirstIsTaken
        <4>2. PICK e : e = <<d, s>>
          OBVIOUS
        <4>3. e[1] = d /\ e[2] = s /\ e \in DOMAIN cache
          BY <4>1, <4>2
        <4>4. cache[e] = sidecar[LastOf(LinesForShape(d, s))].choice
          BY <2>7, <4>1, <4>3
        <4> QED BY <3>1, <4>1, <4>2, <4>4, TakenIsFirst
      <3>2. CASE c # d
        <4>1. c \in process.loaded
          BY <2>4, <3>2
        <4>2. <<c, s>> \in DOMAIN process.cache /\ process.cache[<<c, s>>] = first[<<DeviceNames[c], s>>]
          BY <1>3, <2>13, <4>1 DEF CacheOK
        <4>3. PICK e : e = <<c, s>>
          OBVIOUS
        <4>4. e[1] # d /\ e \in DOMAIN cache
          BY <2>7, <3>2, <4>2, <4>3
        <4> QED BY <2>7, <4>2, <4>3, <4>4
      <3> QED BY <3>1, <3>2
    <2>14. p.loaded # {}
      BY <2>4
    <2>15. CacheOK(p)
      BY <2>4, <2>11, <2>12, <2>13, <2>14 DEF CacheOK
    <2> QED BY <2>4, <2>10, <2>15
  <1> QED BY <1>1, <1>2, <1>3 DEF ProcessOK
-----------------------------------------------------------------------------
(* The steps.                                                               *)

\* Before the first product nothing is read, written or decided.
LEMMA InitOK ==
  ASSUME TunerInit
  PROVE  TunerInv
  <1>1. ProcessOK(process) /\ CacheOK(process)
    BY DEF TunerInit, Fresh, ProcessOK, CacheOK, NoName
  <1>2. FileOK /\ FirstOK
    BY DEF TunerInit, FileOK, FirstOK
  <1> QED BY <1>1, <1>2 DEF TunerInv

\* The tables a product consults are as they should.
LEMMA ConsultedOK ==
  ASSUME TunerInv, NamesApart, NEW d \in Devices, NEW shape \in Shapes, NEW p, p = Consulted(d, shape)
  PROVE  /\ ProcessOK(p) /\ CacheOK(p) /\ p.nocache = process.nocache
         /\ Persistent(shape) => d \in p.loaded
  BY LoadedOK DEF TunerInv, Consulted

\* A decision that is recalled changes neither the file nor what was decided first.
LEMMA RecallStep ==
  ASSUME TunerInv, NamesApart, NEW d \in Devices, NEW shape \in Shapes, NEW choice \in Letters(shape),
         Tune(d, shape, choice), Recall(d, shape, choice)
  PROVE  TunerInv'
  <1>1. PICK p : p = Consulted(d, shape)
    OBVIOUS
  <1>2. /\ <<d, shape>> \in DOMAIN p.cache /\ process' = p /\ sidecar' = sidecar
        /\ ProcessOK(p) /\ CacheOK(p) /\ p.nocache = process.nocache
    BY <1>1, ConsultedOK DEF Recall
  <1>3. ~process.nocache /\ Persistent(shape) => <<DeviceNames[d], shape>> \in DOMAIN first
    <2>1. PICK e : e = <<d, shape>>
      OBVIOUS
    <2>2. e \in DOMAIN p.cache /\ e[1] = d /\ e[2] = shape
      BY <1>2, <2>1
    <2> QED BY <1>2, <2>2 DEF CacheOK
  <1>4. first' = first
    BY <1>3 DEF Tune
  <1>5. ProcessOK(process)' /\ FileOK'
    BY <1>2 DEF TunerInv, ProcessOK, FileOK, Here
  <1>6. FirstOK' /\ CacheOK(process)'
    BY <1>2, <1>4 DEF TunerInv, FirstOK, CacheOK, IsDecision, Here
  <1> QED BY <1>5, <1>6 DEF TunerInv

\* A decision that is not for the file is in memory only.
LEMMA TimeUnsaved ==
  ASSUME TunerInv, NamesApart, NEW d \in Devices, NEW shape \in Shapes, NEW choice \in Letters(shape),
         Tune(d, shape, choice), Time(d, shape, choice), process.nocache \/ ~Persistent(shape)
  PROVE  TunerInv'
  <1>1. PICK p : p = Consulted(d, shape)
    OBVIOUS
  <1>2. ProcessOK(p) /\ CacheOK(p) /\ p.nocache = process.nocache
    BY <1>1, ConsultedOK
  <1>3. ~(Persistent(shape) /\ p.path)
    BY <1>2 DEF ProcessOK
  <1>4. PICK cache : cache = Known(p.cache, <<d, shape>>, choice)
    OBVIOUS
  <1>5. /\ process' = [nocache |-> p.nocache, loaded |-> p.loaded, path |-> p.path, tail |-> p.tail, cache |-> cache]
        /\ sidecar' = sidecar /\ first' = first /\ <<d, shape>> \notin DOMAIN p.cache
    BY <1>1, <1>3, <1>4 DEF Time, Tune
  <1>6. PICK q : q = process'
    OBVIOUS
  <1>7. /\ q.nocache = p.nocache /\ q.loaded = p.loaded /\ q.path = p.path /\ q.tail = p.tail /\ q.cache = cache
        /\ q = [nocache |-> q.nocache, loaded |-> q.loaded, path |-> q.path, tail |-> q.tail, cache |-> q.cache]
    BY <1>5, <1>6
  <1>8. /\ DOMAIN cache = DOMAIN p.cache \cup {<<d, shape>>}
        /\ \A e \in DOMAIN cache : cache[e] = IF e = <<d, shape>> THEN choice ELSE p.cache[e]
    BY <1>4 DEF Known
  <1>9. ProcessOK(q)
    BY <1>2, <1>7, <1>8 DEF ProcessOK
  <1>10. CacheOK(q)
    BY <1>2, <1>5, <1>7, <1>8 DEF CacheOK
  <1>11. ProcessOK(process)' /\ FileOK'
    BY <1>5, <1>6, <1>9 DEF TunerInv, ProcessOK, FileOK, Here
  <1>12. FirstOK' /\ CacheOK(process)'
    BY <1>5, <1>6, <1>10 DEF TunerInv, FirstOK, CacheOK, IsDecision, Here
  <1> QED BY <1>11, <1>12 DEF TunerInv

\* A decision that is written was not known, in the file or elsewhere.
LEMMA TimeSaved ==
  ASSUME TunerInv, NamesApart, NEW d \in Devices, NEW shape \in Shapes, NEW choice \in Letters(shape),
         Tune(d, shape, choice), Time(d, shape, choice), ~process.nocache, Persistent(shape)
  PROVE  TunerInv'
  <1>1. PICK p : p = Consulted(d, shape)
    OBVIOUS
  <1>2. ProcessOK(p) /\ CacheOK(p) /\ p.nocache = process.nocache /\ d \in p.loaded /\ p.path
    BY <1>1, ConsultedOK DEF ProcessOK
  <1>3. PICK cache, key : cache = Known(p.cache, <<d, shape>>, choice) /\ key = <<DeviceNames[d], shape>>
    OBVIOUS
  <1>4. /\ process' = [nocache |-> p.nocache, loaded |-> p.loaded, path |-> p.path,
                       tail |-> DeviceNames[d], cache |-> cache]
        /\ sidecar' = Appended(p, d, shape, choice) /\ <<d, shape>> \notin DOMAIN p.cache
    BY <1>1, <1>2, <1>3 DEF Time
  <1>5. PICK q, t, f, n : q = process' /\ t = sidecar' /\ f = first' /\ n = Len(sidecar)
    OBVIOUS
  <1>6. /\ q.nocache = p.nocache /\ q.loaded = p.loaded /\ q.path = p.path /\ q.tail = DeviceNames[d]
        /\ q.cache = cache
        /\ q = [nocache |-> q.nocache, loaded |-> q.loaded, path |-> q.path, tail |-> q.tail, cache |-> q.cache]
    BY <1>4, <1>5
  <1>7. /\ DOMAIN cache = DOMAIN p.cache \cup {<<d, shape>>}
        /\ \A e \in DOMAIN cache : cache[e] = IF e = <<d, shape>> THEN choice ELSE p.cache[e]
    BY <1>3 DEF Known
  <1>8. key \notin DOMAIN first /\ key[1] = DeviceNames[d] /\ key[2] = shape /\ key = <<key[1], key[2]>>
    BY <1>2, <1>3, <1>4 DEF CacheOK
  <1>9. /\ DOMAIN f = DOMAIN first \cup {key}
        /\ \A k \in DOMAIN f : f[k] = IF k = key THEN choice ELSE first[k]
    BY <1>3, <1>5, <1>8 DEF Tune, Known
  <1>10. /\ t \in Seq(Lines) /\ n \in Nat /\ Len(t) \in Nat /\ Len(t) > n
         /\ \A i \in 1 .. n : t[i] = sidecar[i] /\ Section(t, i) = Section(sidecar, i)
         /\ \A i \in n + 1 .. Len(t) : Section(t, i) = DeviceNames[d]
         /\ \A i \in n + 1 .. Len(t) - 1 : t[i] = Header(DeviceNames[d])
         /\ t[Len(t)] = Decision(shape, choice)
    <2>1. choice \in Nat
      BY LettersAre
    <2>2. p.tail = IF sidecar = <<>> THEN NoName ELSE Here(Len(sidecar))
      BY <1>2 DEF CacheOK
    <2> QED BY <1>4, <1>5, <2>1, <2>2, Appending DEF TunerInv
  <1>11. DOMAIN sidecar = 1 .. n /\ DOMAIN t = 1 .. Len(t)
    BY <1>5, <1>10 DEF TunerInv, FileOK
  <1>12. ProcessOK(q)
    BY <1>2, <1>6, <1>7 DEF ProcessOK
  <1>13. \A i \in DOMAIN t : i \in DOMAIN sidecar \/ i \in n + 1 .. Len(t) - 1 \/ i = Len(t)
    BY <1>10, <1>11
  <1>14. FileOK'
    <2>1. \A i \in DOMAIN t : \E c \in Devices : Section(t, i) = DeviceNames[c]
      BY <1>10, <1>11, <1>13 DEF TunerInv, FileOK, Here
    <2> QED BY <1>5, <1>10, <2>1 DEF FileOK, Here
  <1>15. Header(DeviceNames[d]).gpu # NoName
    BY NamesDiffer DEF Header
  <1>16. ASSUME NEW i \in DOMAIN t, t[i].gpu = NoName
         PROVE  /\ <<Section(t, i), t[i].shape>> \in DOMAIN f
                /\ t[i].choice = f[<<Section(t, i), t[i].shape>>]
                /\ t[i].shape \in Shapes /\ t[i].choice \in Letters(t[i].shape)
    <2>1. CASE i \in DOMAIN sidecar
      <3>1. t[i] = sidecar[i] /\ Section(t, i) = Here(i) /\ IsDecision(i)
        BY <1>10, <1>11, <1>16, <2>1 DEF Here, IsDecision
      <3>2. /\ <<Here(i), sidecar[i].shape>> \in DOMAIN first
            /\ sidecar[i].choice = first[<<Here(i), sidecar[i].shape>>]
            /\ sidecar[i].shape \in Shapes
            /\ sidecar[i].choice \in Letters(sidecar[i].shape)
        BY <2>1, <3>1 DEF TunerInv, FirstOK
      <3> QED BY <1>8, <1>9, <3>1, <3>2
    <2>2. CASE i \in n + 1 .. Len(t) - 1
      BY <1>10, <1>15, <1>16, <2>2
    <2>3. CASE i = Len(t)
      <3>1. t[i].shape = shape /\ t[i].choice = choice /\ Section(t, i) = DeviceNames[d]
        BY <1>10, <2>3 DEF Decision
      <3> QED BY <1>3, <1>8, <1>9, <3>1
    <2> QED BY <1>13, <2>1, <2>2, <2>3
  <1>17. ASSUME NEW k \in DOMAIN f
         PROVE  /\ k = <<k[1], k[2]>> /\ Persistent(k[2])
                /\ \E i \in DOMAIN t : t[i].gpu = NoName /\ Section(t, i) = k[1] /\ t[i].shape = k[2]
    <2>1. CASE k = key
      <3>1. Len(t) \in DOMAIN t /\ Section(t, Len(t)) = DeviceNames[d]
        BY <1>10, <1>11
      <3>2. t[Len(t)].gpu = NoName /\ t[Len(t)].shape = shape
        BY <1>10 DEF Decision
      <3> QED BY <1>8, <2>1, <3>1, <3>2
    <2>2. CASE k \in DOMAIN first
      <3>1. PICK i \in DOMAIN sidecar : IsDecision(i) /\ Here(i) = k[1] /\ sidecar[i].shape = k[2]
        BY <2>2 DEF TunerInv, FirstOK
      <3>2. i \in DOMAIN t /\ t[i] = sidecar[i] /\ Section(t, i) = Here(i)
        BY <1>10, <1>11, <3>1 DEF Here
      <3>3. k = <<k[1], k[2]>> /\ Persistent(k[2])
        BY <2>2 DEF TunerInv, FirstOK
      <3> QED BY <3>1, <3>2, <3>3 DEF IsDecision
    <2> QED BY <1>9, <2>1, <2>2
  <1>18. FirstOK'
    BY <1>5, <1>16, <1>17 DEF FirstOK, IsDecision, Here
  <1>19. q.tail = Section(t, Len(t)) /\ t # <<>> /\ q.loaded # {}
    BY <1>2, <1>6, <1>10
  <1>20. ASSUME NEW e \in DOMAIN cache, Persistent(e[2])
         PROVE  e[1] \in q.loaded /\ <<DeviceNames[e[1]], e[2]>> \in DOMAIN f
    <2>1. CASE e = <<d, shape>>
      <3>1. e[1] = d /\ e[2] = shape
        BY <2>1
      <3> QED BY <1>2, <1>3, <1>6, <1>9, <3>1
    <2>2. CASE e \in DOMAIN p.cache
      <3>1. e[1] \in p.loaded /\ <<DeviceNames[e[1]], e[2]>> \in DOMAIN first
        BY <1>2, <1>20, <2>2 DEF CacheOK
      <3> QED BY <1>6, <1>9, <3>1
    <2> QED BY <1>7, <2>1, <2>2
  <1>21. ASSUME NEW c \in q.loaded, NEW s \in Shapes, <<DeviceNames[c], s>> \in DOMAIN f
         PROVE  <<c, s>> \in DOMAIN cache /\ cache[<<c, s>>] = f[<<DeviceNames[c], s>>]
    <2>1. CASE <<DeviceNames[c], s>> = key
      <3>1. c \in Devices
        BY <1>2, <1>6 DEF ProcessOK
      <3>2. c = d /\ s = shape
        BY <1>3, <2>1, <3>1, NamesDiffer
      <3> QED BY <1>3, <1>7, <1>9, <3>2
    <2>2. CASE <<DeviceNames[c], s>> # key
      <3>1. <<DeviceNames[c], s>> \in DOMAIN first
        BY <1>9, <1>21, <2>2
      <3>2. <<c, s>> \in DOMAIN p.cache /\ p.cache[<<c, s>>] = first[<<DeviceNames[c], s>>]
        BY <1>2, <1>6, <3>1 DEF CacheOK
      <3> QED BY <1>4, <1>7, <1>9, <1>21, <2>2, <3>2
    <2> QED BY <2>1, <2>2
  <1>22. CacheOK(process)'
    BY <1>5, <1>6, <1>19, <1>20, <1>21 DEF CacheOK, Here
  <1>23. ProcessOK(process)'
    BY <1>5, <1>12 DEF ProcessOK
  <1> QED BY <1>14, <1>18, <1>22, <1>23 DEF TunerInv

\* Another start reads nothing yet, and the file is the one there was or none.
LEMMA StartStep ==
  ASSUME TunerInv, NEW nocache \in BOOLEAN, NEW removed \in BOOLEAN, StartAgain(nocache, removed)
  PROVE  TunerInv'
  <1>1. ProcessOK(process)' /\ CacheOK(process)'
    BY DEF StartAgain, Fresh, ProcessOK, CacheOK, NoName
  <1>2. CASE removed
    <2>1. FileOK' /\ FirstOK'
      BY <1>2 DEF StartAgain, FileOK, FirstOK
    <2> QED BY <1>1, <2>1 DEF TunerInv
  <1>3. CASE ~removed
    <2>1. FileOK' /\ FirstOK'
      BY <1>3 DEF StartAgain, TunerInv, FileOK, FirstOK, IsDecision, Here
    <2> QED BY <1>1, <2>1 DEF TunerInv
  <1> QED BY <1>2, <1>3

\* Every step keeps the invariant.
LEMMA StepOK ==
  ASSUME NamesApart, TunerInv, [TunerNext]_tuner
  PROVE  TunerInv'
  <1>1. ASSUME NEW d \in Devices, NEW shape \in Shapes, NEW choice \in Letters(shape), Tune(d, shape, choice)
        PROVE  TunerInv'
    <2>1. CASE Recall(d, shape, choice)
      BY <1>1, <2>1, RecallStep
    <2>2. CASE Time(d, shape, choice)
      BY <1>1, <2>2, TimeSaved, TimeUnsaved
    <2> QED BY <1>1, <2>1, <2>2 DEF Tune
  <1>2. ASSUME NEW nocache \in BOOLEAN, NEW removed \in BOOLEAN, StartAgain(nocache, removed)
        PROVE  TunerInv'
    BY <1>2, StartStep
  <1>3. CASE UNCHANGED tuner
    BY <1>3 DEF tuner, TunerInv, ProcessOK, FileOK, FirstOK, CacheOK, IsDecision, Here
  <1> QED BY <1>1, <1>2, <1>3 DEF TunerNext

\* What is in the file of the tuner and in the tables of the process agrees with
\* the first decision for each shape on each GPU.
THEOREM TunerInvariant == NamesApart => (TunerSpec => []TunerInv)
  <1> SUFFICES ASSUME NamesApart PROVE TunerSpec => []TunerInv
    OBVIOUS
  <1>1. TunerInit => TunerInv
    BY InitOK
  <1>2. TunerInv /\ [TunerNext]_tuner => TunerInv'
    BY StepOK
  <1> QED BY <1>1, <1>2, PTL DEF TunerSpec

\* The first decision for a shape on a GPU is the one every later process takes,
\* whatever other GPU tunes beside it, when no name is a part of another one.
THEOREM DecisionsPersist == NamesApart => (TunerSpec => []TuneDecisionsPersist)
  <1> SUFFICES ASSUME NamesApart PROVE TunerSpec => []TuneDecisionsPersist
    OBVIOUS
  <1>1. TunerSpec => []TunerInv
    BY TunerInvariant
  <1>2. TunerInv => TuneDecisionsPersist
    <2> SUFFICES ASSUME TunerInv, ~process.nocache, NEW e \in DOMAIN process.cache,
                        <<DeviceNames[e[1]], e[2]>> \in DOMAIN first
                 PROVE  process.cache[e] = first[<<DeviceNames[e[1]], e[2]>>]
      BY DEF TuneDecisionsPersist
    <2>1. e \in Devices \X Shapes /\ e = <<e[1], e[2]>>
      BY DEF TunerInv, ProcessOK
    <2>2. PICK k : k = <<DeviceNames[e[1]], e[2]>>
      OBVIOUS
    <2>3. Persistent(e[2])
      <3>1. k \in DOMAIN first /\ k[2] = e[2]
        BY <2>2
      <3> QED BY <3>1 DEF TunerInv, FirstOK
    <2>4. e[1] \in process.loaded
      BY <2>3 DEF TunerInv, CacheOK
    <2> QED BY <2>1, <2>4 DEF TunerInv, CacheOK
  <1> QED BY <1>1, <1>2, PTL
-----------------------------------------------------------------------------
(* The products that consult the tuner.                                     *)

\* The shapes are those of the products that are asked for.
ShapesCover == \A r \in Requests : r.k = "product" => Key(r) \in Shapes

\* The products move the tuner as it says: each one that picks a variant is one of
\* its decisions, another start is another start, and what dequantizes, looks up or
\* multiplies experts leaves it alone.
THEOREM ProductsTune == ShapesCover => (ProductsSpec => TunerSpec)
  <1> SUFFICES ASSUME ShapesCover PROVE ProductsSpec => TunerSpec
    OBVIOUS
  <1>1. ProductsInit => TunerInit
    BY DEF ProductsInit
  <1>2. [ProductsNext]_products => [TunerNext]_tuner
    <2> SUFFICES ASSUME [ProductsNext]_products PROVE [TunerNext]_tuner
      OBVIOUS
    <2>1. ASSUME NEW d \in Devices, NEW r \in Requests, Multiply(d, r)
          PROVE  TunerNext
      <3>1. PICK choice \in Letters(Key(r)) : Tune(d, Key(r), choice)
        BY <2>1 DEF Multiply
      <3>2. Key(r) \in Shapes
        BY <2>1 DEF Multiply, ShapesCover
      <3> QED BY <3>1, <3>2 DEF TunerNext
    <2>2. ASSUME NEW r \in Requests, MultiplyDequantized(r) \/ MultiplyExperts(r) \/ DecodeBlock(r)
          PROVE  UNCHANGED tuner
      BY <2>2 DEF MultiplyDequantized, MultiplyExperts, DecodeBlock
    <2>3. ASSUME NEW nocache \in BOOLEAN, NEW removed \in BOOLEAN, Restart(nocache, removed)
          PROVE  TunerNext
      BY <2>3 DEF Restart, TunerNext
    <2>4. ASSUME ProductsNext PROVE TunerNext \/ UNCHANGED tuner
      BY <2>1, <2>2, <2>3, <2>4 DEF ProductsNext, ServeProduct
    <2>5. UNCHANGED products => UNCHANGED tuner
      BY DEF products
    <2> QED BY <2>4, <2>5
  <1> QED BY <1>1, <1>2, PTL DEF ProductsSpec, TunerSpec

\* Whatever is multiplied, looked up or restarted in between, the products of a
\* shape on a GPU run the variant that was decided first.
THEOREM ProductsKeepDecisions == NamesApart /\ ShapesCover => (ProductsSpec => []TuneDecisionsPersist)
  <1>1. NamesApart => (TunerSpec => []TuneDecisionsPersist)
    BY DecisionsPersist
  <1>2. ShapesCover => (ProductsSpec => TunerSpec)
    BY ProductsTune
  <1> QED BY <1>1, <1>2

(* The terms of a sum.                                                      *)

\* Superblocks of a row, and of a chunk.
Count(K) == CeilDiv(K, Superblock)
PerChunk == InputChunk \div Superblock

\* The sizes of blocks and chunks.
LEMMA SuperblockSizes ==
  /\ Lane \in Positive /\ Lanes \in Positive /\ Superblock \in Positive /\ InputChunk \in Positive
  /\ Superblock = Lane * Lanes /\ Superblock = Lanes * Lane
  /\ PerChunk \in Positive /\ InputChunk = Superblock * PerChunk
  /\ \E h \in Positive : PerChunk = 2 * h
  <1>1. /\ Lane \in Nat /\ Lane > 0 /\ Lanes \in Nat /\ Lanes > 0 /\ Superblock = Lanes * Lane
        /\ InputChunk \in Nat /\ InputChunk > 0 /\ InputChunk % (2 * Superblock) = 0
    <2>1. /\ Lane \in Nat \ {0} /\ Lanes \in Nat \ {0} /\ Superblock = Lanes * Lane
          /\ InputChunk \in Nat \ {0} /\ InputChunk % (2 * Superblock) = 0
      BY ProductsAssumption
    <2> QED BY <2>1
  <1>2. Superblock \in Nat /\ Superblock > 0 /\ Lanes * Lane = Lane * Lanes
    <2>1. \A x \in Nat, y \in Nat : x > 0 /\ y > 0 => x * y \in Nat /\ x * y > 0 /\ x * y = y * x
      OBVIOUS
    <2> QED BY <1>1, <2>1
  <1> DEFINE d == 2 * Superblock
             h == InputChunk \div d
  <1>3. d \in Positive /\ d = 2 * Superblock
    BY <1>2 DEF Positive
  <1> HIDE DEF d
  <1>4. InputChunk = d * h + (InputChunk % d) /\ h \in Nat
    <2>1. InputChunk \in Int /\ InputChunk \in Nat
      BY <1>1
    <2> QED BY <1>3, <2>1, DivMod
  <1> HIDE DEF h
  <1>5. InputChunk % d = 0
    BY <1>1, <1>3
  <1>6. InputChunk = d * h /\ d \in Nat
    <2>1. d * h \in Int
      BY <1>3, <1>4 DEF Positive
    <2> QED BY <1>3, <1>4, <1>5, <2>1 DEF Positive
  <1>7. h > 0
    <2>1. CASE h = 0
      BY <1>1, <1>6, <2>1
    <2> QED BY <1>4, <2>1
  <1>8. d * h = Superblock * (2 * h) /\ 2 * h \in Nat /\ 2 * h > 0
    <2>1. \A x \in Nat, y \in Nat : (2 * x) * y = x * (2 * y)
      OBVIOUS
    <2> QED BY <1>2, <1>3, <1>4, <1>7, <2>1
  <1>9. PerChunk = 2 * h
    <2> DEFINE q == 2 * h
    <2>1. Superblock \in Positive /\ q \in Int /\ 0 \in 0 .. Superblock - 1 /\ InputChunk = Superblock * q + 0
      <3>1. q \in Nat /\ Superblock * q \in Int
        BY <1>2, <1>4
      <3> QED BY <1>2, <1>6, <1>8, <3>1 DEF Positive
    <2> HIDE DEF q
    <2>2. InputChunk \div Superblock = q
      BY <2>1, Quotient
    <2> QED BY <2>2 DEF q, PerChunk
  <1> QED BY <1>1, <1>2, <1>4, <1>6, <1>7, <1>8, <1>9 DEF Positive

\* What a block copies to shared memory is the input from its start on.
LEMMA StagedIs ==
  ASSUME NEW base \in Int, NEW len \in Nat
  PROVE  Staged(base, len) = [j \in 0 .. len - 1 |-> base + j]
  <1>1. Lane \in Positive
    BY SuperblockSizes
  <1>2. ASSUME NEW j \in 0 .. len - 1
        PROVE  (IF j < (len \div Lane) * Lane THEN base + (j \div Lane) * Lane + (j % Lane) ELSE base + j) = base + j
    <2> DEFINE q == j \div Lane
               r == j % Lane
               e == (len \div Lane) * Lane
    <2>1. j \in Int /\ j = Lane * q + r /\ r \in Int /\ q \in Int
      <3>1. j \in Int
        OBVIOUS
      <3> QED BY <1>1, <3>1, DivMod
    <2>2. \A x \in Int, y \in Int : x * y \in Int /\ x * y = y * x
      OBVIOUS
    <2>3. Lane \in Int
      BY <1>1 DEF Positive
    <2> HIDE DEF q, r, e
    <2>4. base + q * Lane + r = base + j
      <3>1. Lane * q = q * Lane /\ q * Lane \in Int
        BY <2>1, <2>2, <2>3
      <3> QED BY <2>1, <3>1
    <2>5. (IF j < e THEN base + q * Lane + r ELSE base + j) = base + j
      BY <2>4
    <2> QED BY <2>5 DEF q, r, e
  <1> QED BY <1>2 DEF Staged
(* A sum is that of its superblocks.                                        *)

TermsOf(sb, lane, K) ==
  [i \in 1 .. Smaller(Lane, K - (sb * Superblock + lane * Lane)) |-> <<sb, lane, i - 1, sb * Superblock + lane * Lane + i - 1>>]

\* A block finds its part of the row in the input.
Finds(block, K, input) ==
  /\ block[2] \in Nat /\ block[1] \in Int
  /\ \A k \in block[2] * Superblock .. K - 1 : k < block[2] * Superblock + Superblock => input[block[1]][k - block[1]] = k

\* A part of a lane is in its superblock.
LEMMA InLane ==
  ASSUME NEW lane \in 0 .. Lanes - 1
  PROVE  lane * Lane \in Nat /\ lane * Lane + Lane <= Superblock /\ lane \in Nat
  <1>1. Lane \in Nat /\ Lanes \in Nat /\ Superblock = Lane * Lanes
    BY SuperblockSizes DEF Positive
  <1>2. lane \in Nat /\ lane + 1 \in Int /\ lane + 1 <= Lanes /\ Lanes \in Int
    BY <1>1
  <1>3. Lane * (lane + 1) <= Lane * Lanes
    BY <1>1, <1>2, TimesOrder
  <1>4. \A x \in Nat, y \in Nat : x * (y + 1) = y * x + x /\ y * x \in Nat
    OBVIOUS
  <1>5. Lane * (lane + 1) = lane * Lane + Lane /\ lane * Lane \in Nat
    BY <1>1, <1>2, <1>4
  <1> QED BY <1>1, <1>2, <1>3, <1>5

\* The terms of a block.
LEMMA TermsAre ==
  ASSUME NEW block, NEW K \in Nat, NEW input, Finds(block, K, input), NEW lane \in 0 .. Lanes - 1
  PROVE  Terms(block, lane, K, input) = TermsOf(block[2], lane, K)
  <1> DEFINE sb == block[2]
             b == block[1]
             from == sb * Superblock
             start == from + lane * Lane
  <1>1. /\ sb \in Nat /\ b \in Int
        /\ \A k \in from .. K - 1 : k < from + Superblock => input[b][k - b] = k
    BY DEF Finds
  <1>2. from \in Nat /\ Superblock \in Nat /\ Lane \in Nat
    <2>1. Superblock \in Nat /\ Lane \in Nat
      BY SuperblockSizes DEF Positive
    <2>2. \A x \in Nat, y \in Nat : x * y \in Nat
      OBVIOUS
    <2> QED BY <1>1, <2>1, <2>2
  <1>3. lane * Lane \in Nat /\ lane * Lane + Lane <= Superblock
    BY InLane
  <1> DEFINE o == lane * Lane
  <1>3a. o \in Nat /\ o + Lane <= Superblock
    BY <1>3
  <1> HIDE DEF from, sb, b, o
  <1>4. ASSUME NEW i \in 1 .. Smaller(Lane, K - (from + o)) PROVE input[b][from + o + i - 1 - b] = from + o + i - 1
    <2>1. i \in Int /\ i >= 1 /\ i <= Lane /\ i <= K - (from + o)
      BY <1>2, <1>3a DEF Smaller
    <2> DEFINE x == from + o + i - 1
    <2>2. x \in Int /\ from <= x /\ x <= K - 1 /\ x < from + Superblock
      BY <1>2, <1>3a, <2>1
    <2> HIDE DEF x
    <2>3. x \in from .. K - 1
      BY <1>2, <2>2
    <2>4. input[b][x - b] = x
      BY <1>1, <2>2, <2>3
    <2>5. x - b = from + o + i - 1 - b /\ x = from + o + i - 1
      BY <1>1, <1>2, <1>3a, <2>1 DEF x
    <2> QED BY <2>4, <2>5
  <1>5. \A i \in 1 .. Smaller(Lane, K - (from + o)) :
          <<sb, lane, i - 1, input[b][from + o + i - 1 - b]>> = <<sb, lane, i - 1, from + o + i - 1>>
    BY <1>4
  <1>6. Terms(block, lane, K, input) =
          [i \in 1 .. Smaller(Lane, K - (from + o)) |-> <<sb, lane, i - 1, input[b][from + o + i - 1 - b]>>]
    BY DEF Terms, from, o, sb, b
  <1>7. TermsOf(block[2], lane, K) =
          [i \in 1 .. Smaller(Lane, K - (from + o)) |-> <<sb, lane, i - 1, from + o + i - 1>>]
    BY DEF TermsOf, from, o, sb
  <1> QED BY <1>5, <1>6, <1>7

\* The superblocks of the chains of each warp, and the sum of them.
Superblocks(warps) ==
  [w \in DOMAIN warps |-> [c \in DOMAIN warps[w] |-> [s \in DOMAIN warps[w][c] |-> warps[w][c][s][2]]]]
BlockSum(p, K) ==
  [w \in DOMAIN p |-> [lane \in 0 .. Lanes - 1 |-> [c \in DOMAIN p[w] |->
     [s \in DOMAIN p[w][c] |-> TermsOf(p[w][c][s], lane, K)]]]]
AllFind(warps, K, input) ==
  \A w \in DOMAIN warps : \A c \in DOMAIN warps[w] : \A s \in DOMAIN warps[w][c] : Finds(warps[w][c][s], K, input)

\* A sum is that of the superblocks, wherever the input is found.
LEMMA SumIsBlocks ==
  ASSUME NEW warps, NEW K \in Nat, NEW input, AllFind(warps, K, input)
  PROVE  SumOf(warps, K, input) = BlockSum(Superblocks(warps), K)
  <1> DEFINE p == Superblocks(warps)
  <1>1. DOMAIN p = DOMAIN warps /\ \A w \in DOMAIN warps : DOMAIN p[w] = DOMAIN warps[w]
    BY DEF Superblocks
  <1>2. \A w \in DOMAIN warps : \A c \in DOMAIN warps[w] :
          DOMAIN p[w][c] = DOMAIN warps[w][c] /\ \A s \in DOMAIN warps[w][c] : p[w][c][s] = warps[w][c][s][2]
    BY DEF Superblocks
  <1> HIDE DEF p
  <1>3. ASSUME NEW w \in DOMAIN warps, NEW lane \in 0 .. Lanes - 1, NEW c \in DOMAIN warps[w]
        PROVE  [s \in DOMAIN warps[w][c] |-> Terms(warps[w][c][s], lane, K, input)]
                 = [s \in DOMAIN p[w][c] |-> TermsOf(p[w][c][s], lane, K)]
    <2>1. ASSUME NEW s \in DOMAIN warps[w][c]
          PROVE  Terms(warps[w][c][s], lane, K, input) = TermsOf(p[w][c][s], lane, K)
      <3>1. Finds(warps[w][c][s], K, input)
        BY DEF AllFind
      <3>2. Terms(warps[w][c][s], lane, K, input) = TermsOf(warps[w][c][s][2], lane, K)
        BY <3>1, TermsAre
      <3> QED BY <1>2, <3>2
    <2> QED BY <1>2, <2>1
  <1>4. ASSUME NEW w \in DOMAIN warps, NEW lane \in 0 .. Lanes - 1
        PROVE  [c \in DOMAIN warps[w] |-> [s \in DOMAIN warps[w][c] |-> Terms(warps[w][c][s], lane, K, input)]]
                 = [c \in DOMAIN p[w] |-> [s \in DOMAIN p[w][c] |-> TermsOf(p[w][c][s], lane, K)]]
    BY <1>1, <1>3
  <1>5. ASSUME NEW w \in DOMAIN warps
        PROVE  [lane \in 0 .. Lanes - 1 |-> [c \in DOMAIN warps[w] |->
                  [s \in DOMAIN warps[w][c] |-> Terms(warps[w][c][s], lane, K, input)]]]
                 = [lane \in 0 .. Lanes - 1 |-> [c \in DOMAIN p[w] |-> [s \in DOMAIN p[w][c] |-> TermsOf(p[w][c][s], lane, K)]]]
    BY <1>4
  <1>6. SumOf(warps, K, input) = BlockSum(p, K)
    BY <1>1, <1>5 DEF SumOf, BlockSum
  <1> QED BY <1>6 DEF p
(* A sum of superblocks.                                                    *)

\* The weights of a lane that are in the row.
Width(sb, lane, K) == Smaller(Lane, K - (sb * Superblock + lane * Lane))

\* Superblock, lane and place in the lane of a weight, and back.
LEMMA WeightSplits ==
  ASSUME NEW k \in Nat
  PROVE  /\ k \div Superblock \in Nat /\ (k % Superblock) \div Lane \in 0 .. Lanes - 1 /\ k % Lane \in 0 .. Lane - 1
         /\ k = (k \div Superblock) * Superblock + ((k % Superblock) \div Lane) * Lane + (k % Lane)
  <1> DEFINE q == k \div Superblock
             r == k % Superblock
             l == r \div Lane
             j == r % Lane
  <1>0. /\ Lane \in Nat /\ Lanes \in Nat /\ Superblock \in Nat /\ Lane > 0 /\ Superblock = Lane * Lanes
        /\ Lane \in Positive /\ Lanes \in Positive /\ Superblock \in Positive
    BY SuperblockSizes DEF Positive
  <1>1. k = Superblock * q + r /\ r \in 0 .. Superblock - 1 /\ q \in Nat
    <2>1. k \in Int
      OBVIOUS
    <2> QED BY <1>0, <2>1, DivMod
  <1>2. r = Lane * l + j /\ j \in 0 .. Lane - 1 /\ l \in Nat
    <2>1. r \in Int /\ r \in Nat
      BY <1>0, <1>1
    <2> HIDE DEF r
    <2> QED BY <1>0, <2>1, DivMod
  <1> HIDE DEF q, r, l, j
  <1>3. l <= Lanes - 1
    <2> SUFFICES ASSUME ~(l <= Lanes - 1) PROVE FALSE
      OBVIOUS
    <2>1. Lanes <= l /\ Lanes \in Int /\ l \in Int
      BY <1>0, <1>2
    <2>2. Lane * Lanes <= Lane * l /\ Lane * l \in Int
      BY <1>0, <2>1, TimesOrder
    <2> QED BY <1>0, <1>1, <1>2, <2>2
  <1> DEFINE t == Lanes * q + l
  <1>4. Superblock * q = Lane * (Lanes * q)
    <2>1. \A x \in Nat, y \in Nat, z \in Nat : (x * y) * z = x * (y * z)
      OBVIOUS
    <2> QED BY <1>0, <1>1, <2>1
  <1>5. k = Lane * t + j /\ t \in Int
    <2>1. \A x \in Nat, y \in Nat, z \in Nat : x * (y + z) = x * y + x * z
      OBVIOUS
    <2>2. Lanes * q \in Nat
      BY <1>0, <1>1
    <2>3. Lane * t = Lane * (Lanes * q) + Lane * l
      BY <1>0, <1>2, <2>1, <2>2
    <2>4. Lane * (Lanes * q) \in Nat /\ Lane * l \in Nat /\ j \in Int
      BY <1>0, <1>2, <2>2
    <2> QED BY <1>1, <1>2, <1>4, <2>2, <2>3, <2>4
  <1> HIDE DEF t
  <1>6. k % Lane = j
    BY <1>0, <1>2, <1>5, Quotient
  <1>7. Superblock * q = q * Superblock /\ Lane * l = l * Lane /\ q * Superblock \in Nat /\ l * Lane \in Nat
    <2>1. \A x \in Nat, y \in Nat : x * y = y * x /\ x * y \in Nat
      OBVIOUS
    <2> QED BY <1>0, <1>1, <1>2, <2>1
  <1>8. k = q * Superblock + l * Lane + j
    BY <1>1, <1>2, <1>7
  <1>9. l \in 0 .. Lanes - 1
    BY <1>0, <1>2, <1>3
  <1>10. q \in Nat /\ l \in 0 .. Lanes - 1 /\ (k % Lane) \in 0 .. Lane - 1 /\ k = q * Superblock + l * Lane + (k % Lane)
    BY <1>1, <1>2, <1>6, <1>8, <1>9
  <1> QED BY <1>10 DEF q, l, r

\* A weight is in one lane of one superblock.
LEMMA WeightJoins ==
  ASSUME NEW sb \in Nat, NEW lane \in 0 .. Lanes - 1, NEW j \in 0 .. Lane - 1, NEW k,
         k = sb * Superblock + lane * Lane + j
  PROVE  k \in Nat /\ k \div Superblock = sb /\ (k % Superblock) \div Lane = lane /\ k % Lane = j
  <1>0. /\ Lane \in Nat /\ Lanes \in Nat /\ Superblock \in Nat /\ Lane > 0 /\ Superblock = Lane * Lanes
        /\ Lane \in Positive /\ Lanes \in Positive /\ Superblock \in Positive
    BY SuperblockSizes DEF Positive
  <1>1. lane * Lane \in Nat /\ lane * Lane + Lane <= Superblock /\ lane \in Nat
    BY InLane
  <1> DEFINE r == Lane * lane + j
  <1>2. lane * Lane = Lane * lane /\ sb * Superblock = Superblock * sb /\ Superblock * sb \in Nat
    <2>1. \A x \in Nat, y \in Nat : x * y = y * x /\ x * y \in Nat
      OBVIOUS
    <2> QED BY <1>0, <1>1, <2>1
  <1>3. j \in Nat /\ j < Lane
    BY <1>0
  <1> DEFINE o == Lane * lane
             u == Superblock * sb
  <1>4. o \in Nat /\ o + Lane <= Superblock /\ u \in Nat /\ k = u + o + j
    BY <1>1, <1>2
  <1>5. r = o + j
    OBVIOUS
  <1> HIDE DEF o, u, r
  <1>6. r \in 0 .. Superblock - 1 /\ k = u + r /\ k \in Nat
    BY <1>0, <1>3, <1>4, <1>5
  <1>7. k \div Superblock = sb /\ k % Superblock = r
    <2>1. k = Superblock * sb + r /\ sb \in Int
      BY <1>6 DEF u
    <2>2. Superblock \in Positive
      BY <1>0
    <2>3. (Superblock * sb + r) \div Superblock = sb /\ (Superblock * sb + r) % Superblock = r
      BY <1>6, <2>1, <2>2, Quotient
    <2> QED BY <2>1, <2>3
  <1>8. r \div Lane = lane
    <2>1. r = Lane * lane + j /\ lane \in Int
      BY <1>1, <1>5 DEF o
    <2> QED BY <1>0, <2>1, Quotient
  <1>9. k % Lane = j
    <2> DEFINE t == Lanes * sb + lane
    <2>1. Lanes * sb \in Nat /\ t \in Int
      BY <1>0, <1>1
    <2>2. Lane * t = Lane * (Lanes * sb) + Lane * lane
      <3>1. \A x \in Nat, y \in Nat, z \in Nat : x * (y + z) = x * y + x * z
        OBVIOUS
      <3> QED BY <1>0, <1>1, <2>1, <3>1
    <2>3. Lane * (Lanes * sb) = u
      <3>1. \A x \in Nat, y \in Nat, z \in Nat : (x * y) * z = x * (y * z)
        OBVIOUS
      <3> QED BY <1>0, <3>1 DEF u
    <2>4. Lane * t = u + o
      BY <2>2, <2>3 DEF o
    <2> HIDE DEF t
    <2>5. k = Lane * t + j
      BY <1>3, <1>4, <2>4
    <2> QED BY <1>0, <2>1, <2>5, Quotient
  <1> QED BY <1>6, <1>7, <1>8, <1>9

\* The weights of a row are those of its superblocks.
LEMMA CountIs ==
  ASSUME NEW K \in Nat \ {0}
  PROVE  /\ Count(K) \in Nat /\ Count(K) > 0
         /\ \A k \in 0 .. K - 1 : k \div Superblock \in 0 .. Count(K) - 1
         /\ \A sb \in 0 .. Count(K) - 1 : sb * Superblock \in 0 .. K - 1
  <1>0. Superblock \in Nat /\ Superblock \in Positive /\ K \in Nat /\ K > 0
    BY SuperblockSizes DEF Positive
  <1> DEFINE n == Count(K)
  <1>1. n \in Nat /\ K <= Superblock * n /\ Superblock * n < K + Superblock /\ n > 0
    BY <1>0, Ceiling DEF Count
  <1> HIDE DEF n
  <1>2. ASSUME NEW k \in 0 .. K - 1 PROVE k \div Superblock \in 0 .. n - 1
    <2> DEFINE q == k \div Superblock
               r == k % Superblock
    <2>1. k = Superblock * q + r /\ r \in 0 .. Superblock - 1 /\ q \in Nat
      <3>1. k \in Int /\ k \in Nat
        OBVIOUS
      <3> QED BY <1>0, <3>1, DivMod
    <2> HIDE DEF q, r
    <2>2. q <= n - 1
      <3> SUFFICES ASSUME ~(q <= n - 1) PROVE FALSE
        OBVIOUS
      <3>1. n <= q /\ n \in Int /\ q \in Int
        BY <1>1, <2>1
      <3>2. Superblock * n <= Superblock * q /\ Superblock * q \in Int /\ Superblock * n \in Int
        BY <1>0, <3>1, TimesOrder
      <3> QED BY <1>0, <1>1, <2>1, <3>2
    <2>3. q \in 0 .. n - 1
      BY <1>1, <2>1, <2>2
    <2> QED BY <2>3 DEF q
  <1>3. ASSUME NEW sb \in 0 .. n - 1 PROVE sb * Superblock \in 0 .. K - 1
    <2>1. sb \in Nat /\ sb + 1 <= n /\ sb + 1 \in Int /\ n \in Int
      BY <1>1
    <2>2. Superblock * (sb + 1) <= Superblock * n /\ Superblock * n \in Int
      BY <1>0, <2>1, TimesOrder
    <2>3. \A x \in Nat, y \in Nat : x * (y + 1) = y * x + x /\ y * x \in Nat
      OBVIOUS
    <2>4. Superblock * (sb + 1) = sb * Superblock + Superblock /\ sb * Superblock \in Nat
      BY <1>0, <2>1, <2>3
    <2> QED BY <1>0, <1>1, <2>2, <2>4
  <1> QED BY <1>1, <1>2, <1>3 DEF n

\* Every superblock below n is in one place.
Once(p, n) ==
  /\ \A w \in DOMAIN p : \A c \in DOMAIN p[w] : \A s \in DOMAIN p[w][c] : p[w][c][s] \in 0 .. n - 1
  /\ \A sb \in 0 .. n - 1 : \E w \in DOMAIN p : \E c \in DOMAIN p[w] : \E s \in DOMAIN p[w][c] : p[w][c][s] = sb
  /\ \A w \in DOMAIN p, v \in DOMAIN p : \A c \in DOMAIN p[w], d \in DOMAIN p[v] :
       \A s \in DOMAIN p[w][c], t \in DOMAIN p[v][d] : p[w][c][s] = p[v][d][t] => w = v /\ c = d /\ s = t

RowTerm(row, from, K, sb, lane, j) ==
  <<row * Count(K) + sb, lane, j, from * K + (sb * Superblock + lane * Lane + j)>>

\* What a sum of superblocks has in each place.
InPlaces(tree, p, row, from, K) ==
  /\ DOMAIN tree = DOMAIN p
  /\ \A w \in DOMAIN p : DOMAIN tree[w] = 0 .. Lanes - 1
  /\ \A w \in DOMAIN p, lane \in 0 .. Lanes - 1 : DOMAIN tree[w][lane] = DOMAIN p[w]
  /\ \A w \in DOMAIN p, lane \in 0 .. Lanes - 1 : \A c \in DOMAIN p[w] : DOMAIN tree[w][lane][c] = DOMAIN p[w][c]
  /\ \A w \in DOMAIN p, lane \in 0 .. Lanes - 1 : \A c \in DOMAIN p[w] : \A s \in DOMAIN p[w][c] :
       /\ DOMAIN tree[w][lane][c][s] = 1 .. Width(p[w][c][s], lane, K)
       /\ \A i \in 1 .. Width(p[w][c][s], lane, K) :
            tree[w][lane][c][s][i] = RowTerm(row, from, K, p[w][c][s], lane, i - 1)

\* Placing the blocks of a sum keeps its shape.
LEMMA PlacesAre ==
  ASSUME NEW p, NEW K \in Nat, NEW row, NEW from,
         \A w \in DOMAIN p : \A c \in DOMAIN p[w] : \A s \in DOMAIN p[w][c] : p[w][c][s] \in Nat
  PROVE  InPlaces(Place(BlockSum(p, K), row, from, K), p, row, from, K)
  <1> DEFINE tree == BlockSum(p, K)
             there == Place(tree, row, from, K)
  <1>1. /\ DOMAIN tree = DOMAIN p
        /\ \A w \in DOMAIN p : DOMAIN tree[w] = 0 .. Lanes - 1
        /\ \A w \in DOMAIN p, lane \in 0 .. Lanes - 1 : DOMAIN tree[w][lane] = DOMAIN p[w]
        /\ \A w \in DOMAIN p, lane \in 0 .. Lanes - 1 : \A c \in DOMAIN p[w] : DOMAIN tree[w][lane][c] = DOMAIN p[w][c]
        /\ \A w \in DOMAIN p, lane \in 0 .. Lanes - 1 : \A c \in DOMAIN p[w] : \A s \in DOMAIN p[w][c] :
             tree[w][lane][c][s] = TermsOf(p[w][c][s], lane, K)
    BY DEF BlockSum
  <1> HIDE DEF tree
  <1> DEFINE value(w, lane, c, s, i) ==
               LET t == tree[w][lane][c][s][i] IN <<row * CeilDiv(K, Superblock) + t[1], t[2], t[3], from * K + t[4]>>
  <1> DEFINE F4(w, lane, c, s) == [i \in DOMAIN tree[w][lane][c][s] |-> value(w, lane, c, s, i)]
             F3(w, lane, c) == [s \in DOMAIN tree[w][lane][c] |-> F4(w, lane, c, s)]
             F2(w, lane) == [c \in DOMAIN tree[w][lane] |-> F3(w, lane, c)]
             F1(w) == [lane \in DOMAIN tree[w] |-> F2(w, lane)]
  <1>2. there = [w \in DOMAIN tree |-> F1(w)]
    BY DEF Place
  <1>2a. \A w, lane, c, s : F4(w, lane, c, s) = [i \in DOMAIN tree[w][lane][c][s] |-> value(w, lane, c, s, i)]
    OBVIOUS
  <1> HIDE DEF F4
  <1>2b. \A w, lane, c : F3(w, lane, c) = [s \in DOMAIN tree[w][lane][c] |-> F4(w, lane, c, s)]
    OBVIOUS
  <1> HIDE DEF F3
  <1>2c. \A w, lane : F2(w, lane) = [c \in DOMAIN tree[w][lane] |-> F3(w, lane, c)]
    OBVIOUS
  <1> HIDE DEF F2
  <1>2d. \A w : F1(w) = [lane \in DOMAIN tree[w] |-> F2(w, lane)]
    OBVIOUS
  <1> HIDE DEF there, value, F1
  <1>2e. DOMAIN there = DOMAIN p /\ \A w \in DOMAIN p : there[w] = F1(w)
    BY <1>1, <1>2
  <1>2f. \A w \in DOMAIN p : DOMAIN there[w] = 0 .. Lanes - 1 /\ \A lane \in 0 .. Lanes - 1 : there[w][lane] = F2(w, lane)
    BY <1>1, <1>2d, <1>2e
  <1>2g. \A w \in DOMAIN p, lane \in 0 .. Lanes - 1 :
           DOMAIN there[w][lane] = DOMAIN p[w] /\ \A c \in DOMAIN p[w] : there[w][lane][c] = F3(w, lane, c)
    BY <1>1, <1>2c, <1>2f
  <1>2h. \A w \in DOMAIN p, lane \in 0 .. Lanes - 1 : \A c \in DOMAIN p[w] :
           DOMAIN there[w][lane][c] = DOMAIN p[w][c] /\ \A s \in DOMAIN p[w][c] : there[w][lane][c][s] = F4(w, lane, c, s)
    BY <1>1, <1>2b, <1>2g
  <1>4. ASSUME NEW w \in DOMAIN p, NEW lane \in 0 .. Lanes - 1, NEW c \in DOMAIN p[w], NEW s \in DOMAIN p[w][c]
        PROVE  /\ DOMAIN there[w][lane][c][s] = 1 .. Width(p[w][c][s], lane, K)
               /\ \A i \in 1 .. Width(p[w][c][s], lane, K) :
                    there[w][lane][c][s][i] = RowTerm(row, from, K, p[w][c][s], lane, i - 1)
    <2>1. there[w][lane][c][s] = [i \in DOMAIN tree[w][lane][c][s] |-> value(w, lane, c, s, i)]
      BY <1>2a, <1>2h
    <2> DEFINE sb == p[w][c][s]
               u == sb * Superblock
               o == lane * Lane
    <2>2a. tree[w][lane][c][s] = TermsOf(sb, lane, K)
      BY <1>1
    <2>2b. TermsOf(sb, lane, K) = [i \in 1 .. Width(sb, lane, K) |-> <<sb, lane, i - 1, u + o + i - 1>>]
      <3> HIDE DEF sb
      <3> QED BY DEF TermsOf, Width
    <2>2. tree[w][lane][c][s] = [i \in 1 .. Width(sb, lane, K) |-> <<sb, lane, i - 1, u + o + i - 1>>]
      BY <2>2a, <2>2b
    <2>3. u \in Int /\ o \in Int
      <3>1. Superblock \in Nat /\ sb \in Nat /\ lane * Lane \in Nat
        BY SuperblockSizes, InLane DEF Positive
      <3>2. \A x \in Nat, y \in Nat : x * y \in Nat
        OBVIOUS
      <3> QED BY <3>1, <3>2
    <2>4. \A i \in 1 .. Width(sb, lane, K) : tree[w][lane][c][s][i] = <<sb, lane, i - 1, u + o + i - 1>>
      BY <2>2
    <2>5. DOMAIN tree[w][lane][c][s] = 1 .. Width(sb, lane, K)
      BY <2>2
    <2> HIDE DEF sb, u, o
    <2>6. ASSUME NEW i \in 1 .. Width(sb, lane, K)
          PROVE  there[w][lane][c][s][i] = RowTerm(row, from, K, sb, lane, i - 1)
      <3>1. there[w][lane][c][s][i] = value(w, lane, c, s, i)
        BY <2>1, <2>5
      <3>2. value(w, lane, c, s, i) = <<row * Count(K) + sb, lane, i - 1, from * K + (u + o + i - 1)>>
        BY <2>4 DEF value, Count
      <3>3. u + o + i - 1 = u + o + (i - 1)
        BY <2>3
      <3>4. RowTerm(row, from, K, sb, lane, i - 1) = <<row * Count(K) + sb, lane, i - 1, from * K + (u + o + (i - 1))>>
        BY DEF RowTerm, u, o
      <3> QED BY <3>1, <3>2, <3>3, <3>4
    <2> QED BY <2>1, <2>5, <2>6 DEF sb
  <1> QED BY <1>2e, <1>2f, <1>2g, <1>2h, <1>4 DEF InPlaces, there, tree

\* When every superblock of a row is in one place, every weight of the row is.
LEMMA SumsOnceBy ==
  ASSUME NEW K \in Nat \ {0}, NEW p, Once(p, Count(K)), NEW row \in Nat, NEW from \in Nat
  PROVE  SumsOnce(Place(BlockSum(p, K), row, from, K), Wanted(row, from, K))
  <1> DEFINE tree == Place(BlockSum(p, K), row, from, K)
             n == Count(K)
             wanted == Wanted(row, from, K)
             W(w, c, s, lane) == 1 .. Width(p[w][c][s], lane, K)
  <1>1. n \in Nat /\ n > 0 /\ (\A k \in 0 .. K - 1 : k \div Superblock \in 0 .. n - 1) /\ K \in Nat
    BY CountIs
  <1>2. /\ \A w \in DOMAIN p : \A c \in DOMAIN p[w] : \A s \in DOMAIN p[w][c] : p[w][c][s] \in 0 .. n - 1
        /\ \A sb \in 0 .. n - 1 : \E w \in DOMAIN p : \E c \in DOMAIN p[w] : \E s \in DOMAIN p[w][c] : p[w][c][s] = sb
        /\ \A w \in DOMAIN p, v \in DOMAIN p : \A c \in DOMAIN p[w], d \in DOMAIN p[v] :
             \A s \in DOMAIN p[w][c], t \in DOMAIN p[v][d] : p[w][c][s] = p[v][d][t] => w = v /\ c = d /\ s = t
    BY DEF Once
  <1>3. \A w \in DOMAIN p : \A c \in DOMAIN p[w] : \A s \in DOMAIN p[w][c] : p[w][c][s] \in Nat
    BY <1>1, <1>2
  <1>4. InPlaces(tree, p, row, from, K)
    BY <1>1, <1>3, PlacesAre
  <1> HIDE DEF n, tree, wanted
  <1>5. /\ DOMAIN tree = DOMAIN p
        /\ \A w \in DOMAIN p : DOMAIN tree[w] = 0 .. Lanes - 1
        /\ \A w \in DOMAIN p, lane \in 0 .. Lanes - 1 : DOMAIN tree[w][lane] = DOMAIN p[w]
        /\ \A w \in DOMAIN p, lane \in 0 .. Lanes - 1 : \A c \in DOMAIN p[w] : DOMAIN tree[w][lane][c] = DOMAIN p[w][c]
        /\ \A w \in DOMAIN p, lane \in 0 .. Lanes - 1 : \A c \in DOMAIN p[w] : \A s \in DOMAIN p[w][c] :
             DOMAIN tree[w][lane][c][s] = W(w, c, s, lane)
    BY <1>4 DEF InPlaces
  <1>6. \A w \in DOMAIN p, lane \in 0 .. Lanes - 1 : \A c \in DOMAIN p[w] : \A s \in DOMAIN p[w][c] :
          \A i \in W(w, c, s, lane) : tree[w][lane][c][s][i] = RowTerm(row, from, K, p[w][c][s], lane, i - 1)
    BY <1>4 DEF InPlaces
  <1>7. ASSUME NEW w \in DOMAIN p, NEW lane \in 0 .. Lanes - 1, NEW c \in DOMAIN p[w], NEW s \in DOMAIN p[w][c],
               NEW i \in W(w, c, s, lane)
        PROVE  /\ i - 1 \in 0 .. Lane - 1
               /\ \E k \in 0 .. K - 1 : k = p[w][c][s] * Superblock + lane * Lane + (i - 1)
    <2> DEFINE u == p[w][c][s] * Superblock
               o == lane * Lane
    <2>1. u \in Nat /\ o \in Nat /\ Lane \in Nat
      <3>1. Superblock \in Nat /\ Lane \in Nat /\ p[w][c][s] \in Nat /\ lane * Lane \in Nat
        BY <1>3, SuperblockSizes, InLane DEF Positive
      <3>2. \A x \in Nat, y \in Nat : x * y \in Nat
        OBVIOUS
      <3> QED BY <3>1, <3>2
    <2>2. i \in 1 .. Smaller(Lane, K - (u + o))
      BY DEF Width
    <2> HIDE DEF u, o
    <2>3. i \in Int /\ 1 <= i /\ i <= Lane /\ i <= K - (u + o)
      BY <1>1, <2>1, <2>2 DEF Smaller
    <2>4. i - 1 \in 0 .. Lane - 1 /\ u + o + (i - 1) \in 0 .. K - 1
      BY <1>1, <2>1, <2>3
    <2> QED BY <2>4 DEF u, o
  <1> HIDE DEF W
  <1>8. \A q : q \in Places(tree) <=>
          \E w \in DOMAIN p : \E lane \in 0 .. Lanes - 1 : \E c \in DOMAIN p[w] : \E s \in DOMAIN p[w][c] :
            \E i \in W(w, c, s, lane) : q = <<w, lane, c, s, i>>
    <2> TAKE q
    <2>1. q \in Places(tree) <=>
            \E w \in DOMAIN tree : \E lane \in DOMAIN tree[w] : \E c \in DOMAIN tree[w][lane] :
              \E s \in DOMAIN tree[w][lane][c] : \E i \in DOMAIN tree[w][lane][c][s] : q = <<w, lane, c, s, i>>
      BY DEF Places
    <2>2. ASSUME q \in Places(tree)
          PROVE  \E w \in DOMAIN p : \E lane \in 0 .. Lanes - 1 : \E c \in DOMAIN p[w] : \E s \in DOMAIN p[w][c] :
                   \E i \in W(w, c, s, lane) : q = <<w, lane, c, s, i>>
      <3>1. PICK w \in DOMAIN tree : \E lane \in DOMAIN tree[w] : \E c \in DOMAIN tree[w][lane] :
              \E s \in DOMAIN tree[w][lane][c] : \E i \in DOMAIN tree[w][lane][c][s] : q = <<w, lane, c, s, i>>
        BY <2>1, <2>2
      <3>2. PICK lane \in DOMAIN tree[w] : \E c \in DOMAIN tree[w][lane] :
              \E s \in DOMAIN tree[w][lane][c] : \E i \in DOMAIN tree[w][lane][c][s] : q = <<w, lane, c, s, i>>
        BY <3>1
      <3>3. w \in DOMAIN p /\ lane \in 0 .. Lanes - 1
        BY <1>5, <3>1, <3>2
      <3>4. PICK c \in DOMAIN p[w] : \E s \in DOMAIN tree[w][lane][c] : \E i \in DOMAIN tree[w][lane][c][s] : q = <<w, lane, c, s, i>>
        BY <1>5, <3>2, <3>3
      <3>5. PICK s \in DOMAIN p[w][c] : \E i \in DOMAIN tree[w][lane][c][s] : q = <<w, lane, c, s, i>>
        BY <1>5, <3>3, <3>4
      <3>6. PICK i \in W(w, c, s, lane) : q = <<w, lane, c, s, i>>
        BY <1>5, <3>3, <3>5
      <3> QED BY <3>3, <3>6
    <2>3. ASSUME NEW w \in DOMAIN p, NEW lane \in 0 .. Lanes - 1, NEW c \in DOMAIN p[w], NEW s \in DOMAIN p[w][c],
                 NEW i \in W(w, c, s, lane), q = <<w, lane, c, s, i>>
          PROVE  q \in Places(tree)
      <3>1. w \in DOMAIN tree /\ lane \in DOMAIN tree[w] /\ c \in DOMAIN tree[w][lane] /\ s \in DOMAIN tree[w][lane][c]
            /\ i \in DOMAIN tree[w][lane][c][s]
        <4>1. DOMAIN tree = DOMAIN p /\ DOMAIN tree[w] = 0 .. Lanes - 1 /\ DOMAIN tree[w][lane] = DOMAIN p[w]
          BY <1>5
        <4>2. DOMAIN tree[w][lane][c] = DOMAIN p[w][c]
          BY <1>5
        <4>3. DOMAIN tree[w][lane][c][s] = W(w, c, s, lane)
          BY <1>5
        <4> QED BY <4>1, <4>2, <4>3
      <3> QED BY <2>1, <2>3, <3>1
    <2> QED BY <2>2, <2>3
  <1>9. \A w, lane, c, s, i : TermAt(tree, <<w, lane, c, s, i>>) = tree[w][lane][c][s][i]
    BY DEF TermAt
  <1>10. ASSUME NEW q \in Places(tree) PROVE TermAt(tree, q) \in wanted
    <2>1. PICK w \in DOMAIN p, lane \in 0 .. Lanes - 1 : \E c \in DOMAIN p[w] : \E s \in DOMAIN p[w][c] :
            \E i \in W(w, c, s, lane) : q = <<w, lane, c, s, i>>
      BY <1>8
    <2>2. PICK c \in DOMAIN p[w] : \E s \in DOMAIN p[w][c] : \E i \in W(w, c, s, lane) : q = <<w, lane, c, s, i>>
      BY <2>1
    <2>3a. PICK s \in DOMAIN p[w][c] : \E i \in W(w, c, s, lane) : q = <<w, lane, c, s, i>>
      BY <2>2
    <2>3. PICK i \in W(w, c, s, lane) : q = <<w, lane, c, s, i>>
      BY <2>3a
    <2> DEFINE sb == p[w][c][s]
               j == i - 1
    <2>4. j \in 0 .. Lane - 1 /\ sb \in Nat
      BY <1>3, <1>7
    <2>5. PICK k \in 0 .. K - 1 : k = sb * Superblock + lane * Lane + j
      BY <1>7
    <2>6. TermAt(tree, q) = RowTerm(row, from, K, sb, lane, j)
      BY <1>6, <1>9, <2>3
    <2> HIDE DEF sb, j
    <2>7. k \div Superblock = sb /\ (k % Superblock) \div Lane = lane /\ k % Lane = j
      BY <2>4, <2>5, WeightJoins
    <2>8. TermAt(tree, q) = <<row * Count(K) + k \div Superblock, (k % Superblock) \div Lane, k % Lane, from * K + k>>
      BY <2>5, <2>6, <2>7 DEF RowTerm
    <2> QED BY <2>8 DEF wanted, Wanted, Count
  <1>11. ASSUME NEW t \in wanted PROVE \E q \in Places(tree) : TermAt(tree, q) = t
    <2>1. PICK k \in 0 .. K - 1 :
            t = <<row * Count(K) + k \div Superblock, (k % Superblock) \div Lane, k % Lane, from * K + k>>
      BY DEF wanted, Wanted, Count
    <2>2. k \in Nat /\ k < K
      BY <1>1
    <2> DEFINE sb == k \div Superblock
               lane == (k % Superblock) \div Lane
               j == k % Lane
    <2>3. sb \in Nat /\ lane \in 0 .. Lanes - 1 /\ j \in 0 .. Lane - 1 /\ k = sb * Superblock + lane * Lane + j
      BY <2>2, WeightSplits
    <2>4. sb \in 0 .. n - 1
      BY <1>1
    <2>4a. t = <<row * Count(K) + sb, lane, j, from * K + k>>
      BY <2>1
    <2> HIDE DEF sb, lane, j
    <2>5. PICK w \in DOMAIN p : \E c \in DOMAIN p[w] : \E s \in DOMAIN p[w][c] : p[w][c][s] = sb
      BY <1>2, <2>4
    <2>5a. PICK c \in DOMAIN p[w] : \E s \in DOMAIN p[w][c] : p[w][c][s] = sb
      BY <2>5
    <2>6. PICK s \in DOMAIN p[w][c] : p[w][c][s] = sb
      BY <2>5a
    <2>7. j + 1 \in W(w, c, s, lane)
      <3> DEFINE u == sb * Superblock
                 o == lane * Lane
      <3>1. u \in Nat /\ o \in Nat /\ Lane \in Nat
        <4>1. Superblock \in Nat /\ Lane \in Nat /\ lane * Lane \in Nat
          BY <2>3, SuperblockSizes, InLane DEF Positive
        <4>2. \A x \in Nat, y \in Nat : x * y \in Nat
          OBVIOUS
        <4> QED BY <2>3, <4>1, <4>2
      <3>2. k = u + o + j
        BY <2>3
      <3>3. W(w, c, s, lane) = 1 .. Smaller(Lane, K - (u + o))
        BY <2>6 DEF W, Width
      <3> HIDE DEF u, o
      <3>4. j + 1 \in 1 .. Smaller(Lane, K - (u + o))
        BY <1>1, <2>2, <2>3, <3>1, <3>2 DEF Smaller
      <3> QED BY <3>3, <3>4
    <2>8. <<w, lane, c, s, j + 1>> \in Places(tree)
      BY <1>8, <2>3, <2>7
    <2>9. TermAt(tree, <<w, lane, c, s, j + 1>>) = RowTerm(row, from, K, sb, lane, (j + 1) - 1)
      BY <1>6, <1>9, <2>3, <2>6, <2>7
    <2>10. (j + 1) - 1 = j
      BY <2>3
    <2>11. RowTerm(row, from, K, sb, lane, j) = t
      BY <2>3, <2>4a DEF RowTerm
    <2> QED BY <2>8, <2>9, <2>10, <2>11
  <1>12. ASSUME NEW q \in Places(tree), NEW q2 \in Places(tree), TermAt(tree, q) = TermAt(tree, q2) PROVE q = q2
    <2>1. PICK w \in DOMAIN p, lane \in 0 .. Lanes - 1 : \E c \in DOMAIN p[w] : \E s \in DOMAIN p[w][c] :
            \E i \in W(w, c, s, lane) : q = <<w, lane, c, s, i>>
      BY <1>8
    <2>2. PICK c \in DOMAIN p[w] : \E s \in DOMAIN p[w][c] : \E i \in W(w, c, s, lane) : q = <<w, lane, c, s, i>>
      BY <2>1
    <2>2a. PICK s \in DOMAIN p[w][c] : \E i \in W(w, c, s, lane) : q = <<w, lane, c, s, i>>
      BY <2>2
    <2>3. PICK i \in W(w, c, s, lane) : q = <<w, lane, c, s, i>>
      BY <2>2a
    <2>4. PICK v \in DOMAIN p, lane2 \in 0 .. Lanes - 1 : \E d \in DOMAIN p[v] : \E t \in DOMAIN p[v][d] :
            \E i2 \in W(v, d, t, lane2) : q2 = <<v, lane2, d, t, i2>>
      BY <1>8
    <2>5. PICK d \in DOMAIN p[v] : \E t \in DOMAIN p[v][d] : \E i2 \in W(v, d, t, lane2) : q2 = <<v, lane2, d, t, i2>>
      BY <2>4
    <2>5a. PICK t \in DOMAIN p[v][d] : \E i2 \in W(v, d, t, lane2) : q2 = <<v, lane2, d, t, i2>>
      BY <2>5
    <2>6. PICK i2 \in W(v, d, t, lane2) : q2 = <<v, lane2, d, t, i2>>
      BY <2>5a
    <2>7. RowTerm(row, from, K, p[w][c][s], lane, i - 1) = RowTerm(row, from, K, p[v][d][t], lane2, i2 - 1)
      <3>1. TermAt(tree, q) = RowTerm(row, from, K, p[w][c][s], lane, i - 1)
        BY <1>6, <1>9, <2>3
      <3>2. TermAt(tree, q2) = RowTerm(row, from, K, p[v][d][t], lane2, i2 - 1)
        BY <1>6, <1>9, <2>6
      <3> QED BY <1>12, <3>1, <3>2
    <2>8. row * Count(K) + p[w][c][s] = row * Count(K) + p[v][d][t] /\ lane = lane2 /\ i - 1 = i2 - 1
      BY <2>7 DEF RowTerm
    <2>9. p[w][c][s] \in Nat /\ p[v][d][t] \in Nat /\ row * n \in Int /\ i - 1 \in 0 .. Lane - 1 /\ i2 - 1 \in 0 .. Lane - 1
      <3>1. row * n \in Int
        <4>1. \A x \in Nat, y \in Nat : x * y \in Int
          OBVIOUS
        <4> QED BY <1>1, <4>1
      <3> QED BY <1>3, <1>7, <3>1
    <2>10. p[w][c][s] = p[v][d][t]
      <3> DEFINE z == row * n
      <3>1. z \in Int /\ z + p[w][c][s] = z + p[v][d][t]
        BY <2>8, <2>9 DEF n
      <3> HIDE DEF z
      <3> QED BY <2>9, <3>1
    <2>11. i \in Int /\ i2 \in Int
      BY DEF W
    <2>12. i = i2
      BY <2>8, <2>9, <2>11
    <2>13. w = v /\ c = d /\ s = t
      BY <1>2, <2>10
    <2> QED BY <2>3, <2>6, <2>8, <2>12, <2>13
  <1>13. {TermAt(tree, q) : q \in Places(tree)} = wanted
    BY <1>10, <1>11
  <1> QED BY <1>12, <1>13 DEF SumsOnce, tree, wanted

\* Whole blocks divide evenly.
LEMMA CeilingOfProduct ==
  ASSUME NEW s \in Positive, NEW x \in Int
  PROVE  CeilDiv(s * x, s) = x
  <1>1. s - 1 \in 0 .. s - 1 /\ s * x \in Int /\ s \in Int
    <2>1. \A a \in Int, b \in Int : a * b \in Int
      OBVIOUS
    <2>2. s \in Int /\ s > 0
      BY DEF Positive
    <2> QED BY <2>1, <2>2
  <1>2. (s * x + (s - 1)) \div s = x
    BY <1>1, Quotient
  <1> DEFINE u == s * x
  <1>3. u + s - 1 = u + (s - 1)
    BY <1>1
  <1> QED BY <1>2, <1>3 DEF CeilDiv

\* The chunk that starts at base is the c-th one, of the superblocks from lo up to hi.
ChunkHas(K, c, base, lo, hi) ==
  /\ base \in Nat /\ base < K /\ base \div Superblock = lo /\ base = lo * Superblock
  /\ CeilDiv(base + ChunkLen(base, K), Superblock) = hi
  /\ lo \in Nat /\ hi \in Nat /\ lo < hi /\ lo = (c - 1) * PerChunk
  /\ hi = Smaller(c * PerChunk, Count(K))
  /\ ChunkLen(base, K) \in Nat
  /\ hi * Superblock <= base + ChunkLen(base, K) \/ base + ChunkLen(base, K) = K

\* The chunks of a row follow each other and end with it.
LEMMA ChunksAre ==
  ASSUME NEW K \in Nat \ {0}
  PROVE  \E n \in Nat : /\ n > 0 /\ DOMAIN Chunks(K) = 1 .. n /\ Chunks(K) \in Seq(Int)
                        /\ Count(K) <= n * PerChunk
                        /\ \A c \in 1 .. n : \E lo, hi : ChunkHas(K, c, Chunks(K)[c], lo, hi)
  <1> DEFINE n == CeilDiv(K, InputChunk)
             m == Count(K)
  <1>0. /\ Superblock \in Nat /\ Superblock > 0 /\ Superblock \in Positive
        /\ PerChunk \in Nat /\ PerChunk > 0 /\ InputChunk = Superblock * PerChunk /\ InputChunk \in Positive
        /\ InputChunk \in Nat /\ InputChunk > 0
        /\ K \in Nat /\ K > 0
    BY SuperblockSizes DEF Positive
  <1>1. n \in Nat /\ K <= InputChunk * n /\ InputChunk * n < K + InputChunk /\ n > 0
    BY <1>0, Ceiling
  <1>2. m \in Nat /\ m > 0 /\ K <= Superblock * m /\ Superblock * m < K + Superblock
    BY <1>0, Ceiling DEF Count
  <1>3. Stepped(Chunks(K), 0, K, InputChunk)
    <2>1. 0 \in Int /\ K \in Int
      BY <1>0
    <2> QED BY <1>0, <2>1, StepsStep DEF Chunks
  <1>4. DOMAIN Chunks(K) = 1 .. n
    <2>1. K > 0 /\ K - 0 = K
      BY <1>0
    <2> QED BY <2>1 DEF Chunks, Steps
  <1> HIDE DEF n, m
  <1>5. Chunks(K) \in Seq(Int) /\ \A c \in 1 .. n : Chunks(K)[c] \in Int /\ Chunks(K)[c] = 0 + (c - 1) * InputChunk /\ 0 <= Chunks(K)[c] /\ Chunks(K)[c] < K
    <2>1. /\ Chunks(K) \in Seq(Int) /\ DOMAIN Chunks(K) = 1 .. Len(Chunks(K))
          /\ \A i \in 1 .. Len(Chunks(K)) : /\ Chunks(K)[i] \in Int /\ Chunks(K)[i] = 0 + (i - 1) * InputChunk
                                            /\ 0 <= Chunks(K)[i] /\ Chunks(K)[i] < K
      BY <1>3 DEF Stepped
    <2> QED BY <1>4, <2>1
  <1>6. \A x \in Int, y \in Int : x * y \in Int /\ x * y = y * x
    OBVIOUS
  <1>7. \A x \in Int : x * InputChunk = Superblock * (x * PerChunk) /\ x * PerChunk \in Int
    <2>1. \A x \in Int, y \in Int, z \in Int : x * (y * z) = y * (x * z)
      OBVIOUS
    <2> QED BY <1>0, <1>6, <2>1
  <1>8. ASSUME NEW c \in 1 .. n PROVE \E lo, hi : ChunkHas(K, c, Chunks(K)[c], lo, hi)
    <2> DEFINE base == Chunks(K)[c]
               lo == (c - 1) * PerChunk
               top == c * PerChunk
               len == ChunkLen(base, K)
               hi == Smaller(top, m)
    <2>0. c \in Int /\ c - 1 \in Int /\ c - 1 >= 0 /\ c <= n
      BY <1>1
    <2>1. base \in Nat /\ base < K /\ base = (c - 1) * InputChunk
      <3>1. base \in Int /\ base = 0 + (c - 1) * InputChunk /\ 0 <= base /\ base < K
        BY <1>5
      <3>2. (c - 1) * InputChunk \in Int
        BY <1>0, <1>6, <2>0
      <3> QED BY <3>1, <3>2
    <2>2. /\ lo \in Nat /\ top \in Nat /\ top = lo + PerChunk /\ base = Superblock * lo /\ base = lo * Superblock
          /\ Superblock * top = base + InputChunk
      <3>1. \A x \in Int, y \in Nat : x >= 0 => x * y \in Nat
        OBVIOUS
      <3>2. \A x \in Int, y \in Int : x * y = (x - 1) * y + y
        OBVIOUS
      <3>3. lo \in Nat /\ top = lo + PerChunk
        BY <1>0, <2>0, <3>1, <3>2
      <3>4. base = Superblock * lo
        BY <1>7, <2>0, <2>1
      <3>5. \A x \in Int, y \in Int, z \in Int : x * (y + z) = x * y + x * z
        OBVIOUS
      <3>6. Superblock * top = Superblock * lo + Superblock * PerChunk
        BY <1>0, <3>3, <3>5
      <3>7. Superblock * lo = lo * Superblock
        BY <1>0, <1>6, <3>3
      <3> QED BY <1>0, <3>3, <3>4, <3>6, <3>7
    <2>3. base \div Superblock = lo
      <3>1. 0 \in 0 .. Superblock - 1 /\ lo \in Int
        BY <1>0, <2>2
      <3>2. (Superblock * lo + 0) \div Superblock = lo
        BY <1>0, <3>1, Quotient
      <3>3. base = Superblock * lo + 0
        BY <2>1, <2>2
      <3> QED BY <3>2, <3>3
    <2>4. len = Smaller(InputChunk, K - base)
      BY DEF ChunkLen
    <2> HIDE DEF base, lo, top, len
    <2>5. lo < m
      <3> SUFFICES ASSUME ~(lo < m) PROVE FALSE
        OBVIOUS
      <3>1. m <= lo /\ m \in Int /\ lo \in Int
        BY <1>2, <2>2
      <3>2. Superblock * m <= Superblock * lo /\ Superblock * m \in Int
        BY <1>0, <3>1, TimesOrder
      <3> QED BY <1>0, <1>2, <2>1, <2>2, <3>2
    <2>6. hi \in Nat /\ lo < hi
      BY <1>0, <1>2, <2>2, <2>5 DEF Smaller
    <2>7. CASE InputChunk <= K - base
      <3>1. len = InputChunk
        BY <1>0, <2>1, <2>4, <2>7 DEF Smaller
      <3>2. base + len = Superblock * top
        BY <2>2, <3>1
      <3>3. CeilDiv(base + len, Superblock) = top
        <4>1. top \in Int
          BY <2>2
        <4> QED BY <1>0, <3>2, <4>1, CeilingOfProduct
      <3>4. top <= m
        <4> SUFFICES ASSUME ~(top <= m) PROVE FALSE
          OBVIOUS
        <4>1. m + 1 <= top /\ m + 1 \in Int /\ top \in Int
          BY <1>2, <2>2
        <4>2. Superblock * (m + 1) <= Superblock * top /\ Superblock * (m + 1) \in Int
          BY <1>0, <4>1, TimesOrder
        <4>3. \A x \in Nat, y \in Nat : x * (y + 1) = x * y + x /\ x * y \in Int
          OBVIOUS
        <4>4. Superblock * (m + 1) = Superblock * m + Superblock
          BY <1>0, <1>2, <4>3
        <4> QED BY <1>0, <1>2, <2>1, <2>2, <2>7, <4>2, <4>4
      <3>5. hi = top
        BY <1>2, <2>2, <3>4 DEF Smaller
      <3>6. hi * Superblock <= base + len /\ len \in Nat
        <4>1. top * Superblock = Superblock * top /\ Superblock * top \in Int
          BY <1>0, <1>6, <2>2
        <4> QED BY <1>0, <3>1, <3>2, <3>5, <4>1
      <3>7. ChunkHas(K, c, base, lo, hi)
        BY <2>1, <2>2, <2>3, <2>6, <3>3, <3>5, <3>6 DEF ChunkHas, lo, top, m, len
      <3> QED BY <3>7 DEF base
    <2>8. CASE ~(InputChunk <= K - base)
      <3>1. len = K - base /\ len \in Nat
        BY <1>0, <2>1, <2>4, <2>8 DEF Smaller
      <3>2. base + len = K
        BY <1>0, <2>1, <3>1
      <3>3. CeilDiv(base + len, Superblock) = m
        BY <3>2 DEF m, Count
      <3>4. m <= top
        <4> SUFFICES ASSUME ~(m <= top) PROVE FALSE
          OBVIOUS
        <4>1. top + 1 <= m /\ top + 1 \in Int /\ m \in Int
          BY <1>2, <2>2
        <4>2. Superblock * (top + 1) <= Superblock * m /\ Superblock * m \in Int
          BY <1>0, <4>1, TimesOrder
        <4>3. \A x \in Nat, y \in Nat : x * (y + 1) = x * y + x /\ x * y \in Int
          OBVIOUS
        <4>4. Superblock * (top + 1) = Superblock * top + Superblock
          BY <1>0, <2>2, <4>3
        <4> QED BY <1>0, <1>2, <2>1, <2>2, <2>8, <4>2, <4>4
      <3>5. hi = m
        BY <1>2, <2>2, <3>4 DEF Smaller
      <3>6. ChunkHas(K, c, base, lo, hi)
        BY <2>1, <2>2, <2>3, <2>6, <3>1, <3>2, <3>3, <3>5 DEF ChunkHas, lo, top, m, len
      <3> QED BY <3>6 DEF base
    <2> QED BY <2>7, <2>8
  <1>9. m <= n * PerChunk
    <2> DEFINE top == n * PerChunk
    <2>0. top \in Int /\ Superblock * top = n * InputChunk /\ n * InputChunk = InputChunk * n
      BY <1>0, <1>1, <1>6, <1>7
    <2> HIDE DEF top
    <2> SUFFICES ASSUME ~(m <= top) PROVE FALSE
      BY DEF top
    <2>1. top + 1 <= m /\ top + 1 \in Int /\ m \in Int
      BY <1>2, <2>0
    <2>2. Superblock * (top + 1) <= Superblock * m /\ Superblock * m \in Int
      BY <1>0, <2>1, TimesOrder
    <2>3. \A x \in Int, y \in Int : x * (y + 1) = x * y + x /\ x * y \in Int
      OBVIOUS
    <2>4. Superblock * (top + 1) = Superblock * top + Superblock /\ Superblock * top \in Int
      BY <1>0, <2>0, <2>3
    <2> QED BY <1>0, <1>1, <1>2, <2>0, <2>2, <2>4
  <1> QED BY <1>1, <1>4, <1>5, <1>8, <1>9 DEF m

\* A block that finds its part of the row, in shared memory and in place.
Found(K) == {b \in Nat \X (0 .. Count(K) - 1) : Finds(b, K, SharedInput(K)) /\ Finds(b, K, InputInPlace(K))}

\* The superblocks of a chunk are in it.
LEMMA ChunkFinds ==
  ASSUME NEW K \in Nat \ {0}, NEW c \in Int, NEW base, NEW lo, NEW hi, ChunkHas(K, c, base, lo, hi), NEW sb \in Int, lo <= sb, sb < hi
  PROVE  <<base, sb>> \in Found(K)
  <1> DEFINE from == sb * Superblock
             len == ChunkLen(base, K)
             n == Count(K)
             m == hi * Superblock
             top == c * PerChunk
  <1>1. /\ base \in Nat /\ base < K /\ base = lo * Superblock /\ lo \in Nat /\ hi \in Nat
        /\ hi = Smaller(top, n) /\ len \in Nat
        /\ m <= base + len \/ base + len = K
    BY DEF ChunkHas
  <1>2. K \in Nat /\ K > 0 /\ n \in Nat /\ n > 0
    BY CountIs
  <1>3. sb \in 0 .. n - 1
    <2> HIDE DEF n, top
    <2>1. hi <= n
      <3>1. top \in Int
        <4>1. PerChunk \in Int
          BY SuperblockSizes DEF Positive
        <4>2. \A x \in Int, y \in Int : x * y \in Int
          OBVIOUS
        <4> QED BY <4>1, <4>2 DEF top
      <3> QED BY <1>1, <1>2, <3>1 DEF Smaller
    <2> QED BY <1>1, <1>2, <2>1
  <1>4. Superblock \in Nat
    BY SuperblockSizes DEF Positive
  <1>5. base <= from /\ from + Superblock <= m /\ from \in Nat /\ m \in Nat
    <2>0. sb + 1 \in Int /\ sb + 1 <= hi /\ lo \in Int /\ hi \in Int /\ sb \in Nat
      BY <1>1
    <2>1. Superblock * lo <= Superblock * sb /\ Superblock * (sb + 1) <= Superblock * hi
      BY <1>4, <2>0, TimesOrder
    <2>2. \A x \in Nat, y \in Nat : x * y = y * x /\ x * (y + 1) = y * x + x /\ x * y \in Nat
      OBVIOUS
    <2> QED BY <1>1, <1>4, <2>0, <2>1, <2>2
  <1>6. ChunkLen(base, K) = Smaller(InputChunk, K - base) /\ len <= K - base
    <2>1. InputChunk \in Nat
      BY SuperblockSizes DEF Positive
    <2> QED BY <1>1, <1>2, <2>1 DEF ChunkLen, Smaller
  <1> HIDE DEF from, len, n, m
  <1>7. base \in 0 .. K - 1 /\ base \in Int /\ base \in Nat
    BY <1>1, <1>2
  <1>8. SharedInput(K)[base] = [j \in 0 .. len - 1 |-> base + j]
    <2>1. SharedInput(K)[base] = Staged(base, len)
      BY <1>7 DEF SharedInput, len
    <2> QED BY <1>1, <1>7, <2>1, StagedIs
  <1>9. InputInPlace(K)[base] = [j \in 0 .. K - base - 1 |-> base + j]
    BY <1>7 DEF InputInPlace
  <1>10. ASSUME NEW k \in from .. K - 1, k < from + Superblock
         PROVE  SharedInput(K)[base][k - base] = k /\ InputInPlace(K)[base][k - base] = k
    <2>1. k \in Int /\ from <= k /\ k <= K - 1
      BY <1>2, <1>5
    <2>2. k - base \in 0 .. len - 1 /\ k - base \in 0 .. K - base - 1 /\ base + (k - base) = k
      BY <1>1, <1>2, <1>4, <1>5, <1>6, <1>7, <1>10, <2>1
    <2> DEFINE j == k - base
    <2> HIDE DEF j
    <2>3. SharedInput(K)[base][j] = base + j /\ InputInPlace(K)[base][j] = base + j
      BY <1>8, <1>9, <2>2 DEF j
    <2> QED BY <2>2, <2>3 DEF j
  <1> DEFINE b == <<base, sb>>
  <1>11. b[1] = base /\ b[2] = sb /\ sb \in Nat /\ b \in Nat \X (0 .. n - 1)
    BY <1>2, <1>3, <1>7
  <1> HIDE DEF b
  <1>12. Finds(b, K, SharedInput(K)) /\ Finds(b, K, InputInPlace(K))
    BY <1>7, <1>10, <1>11 DEF Finds, from
  <1> QED BY <1>11, <1>12 DEF Found, n, b

\* The rows of a single chunk.
LEMMA WholeFinds ==
  ASSUME NEW K \in Nat \ {0}, NEW sb \in 0 .. Count(K) - 1
  PROVE  /\ Finds(<<0, sb>>, K, [base \in {0} |-> Staged(0, K)])
         /\ Finds(<<0, sb>>, K, InputInPlace(K))
  <1>1. K \in Nat /\ K > 0 /\ sb \in Nat /\ sb * Superblock \in 0 .. K - 1
    <2>1. Count(K) \in Nat /\ sb * Superblock \in 0 .. K - 1
      BY CountIs
    <2> QED BY <2>1
  <1>2. Staged(0, K) = [j \in 0 .. K - 1 |-> 0 + j]
    <2>1. 0 \in Int /\ K \in Nat
      BY <1>1
    <2> QED BY <2>1, StagedIs
  <1> DEFINE from == sb * Superblock
             whole == [base \in {0} |-> Staged(0, K)]
             b == <<0, sb>>
  <1>3. whole[0] = [j \in 0 .. K - 1 |-> 0 + j] /\ InputInPlace(K)[0] = [j \in 0 .. K - 0 - 1 |-> 0 + j]
    <2>1. 0 \in 0 .. K - 1
      BY <1>1
    <2> QED BY <1>2, <2>1 DEF InputInPlace
  <1>4. b[1] = 0 /\ b[2] = sb
    OBVIOUS
  <1> HIDE DEF from, whole, b
  <1>5. ASSUME NEW k \in from .. K - 1 PROVE whole[0][k - 0] = k /\ InputInPlace(K)[0][k - 0] = k
    <2>1. k \in Int /\ k \in 0 .. K - 1 /\ k - 0 = k /\ K - 0 - 1 = K - 1 /\ 0 + k = k
      BY <1>1 DEF from
    <2> QED BY <1>3, <2>1
  <1>6. Finds(b, K, whole) /\ Finds(b, K, InputInPlace(K))
    BY <1>1, <1>4, <1>5 DEF Finds, from
  <1> QED BY <1>6 DEF b, whole

\* The superblocks of a chunk that a warp takes.
LEMMA ChunkBlocksAre ==
  ASSUME NEW K \in Nat \ {0}, NEW c \in Int, NEW base, NEW lo, NEW hi, ChunkHas(K, c, base, lo, hi),
         NEW warp \in Nat, NEW warps \in Positive
  PROVE  LET turns == Steps(lo + warp, hi, warps) IN
         /\ ChunkBlocks(base, K, warp, warps) = [t \in DOMAIN turns |-> <<base, turns[t]>>]
         /\ ChunkBlocks(base, K, warp, warps) \in Seq(Found(K))
         /\ DOMAIN turns = 1 .. Len(turns) /\ Len(turns) \in Nat
         /\ Len(ChunkBlocks(base, K, warp, warps)) = Len(turns)
  <1> DEFINE turns == Steps(lo + warp, hi, warps)
             bs == ChunkBlocks(base, K, warp, warps)
  <1>1. base \div Superblock = lo /\ CeilDiv(base + ChunkLen(base, K), Superblock) = hi /\ lo \in Nat /\ hi \in Nat
    BY DEF ChunkHas
  <1>2. bs = [t \in DOMAIN turns |-> <<base, turns[t]>>]
    BY <1>1 DEF ChunkBlocks
  <1>3. Stepped(turns, lo + warp, hi, warps)
    <2>1. lo + warp \in Int /\ hi \in Int
      BY <1>1
    <2> QED BY <2>1, StepsStep
  <1> HIDE DEF turns
  <1>4. /\ DOMAIN turns = 1 .. Len(turns) /\ Len(turns) \in Nat
        /\ \A t \in 1 .. Len(turns) : turns[t] \in Int /\ lo + warp <= turns[t] /\ turns[t] < hi
    BY <1>3 DEF Stepped
  <1>5. \A t \in DOMAIN turns : <<base, turns[t]>> \in Found(K)
    <2> TAKE t \in DOMAIN turns
    <2>1. turns[t] \in Int /\ lo <= turns[t] /\ turns[t] < hi
      BY <1>1, <1>4
    <2> DEFINE sb == turns[t]
    <2> HIDE DEF sb
    <2>2. sb \in Int /\ lo <= sb /\ sb < hi
      BY <2>1 DEF sb
    <2>3. <<base, sb>> \in Found(K)
      BY <2>2, ChunkFinds
    <2> QED BY <2>3 DEF sb
  <1>6. bs \in Seq(Found(K)) /\ Len(bs) = Len(turns)
    <2> DEFINE n == Len(turns)
    <2>1. bs = [t \in 1 .. n |-> <<base, turns[t]>>] /\ \A t \in 1 .. n : <<base, turns[t]>> \in Found(K)
      BY <1>2, <1>4, <1>5
    <2>2. n \in Nat
      BY <1>4
    <2> HIDE DEF n, bs
    <2>3. bs \in [1 .. n -> Found(K)]
      BY <2>1
    <2>4. bs \in Seq(Found(K)) /\ Len(bs) = n
      BY <2>2, <2>3
    <2> QED BY <2>4 DEF n
  <1>7. bs = [t \in DOMAIN turns |-> <<base, turns[t]>>] /\ bs \in Seq(Found(K)) /\ DOMAIN turns = 1 .. Len(turns) /\ Len(turns) \in Nat
        /\ Len(bs) = Len(turns)
    BY <1>2, <1>4, <1>6
  <1> QED BY <1>7 DEF turns, bs

\* Two sequences, one after the other.
LEMMA JoinedAt ==
  ASSUME NEW S, NEW a \in Seq(S), NEW b \in Seq(S)
  PROVE  /\ a \o b \in Seq(S) /\ Len(a \o b) = Len(a) + Len(b) /\ Len(a) \in Nat /\ Len(b) \in Nat
         /\ \A i \in 1 .. Len(a) : (a \o b)[i] = a[i]
         /\ \A i \in 1 .. Len(b) : (a \o b)[Len(a) + i] = b[i]
         /\ \A i \in 1 .. Len(a) + Len(b) : (a \o b)[i] = IF i <= Len(a) THEN a[i] ELSE b[i - Len(a)]
  <1> DEFINE F == a \o b
             m == Len(a)
             n == Len(b)
  <1>1. F \in Seq(S) /\ Len(F) = m + n /\ m \in Nat /\ n \in Nat
        /\ \A i \in 1 .. m + n : F[i] = IF i <= m THEN a[i] ELSE b[i - m]
    BY ConcatProperties, LenProperties
  <1> HIDE DEF F, m, n
  <1>2. \A i \in 1 .. m : F[i] = a[i]
    BY <1>1
  <1>3. ASSUME NEW i \in 1 .. n PROVE F[m + i] = b[i]
    <2>1. m + i \in 1 .. m + n /\ ~(m + i <= m) /\ (m + i) - m = i
      BY <1>1
    <2> DEFINE k == m + i
    <2> HIDE DEF k
    <2>2. F[k] = b[k - m]
      BY <1>1, <2>1 DEF k
    <2>3. k - m = i
      BY <2>1 DEF k
    <2> QED BY <2>2, <2>3 DEF k
  <1> QED BY <1>1, <1>2, <1>3 DEF F, m, n

\* Where each sequence lies in the first ones put together.
Laid(F, off, seqs, j) ==
  /\ \A c \in 1 .. j : \A h \in 1 .. Len(seqs[c]) : off[c - 1] + h \in 1 .. Len(F) /\ F[off[c - 1] + h] = seqs[c][h]
  /\ \A g \in 1 .. Len(F) : \E c \in 1 .. j : \E h \in 1 .. Len(seqs[c]) : g = off[c - 1] + h

\* The places of what sequences put together hold.
LEMMA FlattenPlaces ==
  ASSUME NEW S, NEW n \in Nat, n > 0, NEW seqs \in [1 .. n -> Seq(S)]
  PROVE  /\ FlattenSeq(seqs) \in Seq(S)
         /\ \E off \in [0 .. n -> Nat] : Laid(FlattenSeq(seqs), off, seqs, n)
  <1>1. PICK f \in [0 .. n -> Seq(S)] : Together(f, seqs, n)
    BY FlattenSteps
  <1>2. f[0] = <<>> /\ (\A j \in 1 .. n : f[j] = f[j - 1] \o seqs[j]) /\ FlattenSeq(seqs) = f[n]
    BY <1>1 DEF Together
  <1> DEFINE off == [j \in 0 .. n |-> Len(f[j])]
  <1>3. \A j \in 0 .. n : f[j] \in Seq(S) /\ off[j] = Len(f[j]) /\ off[j] \in Nat
    <2> TAKE j \in 0 .. n
    <2>1. f[j] \in Seq(S) /\ off[j] = Len(f[j])
      OBVIOUS
    <2> HIDE DEF off
    <2> QED BY <2>1
  <1>4. off \in [0 .. n -> Nat]
    BY <1>3
  <1> HIDE DEF off
  <1> DEFINE Good == {j \in 0 .. n : Laid(f[j], off, seqs, j)}
  <1>5. 0 \in Good
    <2>1. 0 \in 0 .. n /\ 1 .. 0 = {} /\ Len(f[0]) = 0
      BY <1>2
    <2>2. Laid(f[0], off, seqs, 0)
      BY <2>1 DEF Laid
    <2> QED BY <2>1, <2>2
  <1>6. ASSUME NEW m \in 0 .. n, m < n, m \in Good PROVE m + 1 \in Good
    <2> DEFINE j == m + 1
               a == f[m]
               b == seqs[j]
               F == f[j]
    <2>1. j \in 1 .. n /\ j - 1 = m /\ m \in Int /\ j \in 0 .. n /\ j \in Int
      BY <1>6
    <2>2. F = a \o b /\ a \in Seq(S) /\ b \in Seq(S) /\ off[m] = Len(a)
      BY <1>2, <1>3, <2>1
    <2>3. Laid(a, off, seqs, m)
      BY <1>6
    <2> HIDE DEF a, b, F
    <2>4. /\ Len(F) = Len(a) + Len(b) /\ Len(a) \in Nat /\ Len(b) \in Nat
          /\ \A i \in 1 .. Len(a) : F[i] = a[i]
          /\ \A i \in 1 .. Len(b) : F[Len(a) + i] = b[i]
      BY <2>2, JoinedAt
    <2>5. ASSUME NEW c \in 1 .. j, NEW h \in 1 .. Len(seqs[c])
          PROVE  off[c - 1] + h \in 1 .. Len(F) /\ F[off[c - 1] + h] = seqs[c][h]
      <3>1. CASE c = j
        <4>1. h \in 1 .. Len(b) /\ off[c - 1] = Len(a) /\ seqs[c] = b
          BY <2>1, <2>2, <3>1 DEF b
        <4>2. Len(a) + h \in 1 .. Len(F) /\ F[Len(a) + h] = b[h]
          <5>1. h \in 1 .. Len(b)
            BY <4>1
          <5>2. F[Len(a) + h] = b[h]
            BY ONLY <2>4, <5>1
          <5>3. Len(a) + h \in 1 .. Len(F)
            BY ONLY <2>4, <5>1
          <5> QED BY ONLY <5>2, <5>3
        <4> QED BY <4>1, <4>2
      <3>2. CASE c # j
        <4>1. c \in 1 .. m
          BY <2>1, <3>2
        <4> DEFINE x == off[c - 1] + h
        <4>2. x \in 1 .. Len(a) /\ a[x] = seqs[c][h]
          BY <2>3, <4>1 DEF Laid
        <4> HIDE DEF x
        <4>3. x \in 1 .. Len(F) /\ F[x] = seqs[c][h]
          BY <2>4, <4>2
        <4> QED BY <4>3 DEF x
      <3> QED BY <3>1, <3>2
    <2>6. ASSUME NEW g \in 1 .. Len(F) PROVE \E c \in 1 .. j : \E h \in 1 .. Len(seqs[c]) : g = off[c - 1] + h
      <3>1. CASE g <= Len(a)
        <4>1. g \in 1 .. Len(a)
          BY <2>4, <3>1
        <4>2. PICK c \in 1 .. m : \E h \in 1 .. Len(seqs[c]) : g = off[c - 1] + h
          BY <2>3, <4>1 DEF Laid
        <4>3. c \in 1 .. j
          BY <2>1
        <4> QED BY <4>2, <4>3
      <3>2. CASE ~(g <= Len(a))
        <4> DEFINE h == g - Len(a)
        <4>1. h \in 1 .. Len(b) /\ g = Len(a) + h
          BY <2>4, <3>2
        <4> HIDE DEF h
        <4>2a. off[j - 1] = Len(a) /\ seqs[j] = b
          BY <2>1, <2>2 DEF b
        <4>2. j \in 1 .. j /\ h \in 1 .. Len(seqs[j]) /\ g = off[j - 1] + h
          BY <2>1, <4>1, <4>2a
        <4> QED BY <4>2
      <3> QED BY <3>1, <3>2
    <2>7. Laid(F, off, seqs, j)
      BY <2>5, <2>6 DEF Laid
    <2> QED BY <2>1, <2>7 DEF F
  <1>7. n \in Good
    <2> HIDE DEF Good
    <2>1. \A m \in 0 .. n : m \in Good
      BY <1>5, <1>6, UpTo
    <2> QED BY <2>1
  <1>8. FlattenSeq(seqs) = f[n] /\ f[n] \in Seq(S) /\ Laid(f[n], off, seqs, n)
    BY <1>2, <1>3, <1>7
  <1> QED BY <1>4, <1>8
(* The turns of several superblocks.                                        *)

\* The turns are groups of U, and then one by one.
LEMMA UnrolledAre ==
  ASSUME NEW S, NEW turns \in Seq(S), NEW U \in {2, 4}
  PROVE  LET full == Len(turns) \div U
             us == UnrolledTurns(turns, U) IN
         /\ us \in Seq(Seq(S)) /\ Len(us) = full + (Len(turns) - full * U)
         /\ \A g \in 1 .. Len(us) : Len(us[g]) = IF g <= full THEN U ELSE 1
         /\ \A g \in 1 .. Len(us) : \A s \in 1 .. Len(us[g]) :
              /\ (IF g <= full THEN (g - 1) * U + s ELSE full * U + (g - full)) \in 1 .. Len(turns)
              /\ us[g][s] = turns[IF g <= full THEN (g - 1) * U + s ELSE full * U + (g - full)]
  <1> DEFINE L == Len(turns)
             full == L \div U
             rest == L - full * U
             a == [g \in 1 .. full |-> SubSeq(turns, (g - 1) * U + 1, g * U)]
             b == [r \in 1 .. rest |-> <<turns[full * U + r]>>]
             us == UnrolledTurns(turns, U)
             Spot(g, s) == IF g <= full THEN (g - 1) * U + s ELSE full * U + (g - full)
  <1>1. L \in Nat /\ turns \in [1 .. L -> S]
    OBVIOUS
  <1> HIDE DEF L
  <1>2. full \in Nat /\ rest \in Nat /\ rest < U /\ full * U \in Nat /\ full * U + rest = L /\ U \in Nat
    <2>1. CASE U = 2
      BY <1>1, <2>1
    <2>2. CASE U = 4
      BY <1>1, <2>2
    <2> QED BY <2>1, <2>2
  <1>3. us = a \o b
    BY DEF UnrolledTurns, L
  <1>4. \A g \in 1 .. full : /\ SubSeq(turns, (g - 1) * U + 1, g * U) \in Seq(S) /\ Len(SubSeq(turns, (g - 1) * U + 1, g * U)) = U
                             /\ \A s \in 1 .. U : /\ (g - 1) * U + s \in 1 .. L
                                                  /\ SubSeq(turns, (g - 1) * U + 1, g * U)[s] = turns[(g - 1) * U + s]
    <2> TAKE g \in 1 .. full
    <2> DEFINE x == (g - 1) * U
    <2>1. x \in Nat /\ g * U = x + U /\ x + U <= L
      <3>1. g \in Int /\ 1 <= g /\ g <= full
        BY <1>2
      <3>2. CASE U = 2
        BY <1>1, <1>2, <3>1, <3>2
      <3>3. CASE U = 4
        BY <1>1, <1>2, <3>1, <3>3
      <3> QED BY <3>2, <3>3
    <2> DEFINE w == SubSeq(turns, x + 1, x + U)
    <2> HIDE DEF x, full
    <2>2. x + 1 \in Int /\ x + U \in Int /\ (x + U) - (x + 1) + 1 = U /\ U > 0
      BY <2>1
    <2>3. \A i \in x + 1 .. x + U : turns[i] \in S
      <3>1. \A i \in x + 1 .. x + U : i \in 1 .. L
        BY <1>1, <1>2, <2>1
      <3> QED BY <1>1, <3>1
    <2>4. \A i \in 1 .. U : (x + 1) + i - 1 = x + i /\ x + i \in 1 .. L
      BY <1>1, <1>2, <2>1
    <2>5. /\ w \in Seq(S) /\ Len(w) = (IF x + 1 <= x + U THEN (x + U) - (x + 1) + 1 ELSE 0)
          /\ \A i \in 1 .. (x + U) - (x + 1) + 1 : w[i] = turns[(x + 1) + i - 1]
      BY <2>2, <2>3, SubSeqProperties
    <2>6. w \in Seq(S) /\ Len(w) = U /\ \A i \in 1 .. U : w[i] = turns[x + i]
      <3> HIDE DEF w
      <3>1. x + 1 <= x + U /\ U \in Nat
        BY <1>2, <2>1, <2>2
      <3>2. \A i \in 1 .. U : w[i] = turns[(x + 1) + i - 1]
        BY <2>2, <2>5
      <3> QED BY <2>2, <2>4, <2>5, <3>1, <3>2
    <2> HIDE DEF w
    <2>7. SubSeq(turns, x + 1, g * U) = w
      BY <2>1 DEF w
    <2> QED BY <2>4, <2>6, <2>7 DEF x
  <1>5. \A r \in 1 .. rest : full * U + r \in 1 .. L /\ <<turns[full * U + r]>> \in Seq(S) /\ Len(<<turns[full * U + r]>>) = 1
    <2> TAKE r \in 1 .. rest
    <2> DEFINE y == full * U
    <2> HIDE DEF full, y
    <2>1. y + r \in 1 .. L
      BY <1>1, <1>2 DEF y
    <2>2. turns[y + r] \in S
      BY <1>1, <2>1
    <2> QED BY <2>1, <2>2 DEF y
  <1>6. a \in Seq(Seq(S)) /\ Len(a) = full /\ \A g \in 1 .. full : a[g] = SubSeq(turns, (g - 1) * U + 1, g * U)
    <2> HIDE DEF full
    <2>1. a \in [1 .. full -> Seq(S)] /\ \A g \in 1 .. full : a[g] = SubSeq(turns, (g - 1) * U + 1, g * U)
      BY <1>4
    <2> HIDE DEF a
    <2> DEFINE T == Seq(S)
    <2>2. a \in [1 .. full -> T] /\ full \in Nat
      BY <1>2, <2>1
    <2> HIDE DEF T
    <2>3. a \in Seq(T) /\ Len(a) = full
      BY <2>2
    <2> QED BY <2>1, <2>3 DEF T
  <1>7. b \in Seq(Seq(S)) /\ Len(b) = rest /\ \A r \in 1 .. rest : b[r] = <<turns[full * U + r]>>
    <2> HIDE DEF full, rest
    <2>1. b \in [1 .. rest -> Seq(S)] /\ \A r \in 1 .. rest : b[r] = <<turns[full * U + r]>>
      BY <1>5
    <2> HIDE DEF b
    <2> DEFINE T == Seq(S)
    <2>2. b \in [1 .. rest -> T] /\ rest \in Nat
      BY <1>2, <2>1
    <2> HIDE DEF T
    <2>3. b \in Seq(T) /\ Len(b) = rest
      BY <2>2
    <2> QED BY <2>1, <2>3 DEF T
  <1> HIDE DEF full, rest, a, b, us
  <1>8. /\ us \in Seq(Seq(S)) /\ Len(us) = full + rest
        /\ \A g \in 1 .. full + rest : us[g] = IF g <= full THEN a[g] ELSE b[g - full]
    <2>1. a \in Seq(Seq(S)) /\ b \in Seq(Seq(S)) /\ Len(a) = full /\ Len(b) = rest
      BY <1>6, <1>7
    <2> DEFINE T == Seq(S)
    <2> HIDE DEF T
    <2>2. a \in Seq(T) /\ b \in Seq(T)
      BY <2>1 DEF T
    <2>3. /\ a \o b \in Seq(T) /\ Len(a \o b) = Len(a) + Len(b)
          /\ \A i \in 1 .. Len(a) + Len(b) : (a \o b)[i] = IF i <= Len(a) THEN a[i] ELSE b[i - Len(a)]
      BY <2>2, JoinedAt
    <2> QED BY <1>3, <2>1, <2>3 DEF T
  <1>9. ASSUME NEW g \in 1 .. full + rest
        PROVE  /\ Len(us[g]) = IF g <= full THEN U ELSE 1
               /\ \A s \in 1 .. (IF g <= full THEN U ELSE 1) : Spot(g, s) \in 1 .. L /\ us[g][s] = turns[Spot(g, s)]
    <2>1. CASE g <= full
      <3>1. g \in 1 .. full /\ us[g] = SubSeq(turns, (g - 1) * U + 1, g * U)
        BY <1>2, <1>6, <1>8, <2>1
      <3> QED BY <1>4, <2>1, <3>1
    <2>2. CASE ~(g <= full)
      <3>1. g - full \in 1 .. rest /\ us[g] = <<turns[full * U + (g - full)]>>
        <4>1. g - full \in 1 .. rest
          BY <1>2, <2>2
        <4> QED BY <1>7, <1>8, <2>2, <4>1
      <3>2. full * U + (g - full) \in 1 .. L
        BY <1>5, <3>1
      <3>3. Len(us[g]) = 1 /\ us[g][1] = turns[full * U + (g - full)] /\ \A s \in 1 .. 1 : s = 1
        BY <3>1
      <3> QED BY <2>2, <3>2, <3>3
    <2> QED BY <2>1, <2>2
  <1> QED BY <1>8, <1>9 DEF full, rest, us, L

\* Turns us hold each of those of a sequence once, at the place that at says.
HoldOnce(us, turns, at, U) ==
  /\ \A g \in 1 .. Len(us) : \A s \in 1 .. Len(us[g]) : s \in 1 .. U /\ at[g][s] \in 1 .. Len(turns) /\ us[g][s] = turns[at[g][s]]
  /\ \A g \in 1 .. Len(us), g2 \in 1 .. Len(us) : \A s \in 1 .. Len(us[g]), s2 \in 1 .. Len(us[g2]) :
       at[g][s] = at[g2][s2] => g = g2 /\ s = s2
  /\ \A t \in 1 .. Len(turns) : \E g \in 1 .. Len(us) : \E s \in 1 .. Len(us[g]) : at[g][s] = t

\* Every one is in one turn.
LEMMA UnrolledOnce ==
  ASSUME NEW S, NEW turns \in Seq(S), NEW U \in {2, 4}
  PROVE  /\ UnrolledTurns(turns, U) \in Seq(Seq(S))
         /\ \E at : HoldOnce(UnrolledTurns(turns, U), turns, at, U)
  <1> DEFINE L == Len(turns)
             us == UnrolledTurns(turns, U)
             full == L \div U
             rest == L - full * U
             Spot(g, s) == IF g <= full THEN (g - 1) * U + s ELSE full * U + (g - full)
             at == [g \in 1 .. Len(us) |-> [s \in 1 .. U |-> Spot(g, s)]]
             W(g) == IF g <= full THEN U ELSE 1
  <1>1. /\ us \in Seq(Seq(S)) /\ Len(us) = full + rest
        /\ \A g \in 1 .. Len(us) : Len(us[g]) = W(g)
        /\ \A g \in 1 .. Len(us) : \A s \in 1 .. Len(us[g]) : Spot(g, s) \in 1 .. L /\ us[g][s] = turns[Spot(g, s)]
    BY UnrolledAre
  <1>2. L \in Nat
    OBVIOUS
  <1> HIDE DEF us, L
  <1>3. full \in Nat /\ rest \in Nat /\ U \in Nat /\ full * U + rest = L /\ U > 0 /\ full * U \in Int
    <2>1. CASE U = 2
      BY <1>2, <2>1
    <2>2. CASE U = 4
      BY <1>2, <2>2
    <2> QED BY <2>1, <2>2
  <1> DEFINE n == full + rest
  <1>4. \A g \in 1 .. n : W(g) \in 1 .. U
    BY <1>3
  <1>5. \A g \in 1 .. n, g2 \in 1 .. n : \A s \in 1 .. W(g), s2 \in 1 .. W(g2) : Spot(g, s) = Spot(g2, s2) => g = g2 /\ s = s2
    <2> HIDE DEF full, rest
    <2>1. CASE U = 2
      BY <1>3, <2>1
    <2>2. CASE U = 4
      BY <1>3, <2>2
    <2> QED BY <2>1, <2>2
  <1>6. \A t \in 1 .. L : \E g \in 1 .. n : \E s \in 1 .. W(g) : Spot(g, s) = t
    <2> TAKE t \in 1 .. L
    <2>0. t \in Int /\ 1 <= t /\ t <= L
      BY <1>2
    <2>1. CASE t <= full * U
      <3> DEFINE q == (t - 1) \div U
                 r == (t - 1) % U
                 g == q + 1
                 s == r + 1
      <3>0. t - 1 = U * q + r /\ r \in 0 .. U - 1 /\ q \in Nat
        <4>1. t - 1 \in Int /\ t - 1 \in Nat /\ U \in Positive
          BY <1>3, <2>0 DEF Positive
        <4> QED BY <4>1, DivMod
      <3>1. g \in 1 .. full /\ s \in 1 .. U /\ (g - 1) * U + s = t
        <4> HIDE DEF q, r, full, rest
        <4>1. CASE U = 2
          BY <1>3, <2>0, <2>1, <3>0, <4>1
        <4>2. CASE U = 4
          BY <1>3, <2>0, <2>1, <3>0, <4>2
        <4> QED BY <4>1, <4>2
      <3> HIDE DEF g, s, full, rest
      <3>2. g \in 1 .. n /\ g <= full
        BY <1>3, <3>1
      <3>3. s \in 1 .. W(g) /\ Spot(g, s) = t
        BY <3>1, <3>2
      <3> QED BY <3>2, <3>3
    <2>2. CASE ~(t <= full * U)
      <3> DEFINE g == full + (t - full * U)
      <3>1. g \in 1 .. n /\ ~(g <= full) /\ full * U + (g - full) = t
        <4> DEFINE y == full * U
        <4>1. y \in Int /\ y + rest = L
          BY <1>3
        <4> HIDE DEF y, full, rest
        <4>2. full + (t - y) \in 1 .. full + rest /\ ~(full + (t - y) <= full) /\ y + ((full + (t - y)) - full) = t
          BY <1>3, <2>0, <2>2, <4>1 DEF y
        <4> QED BY <4>2 DEF y
      <3> HIDE DEF g, full, rest
      <3>2. 1 \in 1 .. W(g) /\ Spot(g, 1) = t
        BY <3>1
      <3> QED BY <3>1, <3>2
    <2> QED BY <2>1, <2>2
  <1>7. \A g \in 1 .. n, s \in 1 .. U : Spot(g, s) \in Int
    <2> HIDE DEF full, rest
    <2>1. CASE U = 2
      BY <1>3, <2>1
    <2>2. CASE U = 4
      BY <1>3, <2>2
    <2> QED BY <2>1, <2>2
  <1>8. Len(us) = n
    BY <1>1
  <1> HIDE DEF Spot, W, n
  <1>9. at \in [1 .. n -> [1 .. U -> Int]] /\ \A g \in 1 .. n, s \in 1 .. U : at[g][s] = Spot(g, s)
    BY <1>7, <1>8
  <1>10. \A g \in 1 .. n : Len(us[g]) = W(g)
    BY <1>1, <1>8
  <1>11. \A g \in 1 .. n : \A s \in 1 .. W(g) : s \in 1 .. U
    <2>1. U \in Nat
      BY <1>3
    <2> QED BY <1>4, <2>1
  <1> HIDE DEF at
  <1>12. \A g \in 1 .. n : \A s \in 1 .. Len(us[g]) : s \in 1 .. U /\ at[g][s] \in 1 .. L /\ us[g][s] = turns[at[g][s]]
    BY <1>1, <1>8, <1>9, <1>10, <1>11
  <1>13. \A g \in 1 .. n, g2 \in 1 .. n : \A s \in 1 .. Len(us[g]), s2 \in 1 .. Len(us[g2]) :
           at[g][s] = at[g2][s2] => g = g2 /\ s = s2
    BY <1>5, <1>9, <1>10, <1>11
  <1>14. \A t \in 1 .. L : \E g \in 1 .. n : \E s \in 1 .. Len(us[g]) : at[g][s] = t
    BY <1>6, <1>9, <1>10, <1>11
  <1>15. HoldOnce(us, turns, at, U)
    BY <1>8, <1>12, <1>13, <1>14 DEF HoldOnce, L
  <1>16. us \in Seq(Seq(S)) /\ \E x : HoldOnce(us, turns, x, U)
    BY <1>1, <1>15
  <1> QED BY <1>16 DEF us

\* The part of a warp of what is between lo and hi, each once.
OfWarp(turns, lo, hi, d, warp) ==
  /\ Len(turns) \in Nat /\ DOMAIN turns = 1 .. Len(turns)
  /\ \A t \in 1 .. Len(turns) : turns[t] \in lo .. hi - 1 /\ (turns[t] - lo) % d = warp
  /\ \A t \in 1 .. Len(turns), t2 \in 1 .. Len(turns) : turns[t] = turns[t2] => t = t2
  /\ \A k \in lo .. hi - 1 : (k - lo) % d = warp => \E t \in 1 .. Len(turns) : turns[t] = k

\* The warps divide what is between lo and hi by its remainder.
LEMMA WarpSteps ==
  ASSUME NEW lo \in Nat, NEW hi \in Nat, NEW d \in {1, 2, 4}, NEW warp \in 0 .. d - 1
  PROVE  OfWarp(Steps(lo + warp, hi, d), lo, hi, d, warp)
  <1> DEFINE turns == Steps(lo + warp, hi, d)
             L == Len(turns)
  <1>0. d \in Positive /\ warp \in Nat /\ lo + warp \in Int /\ hi \in Int /\ d \in Nat
    BY DEF Positive
  <1>1. Stepped(turns, lo + warp, hi, d)
    BY <1>0, StepsStep
  <1> HIDE DEF turns
  <1>2. /\ L \in Nat /\ DOMAIN turns = 1 .. L
        /\ \A i \in 1 .. L : turns[i] \in Int /\ turns[i] = lo + warp + (i - 1) * d /\ lo + warp <= turns[i] /\ turns[i] < hi
        /\ \A i \in 1 .. L, j \in 1 .. L : i < j => turns[i] + d <= turns[j]
        /\ \A k \in lo + warp .. hi - 1 : \E i \in 1 .. L : turns[i] <= k /\ k < turns[i] + d
    BY <1>1 DEF Stepped
  <1> HIDE DEF L
  <1>3. \A t \in 1 .. L : turns[t] \in lo .. hi - 1 /\ (turns[t] - lo) % d = warp
    <2> TAKE t \in 1 .. L
    <2> DEFINE x == turns[t]
    <2>1. x \in Int /\ x = lo + warp + (t - 1) * d /\ lo + warp <= x /\ x < hi /\ t \in Int
      BY <1>2
    <2> HIDE DEF x
    <2>2. x \in lo .. hi - 1
      BY <1>0, <2>1
    <2>3. (x - lo) % d = warp
      <3>1. CASE d = 1
        BY <1>0, <2>1, <3>1
      <3>2. CASE d = 2
        BY <1>0, <2>1, <3>2
      <3>3. CASE d = 4
        BY <1>0, <2>1, <3>3
      <3> QED BY <3>1, <3>2, <3>3
    <2> QED BY <2>2, <2>3 DEF x
  <1>4. ASSUME NEW t \in 1 .. L, NEW t2 \in 1 .. L, turns[t] = turns[t2] PROVE t = t2
    <2>1. t \in Int /\ t2 \in Int /\ turns[t] \in Int /\ turns[t2] \in Int
      BY <1>2
    <2>2. t < t2 => turns[t] + d <= turns[t2]
      BY <1>2
    <2>3. t2 < t => turns[t2] + d <= turns[t]
      BY <1>2
    <2>4. d > 0 /\ d \in Int
      OBVIOUS
    <2>5. ~(t < t2) /\ ~(t2 < t)
      BY <1>4, <2>1, <2>2, <2>3, <2>4
    <2> QED BY <2>1, <2>5
  <1>5. ASSUME NEW k \in lo .. hi - 1, (k - lo) % d = warp PROVE \E t \in 1 .. L : turns[t] = k
    <2>1. k \in Int /\ lo <= k /\ k < hi
      OBVIOUS
    <2>2. k \in lo + warp .. hi - 1
      <3>1. CASE d = 1
        BY <1>0, <1>5, <2>1, <3>1
      <3>2. CASE d = 2
        BY <1>0, <1>5, <2>1, <3>2
      <3>3. CASE d = 4
        BY <1>0, <1>5, <2>1, <3>3
      <3> QED BY <3>1, <3>2, <3>3
    <2>3. PICK t \in 1 .. L : turns[t] <= k /\ k < turns[t] + d
      BY <1>2, <2>2
    <2> DEFINE x == turns[t]
    <2>4. x \in Int /\ (x - lo) % d = warp /\ x <= k /\ k < x + d
      BY <1>2, <1>3, <2>3
    <2> HIDE DEF x
    <2>5. x = k
      <3>1. CASE d = 1
        BY <1>0, <1>5, <2>1, <2>4, <3>1
      <3>2. CASE d = 2
        BY <1>0, <1>5, <2>1, <2>4, <3>2
      <3>3. CASE d = 4
        BY <1>0, <1>5, <2>1, <2>4, <3>3
      <3> QED BY <3>1, <3>2, <3>3
    <2> QED BY <2>5 DEF x
  <1> QED BY <1>2, <1>3, <1>4, <1>5 DEF turns, L, OfWarp

\* The chains of a warp in the c-th chunk, or in all of them.
Mine(sb, K, warp, d) == sb \in 0 .. Count(K) - 1 /\ (sb % PerChunk) % d = warp
InChunk(us, K, c, warp, d) ==
  /\ \A g \in 1 .. Len(us) : \A s \in 1 .. Len(us[g]) : Mine(us[g][s][2], K, warp, d) /\ us[g][s][2] \div PerChunk = c - 1
  /\ \A g \in 1 .. Len(us), g2 \in 1 .. Len(us) : \A s \in 1 .. Len(us[g]), s2 \in 1 .. Len(us[g2]) :
       us[g][s][2] = us[g2][s2][2] => g = g2 /\ s = s2
  /\ \A sb : Mine(sb, K, warp, d) /\ sb \div PerChunk = c - 1 => \E g \in 1 .. Len(us) : \E s \in 1 .. Len(us[g]) : us[g][s][2] = sb
InWarp(us, K, warp, d) ==
  /\ \A g \in 1 .. Len(us) : \A s \in 1 .. Len(us[g]) : Mine(us[g][s][2], K, warp, d)
  /\ \A g \in 1 .. Len(us), g2 \in 1 .. Len(us) : \A s \in 1 .. Len(us[g]), s2 \in 1 .. Len(us[g2]) :
       us[g][s][2] = us[g2][s2][2] => g = g2 /\ s = s2
  /\ \A sb : Mine(sb, K, warp, d) => \E g \in 1 .. Len(us) : \E s \in 1 .. Len(us[g]) : us[g][s][2] = sb

\* A chunk's part of the superblocks.
LEMMA ChunkSpan ==
  ASSUME NEW K \in Nat \ {0}, NEW c \in Nat \ {0}, NEW base, NEW lo, NEW hi, ChunkHas(K, c, base, lo, hi)
  PROVE  /\ lo \in Nat /\ hi \in Nat
         /\ \A sb \in Int : sb \in lo .. hi - 1 <=> sb \in 0 .. Count(K) - 1 /\ sb \div PerChunk = c - 1
         /\ \A sb \in lo .. hi - 1 : sb % PerChunk = sb - lo
  <1> DEFINE P == PerChunk
             n == Count(K)
             top == c * P
  <1>1. P \in Nat /\ P > 0 /\ P \in Positive /\ n \in Nat
    BY SuperblockSizes, CountIs DEF Positive
  <1>2. lo \in Nat /\ hi \in Nat /\ lo = (c - 1) * P /\ hi = Smaller(top, n)
    BY DEF ChunkHas
  <1>3. c \in Nat /\ c - 1 \in Nat /\ top \in Int /\ top = lo + P /\ lo = P * (c - 1)
    <2>1. c \in Nat /\ c >= 1 /\ c - 1 \in Nat
      OBVIOUS
    <2>2. \A x \in Nat, y \in Nat : x * y \in Int /\ x * y = y * x
      OBVIOUS
    <2>3. \A x \in Nat, y \in Int : (y + 1) * x = y * x + x
      OBVIOUS
    <2>4. (c - 1) + 1 = c
      BY <2>1
    <2> QED BY <1>1, <1>2, <2>1, <2>2, <2>3, <2>4
  <1> HIDE DEF P, n, top
  <1>4. ASSUME NEW sb \in lo .. hi - 1 PROVE sb \in 0 .. n - 1 /\ sb \div P = c - 1 /\ sb % P = sb - lo
    <2>1. sb \in Int /\ lo <= sb /\ sb < lo + P /\ sb < n
      BY <1>1, <1>2, <1>3 DEF Smaller
    <2> DEFINE q == c - 1
               r == sb - lo
    <2>2. r \in 0 .. P - 1 /\ q \in Int /\ sb = P * q + r
      BY <1>1, <1>2, <1>3, <2>1
    <2> HIDE DEF q, r
    <2>3. sb \div P = q /\ sb % P = r
      BY <1>1, <2>2, Quotient
    <2>4. sb \in 0 .. n - 1
      BY <1>1, <1>2, <2>1
    <2> QED BY <2>3, <2>4 DEF q, r
  <1>5. ASSUME NEW sb \in 0 .. n - 1, sb \div P = c - 1 PROVE sb \in lo .. hi - 1
    <2> DEFINE r == sb % P
    <2>1. sb \in Int /\ sb \in Nat /\ sb < n
      BY <1>1
    <2>2. sb = P * (sb \div P) + (sb % P) /\ sb % P \in 0 .. P - 1
      BY <1>1, <2>1, DivMod
    <2>3. sb = P * (c - 1) + r /\ r \in 0 .. P - 1
      BY <1>5, <2>2
    <2> HIDE DEF r
    <2>4. sb = lo + r
      BY <1>3, <2>3
    <2> QED BY <1>1, <1>2, <1>3, <2>1, <2>3, <2>4 DEF Smaller
  <1> QED BY <1>2, <1>4, <1>5 DEF P, n

\* A warp has its part of each chunk once.
LEMMA ChunkOnce ==
  ASSUME NEW K \in Nat \ {0}, NEW c \in Nat \ {0}, NEW base, NEW lo, NEW hi, ChunkHas(K, c, base, lo, hi),
         NEW d \in {1, 2, 4}, NEW warp \in 0 .. d - 1, NEW U \in {2, 4}
  PROVE  /\ UnrolledTurns(ChunkBlocks(base, K, warp, d), U) \in Seq(Seq(Found(K)))
         /\ InChunk(UnrolledTurns(ChunkBlocks(base, K, warp, d), U), K, c, warp, d)
  <1> DEFINE turns == Steps(lo + warp, hi, d)
             bs == ChunkBlocks(base, K, warp, d)
             us == UnrolledTurns(bs, U)
             L == Len(turns)
             n == Count(K)
  <1>0. warp \in Nat /\ d \in Positive /\ c \in Int
    BY DEF Positive
  <1>1. /\ bs = [t \in DOMAIN turns |-> <<base, turns[t]>>] /\ bs \in Seq(Found(K))
        /\ DOMAIN turns = 1 .. L /\ L \in Nat /\ Len(bs) = L
    BY <1>0, ChunkBlocksAre
  <1>2. /\ lo \in Nat /\ hi \in Nat
        /\ \A sb \in Int : sb \in lo .. hi - 1 <=> sb \in 0 .. n - 1 /\ sb \div PerChunk = c - 1
        /\ \A sb \in lo .. hi - 1 : sb % PerChunk = sb - lo
    BY ChunkSpan
  <1>3. /\ \A t \in 1 .. L : turns[t] \in lo .. hi - 1 /\ (turns[t] - lo) % d = warp
        /\ \A t \in 1 .. L, t2 \in 1 .. L : turns[t] = turns[t2] => t = t2
        /\ \A k \in lo .. hi - 1 : (k - lo) % d = warp => \E t \in 1 .. L : turns[t] = k
    <2>1. OfWarp(turns, lo, hi, d, warp)
      BY <1>2, WarpSteps
    <2> HIDE DEF turns
    <2> QED BY <2>1 DEF OfWarp
  <1> DEFINE F == Found(K)
  <1> HIDE DEF turns, bs, L, n, F
  <1>4. bs \in Seq(F)
    BY <1>1 DEF F
  <1>5. us \in Seq(Seq(F)) /\ \E at : HoldOnce(us, bs, at, U)
    BY <1>4, UnrolledOnce
  <1>6. PICK at : HoldOnce(us, bs, at, U)
    BY <1>5
  <1> HIDE DEF us
  <1>7. /\ \A g \in 1 .. Len(us) : \A s \in 1 .. Len(us[g]) : at[g][s] \in 1 .. L /\ us[g][s] = bs[at[g][s]]
        /\ \A g \in 1 .. Len(us), g2 \in 1 .. Len(us) : \A s \in 1 .. Len(us[g]), s2 \in 1 .. Len(us[g2]) :
             at[g][s] = at[g2][s2] => g = g2 /\ s = s2
        /\ \A t \in 1 .. L : \E g \in 1 .. Len(us) : \E s \in 1 .. Len(us[g]) : at[g][s] = t
    BY <1>1, <1>6 DEF HoldOnce
  <1>8. \A g \in 1 .. Len(us) : \A s \in 1 .. Len(us[g]) : us[g][s][2] = turns[at[g][s]]
    <2>1. \A t \in 1 .. L : bs[t][2] = turns[t]
      BY <1>1
    <2> TAKE g \in 1 .. Len(us)
    <2> TAKE s \in 1 .. Len(us[g])
    <2> DEFINE x == at[g][s]
    <2>2. x \in 1 .. L /\ us[g][s] = bs[x]
      BY <1>7
    <2> HIDE DEF x
    <2>3. us[g][s][2] = turns[x]
      BY <2>1, <2>2
    <2> QED BY <2>3 DEF x
  <1>9. \A t \in 1 .. L : Mine(turns[t], K, warp, d) /\ turns[t] \div PerChunk = c - 1
    <2> TAKE t \in 1 .. L
    <2> DEFINE sb == turns[t]
    <2>1. sb \in lo .. hi - 1 /\ (sb - lo) % d = warp
      BY <1>3
    <2> HIDE DEF sb
    <2>2. sb \in Int
      BY <1>2, <2>1
    <2>3. sb \in 0 .. n - 1 /\ sb \div PerChunk = c - 1 /\ sb % PerChunk = sb - lo
      BY <1>2, <2>1, <2>2
    <2>4. (sb % PerChunk) % d = warp
      BY <2>1, <2>3
    <2>5. Mine(sb, K, warp, d)
      BY <2>3, <2>4 DEF Mine, n
    <2> QED BY <2>3, <2>5 DEF sb
  <1>10. \A g \in 1 .. Len(us) : \A s \in 1 .. Len(us[g]) : Mine(us[g][s][2], K, warp, d) /\ us[g][s][2] \div PerChunk = c - 1
    <2> TAKE g \in 1 .. Len(us)
    <2> TAKE s \in 1 .. Len(us[g])
    <2> DEFINE x == at[g][s]
    <2>1. x \in 1 .. L
      BY <1>7
    <2>2. us[g][s][2] = turns[x]
      BY <1>8
    <2> HIDE DEF x
    <2>3. Mine(turns[x], K, warp, d) /\ turns[x] \div PerChunk = c - 1
      BY <1>9, <2>1
    <2> QED BY <2>2, <2>3
  <1>11. ASSUME NEW g \in 1 .. Len(us), NEW g2 \in 1 .. Len(us), NEW s \in 1 .. Len(us[g]), NEW s2 \in 1 .. Len(us[g2]),
                us[g][s][2] = us[g2][s2][2]
         PROVE  g = g2 /\ s = s2
    <2> DEFINE x == at[g][s]
               y == at[g2][s2]
    <2>1. turns[x] = turns[y] /\ x \in 1 .. L /\ y \in 1 .. L
      <3>1. us[g][s][2] = turns[x] /\ us[g2][s2][2] = turns[y]
        BY <1>8
      <3>2. x \in 1 .. L /\ y \in 1 .. L
        BY <1>7
      <3> QED BY <1>11, <3>1, <3>2
    <2> HIDE DEF x, y
    <2>1a. x = y
      BY <1>3, <2>1
    <2>2. at[g][s] = at[g2][s2]
      BY <2>1a DEF x, y
    <2> QED BY <1>7, <2>2
  <1>12. ASSUME NEW sb, Mine(sb, K, warp, d), sb \div PerChunk = c - 1
         PROVE  \E g \in 1 .. Len(us) : \E s \in 1 .. Len(us[g]) : us[g][s][2] = sb
    <2>1. sb \in 0 .. n - 1 /\ (sb % PerChunk) % d = warp
      BY <1>12 DEF Mine, n
    <2>2. sb \in Int /\ sb \in lo .. hi - 1
      <3>1. sb \in Int
        BY <2>1
      <3> QED BY <1>2, <1>12, <2>1, <3>1
    <2>3. (sb - lo) % d = warp
      BY <1>2, <2>1, <2>2
    <2>4. PICK t \in 1 .. L : turns[t] = sb
      BY <1>3, <2>2, <2>3
    <2>5. PICK g \in 1 .. Len(us) : \E s \in 1 .. Len(us[g]) : at[g][s] = t
      BY <1>7
    <2>6. PICK s \in 1 .. Len(us[g]) : at[g][s] = t
      BY <2>5
    <2> QED BY <1>8, <2>4, <2>6
  <1>13. InChunk(us, K, c, warp, d)
    BY <1>10, <1>11, <1>12 DEF InChunk
  <1> QED BY <1>5, <1>13 DEF us, bs, F

\* A warp has its part of every chunk once.
LEMMA WarpOnce ==
  ASSUME NEW K \in Nat \ {0}, NEW d \in {1, 2, 4}, NEW warp \in 0 .. d - 1, NEW U \in {2, 4}
  PROVE  /\ WarpTurns(K, warp, d, U) \in Seq(Seq(Found(K)))
         /\ InWarp(WarpTurns(K, warp, d, U), K, warp, d)
  <1> DEFINE seqs == [c \in DOMAIN Chunks(K) |-> UnrolledTurns(ChunkBlocks(Chunks(K)[c], K, warp, d), U)]
             us == WarpTurns(K, warp, d, U)
             F == Found(K)
             T == Seq(F)
  <1>1. PICK n \in Nat : /\ n > 0 /\ DOMAIN Chunks(K) = 1 .. n
                         /\ Count(K) <= n * PerChunk
                         /\ \A c \in 1 .. n : \E lo, hi : ChunkHas(K, c, Chunks(K)[c], lo, hi)
    BY ChunksAre
  <1>2. us = FlattenSeq(seqs)
    BY DEF WarpTurns
  <1>3. ASSUME NEW c \in 1 .. n PROVE seqs[c] \in Seq(T) /\ InChunk(seqs[c], K, c, warp, d)
    <2>1. PICK lo, hi : ChunkHas(K, c, Chunks(K)[c], lo, hi)
      BY <1>1
    <2> DEFINE base == Chunks(K)[c]
    <2>2. seqs[c] = UnrolledTurns(ChunkBlocks(base, K, warp, d), U)
      BY <1>1
    <2> HIDE DEF base, seqs
    <2>3. c \in Nat \ {0} /\ ChunkHas(K, c, base, lo, hi)
      BY <2>1 DEF base
    <2>4. UnrolledTurns(ChunkBlocks(base, K, warp, d), U) \in Seq(Seq(Found(K)))
      BY <2>3, ChunkOnce
    <2>5. InChunk(UnrolledTurns(ChunkBlocks(base, K, warp, d), U), K, c, warp, d)
      BY <2>3, ChunkOnce
    <2> QED BY <2>2, <2>4, <2>5
  <1>4. seqs \in [1 .. n -> Seq(T)]
    <2>1. seqs = [c \in 1 .. n |-> seqs[c]]
      BY <1>1
    <2> HIDE DEF seqs, T
    <2> QED BY <1>3, <2>1
  <1> HIDE DEF T, seqs, us
  <1>5. us \in Seq(T) /\ \E x \in [0 .. n -> Nat] : Laid(us, x, seqs, n)
    BY <1>1, <1>2, <1>4, FlattenPlaces
  <1>6. PICK off \in [0 .. n -> Nat] : Laid(us, off, seqs, n)
    BY <1>5
  <1>7. /\ \A c \in 1 .. n : \A h \in 1 .. Len(seqs[c]) : off[c - 1] + h \in 1 .. Len(us) /\ us[off[c - 1] + h] = seqs[c][h]
        /\ \A g \in 1 .. Len(us) : \E c \in 1 .. n : \E h \in 1 .. Len(seqs[c]) : g = off[c - 1] + h
    BY <1>6 DEF Laid
  <1>8. \A c \in 1 .. n : \A h \in 1 .. Len(seqs[c]) : \A s \in 1 .. Len(seqs[c][h]) :
          Mine(seqs[c][h][s][2], K, warp, d) /\ seqs[c][h][s][2] \div PerChunk = c - 1
    <2> TAKE c \in 1 .. n
    <2> DEFINE u == seqs[c]
    <2>1. InChunk(u, K, c, warp, d)
      BY <1>3
    <2> HIDE DEF u
    <2>2. \A h \in 1 .. Len(u) : \A s \in 1 .. Len(u[h]) : Mine(u[h][s][2], K, warp, d) /\ u[h][s][2] \div PerChunk = c - 1
      BY <2>1 DEF InChunk
    <2> QED BY <2>2 DEF u
  <1>9. ASSUME NEW g \in 1 .. Len(us), NEW s \in 1 .. Len(us[g]) PROVE Mine(us[g][s][2], K, warp, d)
    <2>1. PICK c \in 1 .. n : \E h \in 1 .. Len(seqs[c]) : g = off[c - 1] + h
      BY <1>7
    <2>2. PICK h \in 1 .. Len(seqs[c]) : g = off[c - 1] + h
      BY <2>1
    <2> DEFINE x == seqs[c][h]
    <2>3. us[g] = x
      BY <1>7, <2>2
    <2>4. \A t \in 1 .. Len(x) : Mine(x[t][2], K, warp, d)
      BY <1>8
    <2> HIDE DEF x
    <2> QED BY <2>3, <2>4
  <1>10. ASSUME NEW g \in 1 .. Len(us), NEW g2 \in 1 .. Len(us), NEW s \in 1 .. Len(us[g]), NEW s2 \in 1 .. Len(us[g2]),
                us[g][s][2] = us[g2][s2][2]
         PROVE  g = g2 /\ s = s2
    <2>1. PICK c \in 1 .. n : \E h \in 1 .. Len(seqs[c]) : g = off[c - 1] + h
      BY <1>7
    <2>2. PICK h \in 1 .. Len(seqs[c]) : g = off[c - 1] + h
      BY <2>1
    <2>3. PICK c2 \in 1 .. n : \E h2 \in 1 .. Len(seqs[c2]) : g2 = off[c2 - 1] + h2
      BY <1>7
    <2>4. PICK h2 \in 1 .. Len(seqs[c2]) : g2 = off[c2 - 1] + h2
      BY <2>3
    <2> DEFINE x == seqs[c][h]
               y == seqs[c2][h2]
    <2>5. us[g] = x /\ us[g2] = y
      BY <1>7, <2>2, <2>4
    <2>6. (\A t \in 1 .. Len(x) : x[t][2] \div PerChunk = c - 1) /\ (\A t \in 1 .. Len(y) : y[t][2] \div PerChunk = c2 - 1)
      BY <1>8
    <2> HIDE DEF x, y
    <2>7. s \in 1 .. Len(x) /\ s2 \in 1 .. Len(y) /\ x[s][2] = y[s2][2]
      BY <1>10, <2>5
    <2>8. c = c2
      <3>1. c - 1 = c2 - 1 /\ c \in Int /\ c2 \in Int
        BY <2>6, <2>7
      <3> QED BY <3>1
    <2>9. h = h2 /\ s = s2
      <3> DEFINE u == seqs[c]
      <3>1. InChunk(u, K, c, warp, d)
        BY <1>3
      <3>2. h \in 1 .. Len(u) /\ h2 \in 1 .. Len(u) /\ x = u[h] /\ y = u[h2]
        BY <2>2, <2>4, <2>8 DEF x, y
      <3> HIDE DEF u
      <3>3. \A a \in 1 .. Len(u[h]), b \in 1 .. Len(u[h2]) : u[h][a][2] = u[h2][b][2] => h = h2 /\ a = b
        BY <3>1, <3>2 DEF InChunk
      <3> QED BY <2>7, <3>2, <3>3
    <2> QED BY <2>2, <2>4, <2>8, <2>9
  <1>11. ASSUME NEW sb, Mine(sb, K, warp, d)
         PROVE  \E g \in 1 .. Len(us) : \E s \in 1 .. Len(us[g]) : us[g][s][2] = sb
    <2> DEFINE c == (sb \div PerChunk) + 1
    <2>1. c \in 1 .. n /\ sb \div PerChunk = c - 1
      <3> DEFINE P == PerChunk
                 q == sb \div P
                 r == sb % P
                 m == Count(K)
      <3>1. P \in Positive /\ P \in Nat /\ P > 0 /\ m \in Nat
        BY SuperblockSizes, CountIs DEF Positive
      <3>2. sb \in 0 .. m - 1 /\ sb \in Int /\ sb \in Nat
        <4>1. sb \in 0 .. m - 1
          BY <1>11 DEF Mine
        <4> QED BY <3>1, <4>1
      <3> HIDE DEF P, m
      <3>3. sb = P * q + r /\ r \in 0 .. P - 1 /\ q \in Nat
        BY <3>1, <3>2, DivMod
      <3> HIDE DEF q, r
      <3>4. q < n
        <4> SUFFICES ASSUME ~(q < n) PROVE FALSE
          OBVIOUS
        <4>1. n <= q /\ n \in Int /\ q \in Int
          BY <1>1, <3>3
        <4>2. P * n <= P * q /\ P * n \in Int /\ P * q \in Int
          BY <3>1, <4>1, TimesOrder
        <4>3. P * n = n * P
          <5>1. \A x \in Nat, y \in Nat : x * y = y * x
            OBVIOUS
          <5> QED BY <3>1, <5>1
        <4>4. m <= n * P
          BY <1>1 DEF P, m
        <4> QED BY <3>1, <3>2, <3>3, <4>2, <4>3, <4>4
      <3>5. q + 1 \in 1 .. n /\ q = (q + 1) - 1
        BY <1>1, <3>3, <3>4
      <3> QED BY <3>5 DEF q, P
    <2> HIDE DEF c
    <2>1a. InChunk(seqs[c], K, c, warp, d)
      BY <1>3, <2>1
    <2>1b. \A b : Mine(b, K, warp, d) /\ b \div PerChunk = c - 1
                 => \E h \in 1 .. Len(seqs[c]) : \E s \in 1 .. Len(seqs[c][h]) : seqs[c][h][s][2] = b
      BY ONLY <2>1a, Zenon DEF InChunk
    <2>2. PICK h \in 1 .. Len(seqs[c]) : \E s \in 1 .. Len(seqs[c][h]) : seqs[c][h][s][2] = sb
      BY ONLY <1>11, <2>1, <2>1b, Zenon
    <2>3. PICK s \in 1 .. Len(seqs[c][h]) : seqs[c][h][s][2] = sb
      BY <2>2
    <2> DEFINE g == off[c - 1] + h
    <2>4. g \in 1 .. Len(us) /\ us[g] = seqs[c][h]
      BY <1>7, <2>1
    <2> HIDE DEF g
    <2>5. s \in 1 .. Len(us[g]) /\ us[g][s][2] = sb
      BY <2>3, <2>4
    <2> QED BY <2>4, <2>5
  <1>12. InWarp(us, K, warp, d)
    BY <1>9, <1>10, <1>11 DEF InWarp
  <1> QED BY <1>5, <1>12 DEF us, T, F

\* The superblocks of the warps of an unrolled sum.
LEMMA UnrolledBlocks ==
  ASSUME NEW K \in Nat \ {0}, NEW d \in {1, 2, 4}, NEW U \in {2, 4}
  PROVE  LET warps == [w \in 1 .. d |-> WarpTurns(K, w - 1, d, U)] IN
         /\ Once(Superblocks(warps), Count(K))
         /\ AllFind(warps, K, SharedInput(K)) /\ AllFind(warps, K, InputInPlace(K))
  <1> DEFINE warps == [w \in 1 .. d |-> WarpTurns(K, w - 1, d, U)]
             p == Superblocks(warps)
             n == Count(K)
             P == PerChunk
  <1>1. ASSUME NEW w \in 1 .. d PROVE warps[w] \in Seq(Seq(Found(K))) /\ InWarp(warps[w], K, w - 1, d)
    <2>1. w - 1 \in 0 .. d - 1 /\ w \in Int
      OBVIOUS
    <2> DEFINE v == w - 1
    <2> HIDE DEF v
    <2>2. v \in 0 .. d - 1
      BY <2>1 DEF v
    <2>3. WarpTurns(K, v, d, U) \in Seq(Seq(Found(K)))
      BY <2>2, WarpOnce
    <2>4. InWarp(WarpTurns(K, v, d, U), K, v, d)
      BY <2>2, WarpOnce
    <2> QED BY <2>3, <2>4 DEF v
  <1>2. DOMAIN warps = 1 .. d
    OBVIOUS
  <1> HIDE DEF warps
  <1>3. ASSUME NEW w \in 1 .. d PROVE DOMAIN warps[w] = 1 .. Len(warps[w])
                                     /\ \A g \in 1 .. Len(warps[w]) : warps[w][g] \in Seq(Found(K)) /\ DOMAIN warps[w][g] = 1 .. Len(warps[w][g])
    <2> DEFINE F == Found(K)
               us == warps[w]
    <2>1. us \in Seq(Seq(F))
      BY <1>1
    <2> HIDE DEF F, us
    <2> DEFINE T == Seq(F)
    <2>2. \A g \in 1 .. Len(us) : us[g] \in T
      <3> HIDE DEF T
      <3>1. us \in Seq(T)
        BY <2>1 DEF T
      <3> QED BY <3>1
    <2>3. DOMAIN us = 1 .. Len(us)
      BY <2>1
    <2>4. \A g \in 1 .. Len(us) : us[g] \in Seq(F) /\ DOMAIN us[g] = 1 .. Len(us[g])
      BY <2>2
    <2> QED BY <2>3, <2>4 DEF F, us
  <1>4. \A w \in 1 .. d : \A g \in DOMAIN warps[w] : \A s \in DOMAIN warps[w][g] : warps[w][g][s] \in Found(K)
    <2> TAKE w \in 1 .. d
    <2> TAKE g \in DOMAIN warps[w]
    <2> TAKE s \in DOMAIN warps[w][g]
    <2> DEFINE F == Found(K)
               u == warps[w][g]
    <2>1. u \in Seq(F) /\ s \in 1 .. Len(u)
      BY <1>3
    <2> HIDE DEF F, u
    <2>2. u[s] \in F
      BY <2>1
    <2> QED BY <2>2 DEF F, u
  <1>5. AllFind(warps, K, SharedInput(K)) /\ AllFind(warps, K, InputInPlace(K))
    BY <1>2, <1>4 DEF AllFind, Found
  <1>6. DOMAIN p = 1 .. d /\ \A w \in 1 .. d : DOMAIN p[w] = DOMAIN warps[w]
    BY <1>2 DEF Superblocks
  <1>7. \A w \in 1 .. d : \A g \in DOMAIN warps[w] : DOMAIN p[w][g] = DOMAIN warps[w][g]
                           /\ \A s \in DOMAIN warps[w][g] : p[w][g][s] = warps[w][g][s][2]
    BY <1>2 DEF Superblocks
  <1> HIDE DEF p
  <1>8. \A w \in 1 .. d : \A g \in DOMAIN p[w] : \A s \in DOMAIN p[w][g] :
          g \in 1 .. Len(warps[w]) /\ s \in 1 .. Len(warps[w][g]) /\ p[w][g][s] = warps[w][g][s][2]
    <2> TAKE w \in 1 .. d
    <2> TAKE g \in DOMAIN p[w]
    <2> TAKE s \in DOMAIN p[w][g]
    <2>1. g \in DOMAIN warps[w]
      BY <1>6
    <2>2. s \in DOMAIN warps[w][g] /\ p[w][g][s] = warps[w][g][s][2]
      BY <1>7, <2>1
    <2>3. g \in 1 .. Len(warps[w])
      BY <1>3, <2>1
    <2>4. s \in 1 .. Len(warps[w][g])
      BY <1>3, <2>2, <2>3
    <2> QED BY <2>2, <2>3, <2>4
  <1>9. ASSUME NEW w \in 1 .. d, NEW g \in DOMAIN p[w], NEW s \in DOMAIN p[w][g] PROVE Mine(p[w][g][s], K, w - 1, d)
    <2>1. g \in 1 .. Len(warps[w]) /\ s \in 1 .. Len(warps[w][g]) /\ p[w][g][s] = warps[w][g][s][2]
      BY <1>8
    <2> DEFINE u == warps[w]
    <2>2. InWarp(u, K, w - 1, d) /\ g \in 1 .. Len(u) /\ s \in 1 .. Len(u[g]) /\ p[w][g][s] = u[g][s][2]
      BY <1>1, <2>1
    <2> HIDE DEF u
    <2>3. Mine(u[g][s][2], K, w - 1, d)
      BY <2>2 DEF InWarp
    <2> QED BY <2>2, <2>3
  <1>10. ASSUME NEW w \in 1 .. d, NEW g \in DOMAIN p[w], NEW s \in DOMAIN p[w][g] PROVE p[w][g][s] \in 0 .. n - 1
    BY <1>9 DEF Mine
  <1>11. ASSUME NEW sb \in 0 .. n - 1 PROVE \E w \in DOMAIN p : \E g \in DOMAIN p[w] : \E s \in DOMAIN p[w][g] : p[w][g][s] = sb
    <2> DEFINE v == (sb % P) % d
    <2>1. v \in 0 .. d - 1
      <3>1. P \in Positive /\ n \in Nat
        BY SuperblockSizes, CountIs
      <3>2. sb \in Int
        BY <3>1
      <3>3. sb % P \in Int /\ sb % P \in 0 .. P - 1
        <4>1. sb % P \in 0 .. P - 1 /\ P \in Int
          <5>1. P \in Int
            BY <3>1 DEF Positive
          <5> HIDE DEF P
          <5> QED BY <3>1, <3>2, <5>1, DivMod
        <4> QED BY <4>1
      <3> DEFINE r == sb % P
      <3> HIDE DEF r
      <3>4. r \in Int
        BY <3>3 DEF r
      <3>5. r % d \in 0 .. d - 1
        <4>1. CASE d = 1
          BY <3>4, <4>1
        <4>2. CASE d = 2
          BY <3>4, <4>2
        <4>3. CASE d = 4
          BY <3>4, <4>3
        <4> QED BY <4>1, <4>2, <4>3
      <3> QED BY <3>5 DEF r
    <2>2. Mine(sb, K, v, d)
      BY DEF Mine
    <2> HIDE DEF v
    <2> DEFINE w == v + 1
    <2>3. w \in 1 .. d /\ w - 1 = v
      <3>1. d \in Int /\ v \in Int
        BY <2>1
      <3> QED BY <2>1, <3>1
    <2> HIDE DEF w
    <2>3a. InWarp(warps[w], K, v, d)
      BY <1>1, <2>3
    <2>4. PICK g \in 1 .. Len(warps[w]) : \E s \in 1 .. Len(warps[w][g]) : warps[w][g][s][2] = sb
      <3> DEFINE u == warps[w]
      <3>1. InWarp(u, K, v, d)
        BY <2>3a
      <3> HIDE DEF u
      <3>2. \E g \in 1 .. Len(u) : \E s \in 1 .. Len(u[g]) : u[g][s][2] = sb
        BY <2>2, <3>1 DEF InWarp
      <3> QED BY <3>2 DEF u
    <2>5. PICK s \in 1 .. Len(warps[w][g]) : warps[w][g][s][2] = sb
      BY <2>4
    <2>6. w \in DOMAIN p /\ g \in DOMAIN p[w] /\ s \in DOMAIN p[w][g] /\ p[w][g][s] = sb
      <3>1. w \in DOMAIN p /\ g \in DOMAIN p[w] /\ g \in DOMAIN warps[w]
        BY <1>3, <1>6, <2>3
      <3>2. s \in DOMAIN warps[w][g]
        BY <1>3, <2>3
      <3> QED BY <1>7, <2>3, <2>5, <3>1, <3>2
    <2> QED BY <2>6
  <1>12. ASSUME NEW w \in 1 .. d, NEW v \in 1 .. d, NEW g \in DOMAIN p[w], NEW h \in DOMAIN p[v],
                NEW s \in DOMAIN p[w][g], NEW t \in DOMAIN p[v][h], p[w][g][s] = p[v][h][t]
         PROVE  w = v /\ g = h /\ s = t
    <2>1. Mine(p[w][g][s], K, w - 1, d) /\ Mine(p[v][h][t], K, v - 1, d)
      BY <1>9
    <2>2. w = v
      <3>1. w - 1 = v - 1 /\ w \in Int /\ v \in Int
        BY <1>12, <2>1 DEF Mine
      <3> QED BY <3>1
    <2>3. g \in 1 .. Len(warps[w]) /\ s \in 1 .. Len(warps[w][g]) /\ p[w][g][s] = warps[w][g][s][2]
      BY <1>8
    <2>4. h \in 1 .. Len(warps[w]) /\ t \in 1 .. Len(warps[w][h]) /\ p[v][h][t] = warps[w][h][t][2]
      BY <1>8, <2>2
    <2>5. g = h /\ s = t
      <3> DEFINE u == warps[w]
      <3>1. InWarp(u, K, w - 1, d)
        BY <1>1
      <3>2. g \in 1 .. Len(u) /\ s \in 1 .. Len(u[g]) /\ h \in 1 .. Len(u) /\ t \in 1 .. Len(u[h]) /\ u[g][s][2] = u[h][t][2]
        BY <1>12, <2>3, <2>4
      <3> HIDE DEF u
      <3>3. \A a \in 1 .. Len(u[g]), b \in 1 .. Len(u[h]) : u[g][a][2] = u[h][b][2] => g = h /\ a = b
        BY <3>1, <3>2 DEF InWarp
      <3> QED BY <3>2, <3>3
    <2> QED BY <2>2, <2>5
  <1>13. Once(p, n)
    BY <1>6, <1>10, <1>11, <1>12 DEF Once
  <1> QED BY <1>5, <1>13 DEF p, n, warps

(* The sums of whole superblocks, in their order.                           *)

\* The order all of them follow: each of d chains takes a superblock in d.
Plan(d, n) == [w \in 1 .. d |-> <<Steps(w - 1, n, d)>>]

HowMany(lo, hi, step) == IF hi > lo THEN CeilDiv(hi - lo, step) ELSE 0

\* What Steps lists.
LEMMA StepsAre ==
  ASSUME NEW lo \in Int, NEW hi \in Int, NEW d \in {1, 2, 4}
  PROVE  /\ HowMany(lo, hi, d) \in Nat
         /\ Steps(lo, hi, d) = [i \in 1 .. HowMany(lo, hi, d) |-> lo + (i - 1) * d]
         /\ Steps(lo, hi, d) \in Seq(Int) /\ Len(Steps(lo, hi, d)) = HowMany(lo, hi, d)
         /\ \A i \in 1 .. HowMany(lo, hi, d) : Steps(lo, hi, d)[i] = lo + (i - 1) * d /\ lo + (i - 1) * d < hi
  <1> DEFINE n == HowMany(lo, hi, d)
             s == Steps(lo, hi, d)
  <1>1. n \in Nat /\ \A i \in 1 .. n : lo + (i - 1) * d \in Int /\ lo + (i - 1) * d < hi
    <2>1. CASE d = 1
      BY <2>1 DEF HowMany, CeilDiv
    <2>2. CASE d = 2
      BY <2>2 DEF HowMany, CeilDiv
    <2>3. CASE d = 4
      BY <2>3 DEF HowMany, CeilDiv
    <2> QED BY <2>1, <2>2, <2>3
  <1>2. s = [i \in 1 .. n |-> lo + (i - 1) * d]
    BY DEF Steps, HowMany
  <1> HIDE DEF n, s
  <1>3. s \in [1 .. n -> Int]
    BY <1>1, <1>2
  <1>4. s \in Seq(Int) /\ Len(s) = n
    BY <1>1, <1>3
  <1> QED BY <1>1, <1>2, <1>4 DEF n, s

\* Blocks whose superblocks are from, from + d and so on.
Parted(bs, S, from, d, count) ==
  /\ bs \in Seq(S) /\ Len(bs) = count
  /\ \A t \in 1 .. count : bs[t][2] = from + (t - 1) * d

\* A warp takes one superblock in d of the row, whatever its chunks.
LEMMA WarpBlocksAre ==
  ASSUME NEW K \in Nat \ {0}, NEW d \in {1, 2}, NEW w \in 0 .. d - 1
  PROVE  Parted(WarpBlocks(K, w, d), Found(K), w, d, HowMany(w, Count(K), d))
  <1> DEFINE m == Count(K)
             P == PerChunk
             F == Found(K)
             seqs == [c \in DOMAIN Chunks(K) |-> ChunkBlocks(Chunks(K)[c], K, w, d)]
             top(j) == Smaller(j * P, m)
  <1>0. /\ P \in Nat /\ P > 0 /\ m \in Nat /\ m > 0 /\ d \in {1, 2, 4} /\ d \in Positive /\ w \in Nat
        /\ \E h \in Nat : P = 2 * h
    BY SuperblockSizes, CountIs DEF Positive
  <1>1. PICK n \in Nat : /\ n > 0 /\ DOMAIN Chunks(K) = 1 .. n
                         /\ Count(K) <= n * PerChunk
                         /\ \A c \in 1 .. n : \E lo, hi : ChunkHas(K, c, Chunks(K)[c], lo, hi)
    BY ChunksAre
  <1>2. ASSUME NEW c \in 1 .. n
        PROVE  /\ seqs[c] \in Seq(F) /\ top(c - 1) = (c - 1) * P /\ top(c - 1) < top(c) /\ top(c - 1) \in Nat /\ top(c) \in Nat
               /\ Len(seqs[c]) = HowMany(top(c - 1) + w, top(c), d)
               /\ \A t \in 1 .. Len(seqs[c]) : seqs[c][t][2] = top(c - 1) + w + (t - 1) * d
    <2>1. PICK lo, hi : ChunkHas(K, c, Chunks(K)[c], lo, hi)
      BY <1>1
    <2>2. lo \in Nat /\ hi \in Nat /\ lo < hi /\ lo = (c - 1) * PerChunk /\ hi = Smaller(c * PerChunk, Count(K))
      BY <2>1 DEF ChunkHas
    <2>3. hi <= m /\ top(c) = hi /\ top(c - 1) = lo
      <3>1. c * P \in Int
        <4>1. \A x \in Int, y \in Int : x * y \in Int
          OBVIOUS
        <4> QED BY <1>0, <4>1
      <3>2. hi <= m
        <4> DEFINE x == c * P
        <4>1. x \in Int /\ hi = Smaller(x, m)
          BY <2>2, <3>1
        <4> HIDE DEF x, m
        <4> QED BY <1>0, <4>1 DEF Smaller
      <3>3. Smaller(lo, m) = lo
        <4> HIDE DEF m
        <4> QED BY <1>0, <2>2, <3>2 DEF Smaller
      <3> QED BY <2>2, <3>2, <3>3
    <2> DEFINE base == Chunks(K)[c]
               turns == Steps(lo + w, hi, d)
    <2>4. seqs[c] = ChunkBlocks(base, K, w, d)
      BY <1>1
    <2> HIDE DEF base, seqs
    <2>5. c \in Int /\ ChunkHas(K, c, base, lo, hi)
      BY <2>1 DEF base
    <2>6. /\ seqs[c] = [t \in DOMAIN turns |-> <<base, turns[t]>>] /\ seqs[c] \in Seq(Found(K)) /\ Len(seqs[c]) = Len(turns)
          /\ DOMAIN turns = 1 .. Len(turns)
      BY <1>0, <2>4, <2>5, ChunkBlocksAre
    <2>7. Len(turns) = HowMany(lo + w, hi, d) /\ \A t \in 1 .. Len(turns) : turns[t] = lo + w + (t - 1) * d
      <3>1. lo + w \in Int /\ hi \in Int
        BY <1>0, <2>2
      <3> DEFINE from == lo + w
      <3>1a. from \in Int /\ hi \in Int /\ d \in {1, 2, 4}
        BY <1>0, <3>1
      <3> HIDE DEF from
      <3>2. Len(Steps(from, hi, d)) = HowMany(from, hi, d) /\ \A t \in 1 .. HowMany(from, hi, d) : Steps(from, hi, d)[t] = from + (t - 1) * d
        <4>1. Len(Steps(from, hi, d)) = HowMany(from, hi, d)
          BY <3>1a, StepsAre
        <4>2. \A t \in 1 .. HowMany(from, hi, d) : Steps(from, hi, d)[t] = from + (t - 1) * d /\ from + (t - 1) * d < hi
          BY ONLY <3>1a, StepsAre, ZenonT(60)
        <4>3. \A t \in 1 .. HowMany(from, hi, d) : Steps(from, hi, d)[t] = from + (t - 1) * d
          BY ONLY <4>2, Zenon
        <4> QED BY <4>1, <4>3
      <3> QED BY <3>2 DEF from
    <2> HIDE DEF turns
    <2>8. \A t \in 1 .. Len(seqs[c]) : seqs[c][t][2] = lo + w + (t - 1) * d
      BY <2>6, <2>7
    <2> HIDE DEF top, P
    <2> QED BY <2>2, <2>3, <2>6, <2>7, <2>8 DEF P
  <1>3. seqs \in [1 .. n -> Seq(F)]
    <2>1. seqs = [c \in 1 .. n |-> seqs[c]]
      BY <1>1
    <2> HIDE DEF seqs, F, top
    <2> QED BY <1>2, <2>1
  <1>4. WarpBlocks(K, w, d) = FlattenSeq(seqs)
    BY DEF WarpBlocks
  <1> HIDE DEF F, seqs, top, m, P
  <1>5. PICK f \in [0 .. n -> Seq(F)] : Together(f, seqs, n)
    BY <1>1, <1>3, FlattenSteps
  <1>6. f[0] = <<>> /\ (\A j \in 1 .. n : f[j] = f[j - 1] \o seqs[j]) /\ FlattenSeq(seqs) = f[n]
    BY <1>5 DEF Together
  <1> DEFINE Is(j) == Len(f[j]) = HowMany(w, top(j), d) /\ \A t \in 1 .. Len(f[j]) : f[j][t][2] = w + (t - 1) * d
             Good == {j \in 0 .. n : Is(j)}
  <1>7. 0 \in Good
    <2>1. top(0) = 0 /\ HowMany(w, 0, d) = 0
      <3>1. 0 * P = 0
        BY <1>0
      <3> QED BY <1>0, <3>1 DEF top, Smaller, HowMany
    <2>2. Len(f[0]) = 0 /\ 1 .. 0 = {}
      BY <1>6
    <2> QED BY <2>1, <2>2
  <1>8. ASSUME NEW i \in 0 .. n, i < n, i \in Good PROVE i + 1 \in Good
    <2> DEFINE j == i + 1
               a == f[i]
               b == seqs[j]
               g == f[j]
               lo == top(i)
               hi == top(j)
    <2>1. j \in 1 .. n /\ j - 1 = i /\ i \in Int /\ j \in 0 .. n
      BY <1>8
    <2>2. g = a \o b /\ a \in Seq(F) /\ b \in Seq(F)
      BY <1>3, <1>6, <2>1
    <2>3. Len(a) = HowMany(w, lo, d) /\ \A t \in 1 .. Len(a) : a[t][2] = w + (t - 1) * d
      BY <1>8
    <2>4. /\ lo = i * P /\ lo < hi /\ lo \in Nat /\ hi \in Nat /\ Len(b) = HowMany(lo + w, hi, d)
          /\ \A t \in 1 .. Len(b) : b[t][2] = lo + w + (t - 1) * d
      BY <1>2, <2>1
    <2>4a. lo < hi /\ lo \in Nat /\ hi \in Nat
      BY <2>4
    <2>5. \E h \in Nat : lo = 2 * h
      <3>1. PICK h \in Nat : P = 2 * h
        BY <1>0
      <3>2. i * (2 * h) = 2 * (i * h) /\ i * h \in Nat
        <4>1. \A x \in Nat, y \in Nat : x * (2 * y) = 2 * (x * y) /\ x * y \in Nat
          OBVIOUS
        <4>2. i \in Nat
          OBVIOUS
        <4> QED BY <4>1, <4>2
      <3> QED BY <2>4, <3>1, <3>2
    <2> HIDE DEF Is, a, b, g, lo, hi, j
    <2>6. /\ Len(g) = Len(a) + Len(b) /\ Len(a) \in Nat /\ Len(b) \in Nat
          /\ \A t \in 1 .. Len(a) + Len(b) : g[t] = IF t <= Len(a) THEN a[t] ELSE b[t - Len(a)]
      BY <2>2, JoinedAt
    <2>7. /\ HowMany(w, lo, d) + HowMany(lo + w, hi, d) = HowMany(w, hi, d)
          /\ HowMany(lo + w, hi, d) > 0 => lo + w = w + HowMany(w, lo, d) * d
      <3>1. PICK h \in Nat : lo = 2 * h
        BY <2>5
      <3>2. CASE d = 1
        <4>1. w = 0
          BY <3>2
        <4>2. \A x \in Int, y \in Int : x <= y => HowMany(x, y, 1) = y - x
          BY DEF HowMany, CeilDiv
        <4>3. HowMany(0, lo, 1) = lo - 0 /\ HowMany(lo, hi, 1) = hi - lo /\ HowMany(0, hi, 1) = hi - 0
          <5>1. 0 \in Int /\ lo \in Int /\ hi \in Int /\ 0 <= lo /\ lo <= hi /\ 0 <= hi
            BY <2>4a
          <5> QED BY <4>2, <5>1
        <4>4. lo + w = lo
          BY <2>4a, <4>1
        <4>5. HowMany(w, lo, d) = lo /\ HowMany(lo + w, hi, d) = hi - lo /\ HowMany(w, hi, d) = hi
          BY <2>4a, <3>2, <4>1, <4>3, <4>4
        <4>6. lo + (hi - lo) = hi /\ lo + w = w + lo * d
          BY <2>4a, <3>2, <4>1
        <4> QED BY <4>5, <4>6
      <3>3. CASE d = 2 /\ w = 0
        <4>1. HowMany(0, lo, 2) = h
          BY <3>1 DEF HowMany, CeilDiv
        <4>2. HowMany(lo, hi, 2) = (hi - lo + 1) \div 2
          BY <2>4a DEF HowMany, CeilDiv
        <4>3. HowMany(0, hi, 2) = (hi + 1) \div 2
          BY <2>4a DEF HowMany, CeilDiv
        <4>4. lo + w = lo
          BY <2>4a, <3>3
        <4>5. h + (hi - lo + 1) \div 2 = (hi + 1) \div 2
          BY <2>4a, <3>1
        <4>6. HowMany(w, lo, d) = h /\ HowMany(lo + w, hi, d) = (hi - lo + 1) \div 2 /\ HowMany(w, hi, d) = (hi + 1) \div 2
          BY <3>3, <4>1, <4>2, <4>3, <4>4
        <4>7. lo + w = w + h * d
          BY <3>1, <3>3
        <4> QED BY <4>5, <4>6, <4>7
      <3>4. CASE d = 2 /\ w = 1
        <4>1. HowMany(1, lo, 2) = h
          BY <3>1 DEF HowMany, CeilDiv
        <4>2. HowMany(lo + 1, hi, 2) = (hi - lo) \div 2
          BY <2>4a DEF HowMany, CeilDiv
        <4>3. HowMany(1, hi, 2) = hi \div 2
          BY <2>4a DEF HowMany, CeilDiv
        <4>5. h + (hi - lo) \div 2 = hi \div 2
          BY <2>4a, <3>1
        <4>6. HowMany(w, lo, d) = h /\ HowMany(lo + w, hi, d) = (hi - lo) \div 2 /\ HowMany(w, hi, d) = hi \div 2
          BY <3>4, <4>1, <4>2, <4>3
        <4>7. lo + w = w + h * d
          BY <3>1, <3>4
        <4> QED BY <4>5, <4>6, <4>7
      <3> QED BY <3>2, <3>3, <3>4
    <2>8. ASSUME NEW t \in 1 .. Len(g) PROVE g[t][2] = w + (t - 1) * d
      <3>0. t \in 1 .. Len(a) + Len(b) /\ t \in Int
        BY <2>6
      <3>1. CASE t <= Len(a)
        <4>1. t \in 1 .. Len(a) /\ g[t] = a[t]
          BY <2>6, <3>0, <3>1
        <4> QED BY <2>3, <4>1
      <3>2. CASE ~(t <= Len(a))
        <4> DEFINE x == t - Len(a)
        <4>1. x \in 1 .. Len(b) /\ g[t] = b[t - Len(a)]
          BY <2>6, <3>0, <3>2
        <4> HIDE DEF x
        <4>2. b[x][2] = lo + w + (x - 1) * d
          BY <2>4, <4>1
        <4>3. lo + w = w + Len(a) * d
          BY <2>3, <2>4, <2>6, <2>7, <4>1
        <4>4. w + Len(a) * d + (x - 1) * d = w + (t - 1) * d
          <5>1. x = t - Len(a)
            BY DEF x
          <5>2. CASE d = 1
            BY <1>0, <2>6, <3>0, <5>1, <5>2
          <5>3. CASE d = 2
            BY <1>0, <2>6, <3>0, <5>1, <5>3
          <5> QED BY <5>2, <5>3
        <4> QED BY <4>1, <4>2, <4>3, <4>4 DEF x
      <3> QED BY <3>1, <3>2
    <2>9. Len(g) = HowMany(w, hi, d)
      BY <2>3, <2>4, <2>6, <2>7
    <2>10. Is(j)
      BY <2>8, <2>9 DEF Is, g, hi
    <2> QED BY <2>1, <2>10 DEF j
  <1>9. n \in Good
    <2> HIDE DEF Good
    <2>1. \A i \in 0 .. n : i \in Good
      BY <1>7, <1>8, UpTo
    <2> QED BY <2>1
  <1>10. top(n) = m
    <2> DEFINE x == n * P
    <2>1. x \in Int /\ m <= x
      <3>1. \A y \in Int, z \in Int : y * z \in Int
        OBVIOUS
      <3> QED BY <1>0, <1>1, <3>1 DEF P, m
    <2> HIDE DEF x
    <2>2. Smaller(x, m) = m
      BY <1>0, <2>1 DEF Smaller
    <2> QED BY <2>2 DEF x, top
  <1>11. f[n] \in Seq(F) /\ Len(f[n]) = HowMany(w, m, d) /\ \A t \in 1 .. Len(f[n]) : f[n][t][2] = w + (t - 1) * d
    BY <1>5, <1>9, <1>10
  <1>12. WarpBlocks(K, w, d) = f[n]
    BY <1>4, <1>6
  <1> QED BY <1>11, <1>12 DEF Parted, F, m

(* A warp alone.                                                            *)

\* Every other one of the first m, the m-th one the last.
Other(chain, m) == [i \in 1 .. (m + 1) \div 2 |-> chain[2 * i - (m % 2)]]

\* The accumulators a warp alone swaps.
Swapped(f, chain) ==
  [n \in 0 .. Len(chain) |-> IF n = 0 THEN <<<<>>, <<>>>> ELSE <<f[n - 1][2], Append(f[n - 1][1], chain[n])>>]

\* One more of them.
LEMMA OtherNext ==
  ASSUME NEW S, NEW chain \in Seq(S), NEW m \in 1 .. Len(chain)
  PROVE  /\ Other(chain, m - 2) \in Seq(S) /\ Other(chain, m) \in Seq(S) /\ Len(Other(chain, m)) = (m + 1) \div 2
         /\ Append(Other(chain, m - 2), chain[m]) = Other(chain, m)
  <1> DEFINE L == Len(chain)
             k == (m + 1) \div 2
             a == Other(chain, m - 2)
             b == Other(chain, m)
             r == m % 2
  <1>1. L \in Nat /\ m \in Int /\ 1 <= m /\ m <= L /\ chain \in [1 .. L -> S]
    OBVIOUS
  <1> HIDE DEF L
  <1>2. /\ k \in Nat /\ k >= 1 /\ r \in {0, 1} /\ 2 * k - r = m
        /\ (m - 2 + 1) \div 2 = k - 1 /\ (m - 2) % 2 = r
    BY <1>1
  <1>3. a = [i \in 1 .. (m - 2 + 1) \div 2 |-> chain[2 * i - ((m - 2) % 2)]] /\ b = [i \in 1 .. k |-> chain[2 * i - r]]
    BY DEF Other
  <1>4. a = [i \in 1 .. k - 1 |-> chain[2 * i - r]]
    BY <1>2, <1>3
  <1> HIDE DEF k, r, a, b
  <1>5. \A i \in 1 .. k : 2 * i - r \in 1 .. L
    BY <1>1, <1>2
  <1>6. \A i \in 1 .. k : chain[2 * i - r] \in S
    BY <1>1, <1>5
  <1>7. b \in Seq(S) /\ Len(b) = k
    <2>1. b \in [1 .. k -> S]
      BY <1>3, <1>6
    <2> QED BY <1>2, <2>1
  <1>8. a \in Seq(S) /\ Len(a) = k - 1
    <2>0. \A i \in 1 .. k - 1 : i \in 1 .. k
      BY <1>2
    <2>1. a \in [1 .. k - 1 -> S]
      BY <1>4, <1>6, <2>0
    <2>2. k - 1 \in Nat
      BY <1>2
    <2> DEFINE j == k - 1
    <2> HIDE DEF j
    <2>3. a \in [1 .. j -> S] /\ j \in Nat
      BY <2>1, <2>2 DEF j
    <2>4. a \in Seq(S) /\ Len(a) = j
      BY <2>3
    <2> QED BY <2>4 DEF j
  <1> DEFINE e == Append(a, chain[m])
  <1>9. e = b
    <2>1. chain[m] \in S
      BY <1>1
    <2>2. /\ e \in Seq(S) /\ Len(e) = Len(a) + 1 /\ \A i \in 1 .. Len(a) : e[i] = a[i]
          /\ e[Len(a) + 1] = chain[m]
      BY <1>8, <2>1, AppendProperties
    <2> HIDE DEF e
    <2>3. Len(e) = k /\ e[k] = chain[m] /\ \A i \in 1 .. k - 1 : e[i] = a[i]
      BY <1>2, <1>8, <2>2
    <2>4. \A i \in 1 .. k : e[i] = b[i]
      <3> TAKE i \in 1 .. k
      <3>1. CASE i = k
        <4>1. b[k] = chain[2 * k - r]
          BY <1>2, <1>3
        <4> QED BY <1>2, <2>3, <3>1, <4>1
      <3>2. CASE i # k
        <4>1. i \in 1 .. k - 1
          BY <1>2, <3>2
        <4>2. a[i] = chain[2 * i - r] /\ b[i] = chain[2 * i - r]
          BY <1>3, <1>4, <4>1
        <4> QED BY <2>3, <4>1, <4>2
      <3> QED BY <3>1, <3>2
    <2> QED BY <1>7, <2>2, <2>3, <2>4, SeqEqual
  <1> QED BY <1>7, <1>8, <1>9 DEF a, b, k, e

\* The accumulators of a warp alone have every other superblock.
LEMMA AlternateIs ==
  ASSUME NEW S, NEW chain \in Seq(S)
  PROVE  Alternate(chain, Len(chain)) =
           IF Len(chain) % 2 = 1 THEN <<Other(chain, Len(chain)), Other(chain, Len(chain) - 1)>>
           ELSE <<Other(chain, Len(chain) - 1), Other(chain, Len(chain))>>
  <1> DEFINE L == Len(chain)
             both == CHOOSE f : f = Swapped(f, chain)
             it == [n \in 0 .. L |-> <<Other(chain, n - 1), Other(chain, n)>>]
  <1>1. L \in Nat
    OBVIOUS
  <1>2. Alternate(chain, L) = IF L % 2 = 1 THEN <<both[L][2], both[L][1]>> ELSE both[L]
    BY DEF Alternate, Swapped
  <1> HIDE DEF L, both
  <1>3. Other(chain, -1) = <<>> /\ Other(chain, 0) = <<>>
    <2>1. (0 - 1 + 1) \div 2 = 0 /\ (0 + 1) \div 2 = 0 /\ 1 .. 0 = {}
      OBVIOUS
    <2> QED BY <2>1 DEF Other
  <1>4. it = Swapped(it, chain)
    <2>1. ASSUME NEW n \in 0 .. L
          PROVE  it[n] = IF n = 0 THEN <<<<>>, <<>>>> ELSE <<it[n - 1][2], Append(it[n - 1][1], chain[n])>>
      <3>1. CASE n = 0
        BY <1>1, <1>3, <3>1
      <3>2. CASE n # 0
        <4>1. n \in 1 .. L /\ n - 1 \in 0 .. L /\ (n - 1) - 1 = n - 2
          BY <1>1, <3>2
        <4>2. it[n - 1] = <<Other(chain, n - 2), Other(chain, n - 1)>>
          BY <4>1
        <4>3. Append(Other(chain, n - 2), chain[n]) = Other(chain, n)
          <5>1. n \in 1 .. Len(chain)
            BY <4>1 DEF L
          <5>2. Append(Other(chain, n - 2), chain[n]) = Other(chain, n) /\ Other(chain, n) \in Seq(S)
            BY <5>1, OtherNext
          <5> QED BY <5>2
        <4>4. it[n] = <<Other(chain, n - 1), Other(chain, n)>>
          OBVIOUS
        <4> HIDE DEF it
        <4>5. it[n - 1][2] = Other(chain, n - 1) /\ it[n - 1][1] = Other(chain, n - 2)
          BY <4>2
        <4> QED BY <3>2, <4>3, <4>4, <4>5
      <3> QED BY <3>1, <3>2
    <2> HIDE DEF it
    <2>2. it = [n \in 0 .. L |-> it[n]]
      BY DEF it
    <2> QED BY <2>1, <2>2 DEF Swapped, L
  <1>5. both = Swapped(both, chain)
    BY <1>4 DEF both
  <1>6. \A n \in 0 .. L : both[n] = IF n = 0 THEN <<<<>>, <<>>>> ELSE <<both[n - 1][2], Append(both[n - 1][1], chain[n])>>
    <2> DEFINE g(n) == IF n = 0 THEN <<<<>>, <<>>>> ELSE <<both[n - 1][2], Append(both[n - 1][1], chain[n])>>
    <2>1. both = [n \in 0 .. L |-> g(n)]
      BY <1>5 DEF Swapped, L
    <2> HIDE DEF g
    <2>2. \A n \in 0 .. L : both[n] = g(n)
      BY <2>1
    <2> QED BY <2>2 DEF g
  <1>7. \A n \in 0 .. L : it[n] = IF n = 0 THEN <<<<>>, <<>>>> ELSE <<it[n - 1][2], Append(it[n - 1][1], chain[n])>>
    <2> DEFINE g(n) == IF n = 0 THEN <<<<>>, <<>>>> ELSE <<it[n - 1][2], Append(it[n - 1][1], chain[n])>>
    <2> HIDE DEF it
    <2>1. it = [n \in 0 .. L |-> g(n)]
      BY <1>4 DEF Swapped, L
    <2> HIDE DEF g
    <2>2. \A n \in 0 .. L : it[n] = g(n)
      BY <2>1
    <2> QED BY <2>2 DEF g
  <1> DEFINE Good == {n \in 0 .. L : both[n] = it[n]}
  <1> HIDE DEF it
  <1>8. 0 \in Good
    <2>1. 0 \in 0 .. L
      BY <1>1
    <2>2. both[0] = <<<<>>, <<>>>>
      BY <1>6, <2>1
    <2>3. it[0] = <<<<>>, <<>>>>
      BY <1>7, <2>1
    <2> QED BY <2>1, <2>2, <2>3
  <1>9. ASSUME NEW m \in 0 .. L, m < L, m \in Good PROVE m + 1 \in Good
    <2>1. m + 1 \in 0 .. L /\ m + 1 # 0 /\ (m + 1) - 1 = m /\ both[m] = it[m]
      BY <1>1, <1>9
    <2> DEFINE j == m + 1
    <2> HIDE DEF j
    <2>2. j \in 0 .. L /\ j # 0 /\ j - 1 = m
      BY <2>1 DEF j
    <2>3. both[j] = <<both[m][2], Append(both[m][1], chain[j])>> /\ it[j] = <<it[m][2], Append(it[m][1], chain[j])>>
      BY <1>6, <1>7, <2>2
    <2> QED BY <2>1, <2>2, <2>3 DEF j
  <1>10. both[L] = it[L]
    <2> HIDE DEF Good
    <2>1. \A m \in 0 .. L : m \in Good
      BY <1>1, <1>8, <1>9, UpTo
    <2>2. L \in Good
      BY <1>1, <2>1
    <2> QED BY <2>2 DEF Good
  <1>11. it[L] = <<Other(chain, L - 1), Other(chain, L)>>
    BY <1>1 DEF it
  <1> QED BY <1>2, <1>10, <1>11 DEF L

\* Every other block of a warp alone.
LEMMA OtherParted ==
  ASSUME NEW S, NEW n \in Nat, NEW chain, Parted(chain, S, 0, 1, n), NEW m \in 0 .. n
  PROVE  Parted(Other(chain, m), S, 1 - (m % 2), 2, (m + 1) \div 2)
  <1> DEFINE k == (m + 1) \div 2
             r == m % 2
             b == Other(chain, m)
  <1>1. chain \in Seq(S) /\ Len(chain) = n /\ \A t \in 1 .. n : chain[t][2] = 0 + (t - 1) * 1
    BY DEF Parted
  <1>2. k \in Nat /\ r \in {0, 1} /\ 2 * k - r = m /\ m \in Int
    OBVIOUS
  <1>3. b = [i \in 1 .. k |-> chain[2 * i - r]]
    BY DEF Other
  <1> HIDE DEF k, r, b
  <1>4. \A i \in 1 .. k : 2 * i - r \in 1 .. n
    BY <1>2
  <1>5. \A i \in 1 .. k : chain[2 * i - r] \in S
    <2>1. \A t \in 1 .. n : chain[t] \in S
      BY <1>1
    <2> QED BY <1>4, <2>1
  <1>6. b \in [1 .. k -> S]
    BY <1>3, <1>5
  <1>7. b \in Seq(S) /\ Len(b) = k
    BY <1>2, <1>6
  <1>8. \A i \in 1 .. k : b[i][2] = (1 - r) + (i - 1) * 2
    <2> TAKE i \in 1 .. k
    <2> DEFINE t == 2 * i - r
    <2>1. b[i] = chain[t] /\ t \in 1 .. n
      BY <1>3, <1>4
    <2>2. i \in Int /\ t = 2 * i - r
      OBVIOUS
    <2> HIDE DEF t
    <2>3. chain[t][2] = 0 + (t - 1) * 1
      BY <1>1, <2>1
    <2>4. 0 + (t - 1) * 1 = (1 - r) + (i - 1) * 2
      BY <1>2, <2>2
    <2> QED BY <2>1, <2>3, <2>4
  <1>9. Parted(b, S, 1 - r, 2, k)
    BY <1>7, <1>8 DEF Parted
  <1> QED BY <1>9 DEF k, r, b

\* Warps of a chain each.
Alone(d, bs) == [w \in 1 .. d |-> <<bs[w]>>]

\* The chains of warps that take one superblock in d.
LEMMA PlanBy ==
  ASSUME NEW S, NEW n \in Nat, NEW d \in {1, 2, 4}, NEW bs,
         \A w \in 1 .. d : Parted(bs[w], S, w - 1, d, HowMany(w - 1, n, d))
  PROVE  Superblocks(Alone(d, bs)) = Plan(d, n)
  <1> DEFINE warps == [w \in 1 .. d |-> <<bs[w]>>]
  <1>1. ASSUME NEW w \in 1 .. d
        PROVE  [c \in DOMAIN warps[w] |-> [s \in DOMAIN warps[w][c] |-> warps[w][c][s][2]]] = <<Steps(w - 1, n, d)>>
    <2> DEFINE b == bs[w]
               lo == w - 1
               k == HowMany(lo, n, d)
    <2>1. b \in Seq(S) /\ Len(b) = k /\ \A t \in 1 .. k : b[t][2] = lo + (t - 1) * d
      BY DEF Parted
    <2>2. lo \in Int /\ n \in Int
      OBVIOUS
    <2>3. warps[w] = <<b>>
      OBVIOUS
    <2> HIDE DEF b, lo, warps
    <2>4. Steps(lo, n, d) = [i \in 1 .. k |-> lo + (i - 1) * d]
      BY <2>2, StepsAre
    <2> HIDE DEF k
    <2>5. DOMAIN b = 1 .. k
      BY <2>1
    <2>6. [s \in DOMAIN b |-> b[s][2]] = Steps(lo, n, d)
      BY <2>1, <2>4, <2>5
    <2>7. [c \in DOMAIN warps[w] |-> [s \in DOMAIN warps[w][c] |-> warps[w][c][s][2]]] = <<[s \in DOMAIN b |-> b[s][2]]>>
      <3> DEFINE v == warps[w]
                 g(c) == [s \in DOMAIN v[c] |-> v[c][s][2]]
      <3>1. v = <<b>>
        BY <2>3
      <3>2. DOMAIN v = 1 .. 1 /\ v[1] = b
        <4> HIDE DEF v
        <4> QED BY <3>1
      <3>3. g(1) = [s \in DOMAIN b |-> b[s][2]]
        BY <3>2
      <3> HIDE DEF v, g
      <3>4. [c \in DOMAIN v |-> g(c)] = <<g(1)>>
        BY <3>2
      <3> QED BY <3>3, <3>4 DEF v, g
    <2> QED BY <2>6, <2>7 DEF lo
  <1>2. DOMAIN warps = 1 .. d
    OBVIOUS
  <1> HIDE DEF warps
  <1>3. Superblocks(warps) = [w \in 1 .. d |-> [c \in DOMAIN warps[w] |-> [s \in DOMAIN warps[w][c] |-> warps[w][c][s][2]]]]
    BY <1>2 DEF Superblocks
  <1>4. Superblocks(warps) = Plan(d, n)
    BY <1>1, <1>3 DEF Plan
  <1> QED BY <1>4 DEF warps, Alone

\* What the blocks of single chains find, they all find.
LEMMA ChainsFind ==
  ASSUME NEW S, NEW d, NEW bs, NEW K, NEW input,
         \A w \in 1 .. d : bs[w] \in Seq(S),
         \A b \in S : Finds(b, K, input)
  PROVE  AllFind(Alone(d, bs), K, input)
  <1> DEFINE warps == [w \in 1 .. d |-> <<bs[w]>>]
  <1>1. DOMAIN warps = 1 .. d /\ \A w \in 1 .. d : warps[w] = <<bs[w]>>
    OBVIOUS
  <1> HIDE DEF warps
  <1>2. ASSUME NEW w \in DOMAIN warps, NEW c \in DOMAIN warps[w], NEW s \in DOMAIN warps[w][c]
        PROVE  Finds(warps[w][c][s], K, input)
    <2> DEFINE b == bs[w]
    <2>1. b \in Seq(S) /\ warps[w] = <<b>>
      BY <1>1
    <2> HIDE DEF b
    <2>2. c = 1 /\ warps[w][c] = b
      BY <2>1
    <2>3. b[s] \in S
      BY <2>1, <2>2
    <2> QED BY <2>2, <2>3
  <1>3. AllFind(warps, K, input)
    BY <1>2 DEF AllFind
  <1> QED BY <1>3 DEF warps, Alone

\* Windowed kernels follow the plan of two chains, with one warp or two.
LEMMA WindowedIs ==
  ASSUME NEW K \in Nat \ {0}, NEW d \in {1, 2}
  PROVE  /\ Superblocks(WindowedBlocks(K, d)) = Plan(2, Count(K))
         /\ AllFind(WindowedBlocks(K, d), K, SharedInput(K))
  <1> DEFINE n == Count(K)
             F == Found(K)
  <1>1. n \in Nat /\ n > 0 /\ n = CeilDiv(K, Superblock)
    BY CountIs DEF Count
  <1>2. \A b \in F : Finds(b, K, SharedInput(K))
    BY DEF Found
  <1> HIDE DEF n, F
  <1>3. ASSUME NEW bs, Parted(bs[1], F, 0, 2, HowMany(0, n, 2)), Parted(bs[2], F, 1, 2, HowMany(1, n, 2))
        PROVE  Superblocks(Alone(2, bs)) = Plan(2, n) /\ AllFind(Alone(2, bs), K, SharedInput(K))
    <2>1. \A w \in 1 .. 2 : Parted(bs[w], F, w - 1, 2, HowMany(w - 1, n, 2)) /\ bs[w] \in Seq(F)
      <3> TAKE w \in 1 .. 2
      <3>1. CASE w = 1
        BY <1>3, <3>1 DEF Parted
      <3>2. CASE w = 2
        BY <1>3, <3>2 DEF Parted
      <3> QED BY <3>1, <3>2
    <2>2. Superblocks(Alone(2, bs)) = Plan(2, n)
      BY <1>1, <2>1, PlanBy
    <2>3. AllFind(Alone(2, bs), K, SharedInput(K))
      BY <1>2, <2>1, ChainsFind
    <2> QED BY <2>2, <2>3
  <1>4. CASE d = 2
    <2> DEFINE bs == [w \in 1 .. 2 |-> WarpBlocks(K, w - 1, 2)]
    <2>1. bs[1] = WarpBlocks(K, 0, 2) /\ bs[2] = WarpBlocks(K, 1, 2)
      OBVIOUS
    <2>2. Parted(bs[1], F, 0, 2, HowMany(0, n, 2)) /\ Parted(bs[2], F, 1, 2, HowMany(1, n, 2))
      BY <2>1, WarpBlocksAre DEF F, n
    <2>3. WindowedBlocks(K, 2) = Alone(2, bs)
      BY DEF WindowedBlocks, Alone
    <2> HIDE DEF bs
    <2> QED BY <1>3, <1>4, <2>2, <2>3 DEF n
  <1>5. CASE d = 1
    <2> DEFINE chain == WarpBlocks(K, 0, 1)
               bs == Alternate(chain, n)
    <2>1. Parted(chain, F, 0, 1, n)
      <3>1. HowMany(0, n, 1) = n
        BY <1>1 DEF HowMany, CeilDiv
      <3>2. Parted(chain, F, 0, 1, HowMany(0, Count(K), 1))
        BY WarpBlocksAre DEF F
      <3> QED BY <3>1, <3>2 DEF n
    <2>2. WindowedBlocks(K, 1) = Alone(2, bs)
      BY <1>1 DEF WindowedBlocks, Alone
    <2> HIDE DEF chain
    <2>3. bs = IF n % 2 = 1 THEN <<Other(chain, n), Other(chain, n - 1)>> ELSE <<Other(chain, n - 1), Other(chain, n)>>
      <3>1. chain \in Seq(F) /\ Len(chain) = n
        BY <2>1 DEF Parted
      <3>2. Alternate(chain, Len(chain)) = IF Len(chain) % 2 = 1 THEN <<Other(chain, Len(chain)), Other(chain, Len(chain) - 1)>>
                                           ELSE <<Other(chain, Len(chain) - 1), Other(chain, Len(chain))>>
        BY <3>1, AlternateIs
      <3> QED BY <3>1, <3>2
    <2> HIDE DEF bs
    <2>4. /\ Parted(Other(chain, n), F, 1 - (n % 2), 2, (n + 1) \div 2)
          /\ Parted(Other(chain, n - 1), F, 1 - ((n - 1) % 2), 2, (n - 1 + 1) \div 2)
      <3>1. n \in 0 .. n /\ n - 1 \in 0 .. n
        BY <1>1
      <3> DEFINE m == n - 1
      <3> HIDE DEF m
      <3>2. Parted(Other(chain, m), F, 1 - (m % 2), 2, (m + 1) \div 2)
        BY <1>1, <2>1, <3>1, OtherParted DEF m
      <3>3. Parted(Other(chain, n), F, 1 - (n % 2), 2, (n + 1) \div 2)
        BY <1>1, <2>1, <3>1, OtherParted
      <3> QED BY <3>2, <3>3 DEF m
    <2>5. Parted(bs[1], F, 0, 2, HowMany(0, n, 2)) /\ Parted(bs[2], F, 1, 2, HowMany(1, n, 2))
      <3>1. CASE n % 2 = 1
        <4>1. bs[1] = Other(chain, n) /\ bs[2] = Other(chain, n - 1)
          BY <2>3, <3>1
        <4>2. 1 - (n % 2) = 0 /\ (n + 1) \div 2 = HowMany(0, n, 2)
          BY <1>1, <3>1 DEF HowMany, CeilDiv
        <4>3. 1 - ((n - 1) % 2) = 1 /\ (n - 1 + 1) \div 2 = HowMany(1, n, 2)
          BY <1>1, <3>1 DEF HowMany, CeilDiv
        <4> QED BY <2>4, <4>1, <4>2, <4>3
      <3>2. CASE n % 2 # 1
        <4>1. bs[1] = Other(chain, n - 1) /\ bs[2] = Other(chain, n)
          BY <2>3, <3>2
        <4>2. 1 - (n % 2) = 1 /\ (n + 1) \div 2 = HowMany(1, n, 2)
          BY <1>1, <3>2 DEF HowMany, CeilDiv
        <4>3. 1 - ((n - 1) % 2) = 0 /\ (n - 1 + 1) \div 2 = HowMany(0, n, 2)
          BY <1>1, <3>2 DEF HowMany, CeilDiv
        <4> QED BY <2>4, <4>1, <4>2, <4>3
      <3> QED BY <3>1, <3>2
    <2> QED BY <1>3, <1>5, <2>2, <2>5 DEF n
  <1> QED BY <1>4, <1>5

\* The blocks of a row that is a single chunk.
LEMMA WholeParted ==
  ASSUME NEW n \in Nat, NEW d \in {1, 2, 4}, NEW w \in 0 .. d - 1
  PROVE  Parted(WholeBlocks(n, w, d), {0} \X (0 .. n - 1), w, d, HowMany(w, n, d))
  <1> DEFINE k == HowMany(w, n, d)
             s == Steps(w, n, d)
             S == {0} \X (0 .. n - 1)
             b == WholeBlocks(n, w, d)
  <1>1. w \in Int /\ n \in Int /\ w \in Nat
    OBVIOUS
  <1>2. /\ k \in Nat /\ s \in Seq(Int) /\ Len(s) = k
        /\ \A i \in 1 .. k : s[i] = w + (i - 1) * d /\ w + (i - 1) * d < n
    BY <1>1, StepsAre
  <1>3. b = [t \in DOMAIN s |-> <<0, s[t]>>]
    BY DEF WholeBlocks
  <1> HIDE DEF k, s, b
  <1>4. DOMAIN s = 1 .. k
    BY <1>2
  <1>5. ASSUME NEW t \in 1 .. k PROVE s[t] \in 0 .. n - 1
    <2>1. t \in Int /\ t >= 1
      BY <1>2
    <2>2. w + (t - 1) * d \in Nat
      <3>1. CASE d = 1
        BY <1>1, <2>1, <3>1
      <3>2. CASE d = 2
        BY <1>1, <2>1, <3>2
      <3>3. CASE d = 4
        BY <1>1, <2>1, <3>3
      <3> QED BY <3>1, <3>2, <3>3
    <2>3. s[t] \in Nat /\ s[t] < n
      BY <1>2, <2>2
    <2> QED BY <1>1, <2>3
  <1>6. \A t \in 1 .. k : <<0, s[t]>> \in S
    BY <1>5
  <1> HIDE DEF S
  <1>7. b \in [1 .. k -> S]
    BY <1>3, <1>4, <1>6
  <1>8. b \in Seq(S) /\ Len(b) = k
    BY <1>2, <1>7
  <1>9. \A t \in 1 .. k : b[t][2] = w + (t - 1) * d
    BY <1>2, <1>3, <1>4
  <1>10. Parted(b, S, w, d, k)
    BY <1>8, <1>9 DEF Parted
  <1> QED BY <1>10 DEF b, S, k

\* Rows of a single chunk follow the plan.
LEMMA WholePlan ==
  ASSUME NEW K \in Nat \ {0}, NEW d \in {1, 2, 4}
  PROVE  LET warps == [w \in 1 .. d |-> <<WholeBlocks(Count(K), w - 1, d)>>] IN
         /\ Superblocks(warps) = Plan(d, Count(K))
         /\ AllFind(warps, K, [base \in {0} |-> Staged(0, K)]) /\ AllFind(warps, K, InputInPlace(K))
  <1> DEFINE n == Count(K)
             S == {0} \X (0 .. n - 1)
             bs == [w \in 1 .. d |-> WholeBlocks(n, w - 1, d)]
             staged == [base \in {0} |-> Staged(0, K)]
  <1>1. n \in Nat
    BY CountIs
  <1>2. \A b \in S : Finds(b, K, staged) /\ Finds(b, K, InputInPlace(K))
    <2> TAKE b \in S
    <2>1. b = <<0, b[2]>> /\ b[2] \in 0 .. n - 1
      OBVIOUS
    <2> DEFINE sb == b[2]
    <2> HIDE DEF sb
    <2>2. b = <<0, sb>> /\ sb \in 0 .. Count(K) - 1
      BY <2>1 DEF sb
    <2>3. Finds(<<0, sb>>, K, staged) /\ Finds(<<0, sb>>, K, InputInPlace(K))
      BY <2>2, WholeFinds
    <2> QED BY <2>2, <2>3
  <1> HIDE DEF n, staged
  <1>3. \A w \in 1 .. d : Parted(bs[w], S, w - 1, d, HowMany(w - 1, n, d)) /\ bs[w] \in Seq(S)
    <2> TAKE w \in 1 .. d
    <2>1. bs[w] = WholeBlocks(n, w - 1, d) /\ w - 1 \in 0 .. d - 1
      OBVIOUS
    <2> DEFINE v == w - 1
    <2> HIDE DEF v, bs
    <2>2. v \in 0 .. d - 1 /\ bs[w] = WholeBlocks(n, v, d)
      BY <2>1 DEF v
    <2>3. Parted(WholeBlocks(n, v, d), S, v, d, HowMany(v, n, d))
      BY <1>1, <2>2, WholeParted
    <2> HIDE DEF S
    <2>4. Parted(bs[w], S, v, d, HowMany(v, n, d)) /\ bs[w] \in Seq(S)
      BY <2>2, <2>3 DEF Parted
    <2> QED BY <2>4 DEF v
  <1>4. [w \in 1 .. d |-> <<WholeBlocks(n, w - 1, d)>>] = Alone(d, bs)
    BY DEF Alone
  <1> HIDE DEF S, bs
  <1>5. Superblocks(Alone(d, bs)) = Plan(d, n)
    <2>1. \A w \in 1 .. d : Parted(bs[w], S, w - 1, d, HowMany(w - 1, n, d))
      BY <1>3
    <2> QED BY <1>1, <2>1, PlanBy
  <1>6. AllFind(Alone(d, bs), K, staged)
    BY <1>2, <1>3, ChainsFind
  <1>7. AllFind(Alone(d, bs), K, InputInPlace(K))
    BY <1>2, <1>3, ChainsFind
  <1> QED BY <1>4, <1>5, <1>6, <1>7 DEF n, staged

\* The plan takes every superblock once.
LEMMA PlanOnce ==
  ASSUME NEW n \in Nat, NEW d \in {1, 2, 4}
  PROVE  Once(Plan(d, n), n)
  <1> DEFINE p == Plan(d, n)
             s(w) == Steps(w - 1, n, d)
  <1>1. ASSUME NEW w \in 1 .. d
        PROVE  /\ DOMAIN s(w) = 1 .. Len(s(w)) /\ p[w] = <<s(w)>>
               /\ \A t \in 1 .. Len(s(w)) : s(w)[t] \in 0 .. n - 1 /\ s(w)[t] % d = w - 1
               /\ \A t \in 1 .. Len(s(w)), t2 \in 1 .. Len(s(w)) : s(w)[t] = s(w)[t2] => t = t2
               /\ \A k \in 0 .. n - 1 : k % d = w - 1 => \E t \in 1 .. Len(s(w)) : s(w)[t] = k
    <2> DEFINE v == w - 1
               turns == Steps(0 + v, n, d)
    <2>1. v \in 0 .. d - 1 /\ 0 + v = w - 1
      OBVIOUS
    <2>2. p[w] = <<s(w)>> /\ turns = s(w)
      BY <2>1 DEF Plan
    <2> HIDE DEF v
    <2>3. OfWarp(turns, 0, n, d, v)
      BY <2>1, WarpSteps
    <2> HIDE DEF turns, s, p
    <2>4. /\ DOMAIN turns = 1 .. Len(turns)
          /\ \A t \in 1 .. Len(turns) : turns[t] \in 0 .. n - 1 /\ (turns[t] - 0) % d = v
          /\ \A t \in 1 .. Len(turns), t2 \in 1 .. Len(turns) : turns[t] = turns[t2] => t = t2
          /\ \A k \in 0 .. n - 1 : (k - 0) % d = v => \E t \in 1 .. Len(turns) : turns[t] = k
      BY <2>3 DEF OfWarp
    <2>5. \A k \in 0 .. n - 1 : k - 0 = k
      OBVIOUS
    <2>6. /\ \A t \in 1 .. Len(turns) : turns[t] \in 0 .. n - 1 /\ turns[t] % d = v
          /\ \A k \in 0 .. n - 1 : k % d = v => \E t \in 1 .. Len(turns) : turns[t] = k
      BY <2>4, <2>5
    <2> QED BY <2>2, <2>4, <2>6 DEF v
  <1>2. DOMAIN p = 1 .. d
    BY DEF Plan
  <1> HIDE DEF p, s
  <1>3. \A w \in 1 .. d : DOMAIN p[w] = {1} /\ p[w][1] = s(w)
    BY <1>1
  <1>4. ASSUME NEW w \in 1 .. d, NEW c \in DOMAIN p[w], NEW t \in DOMAIN p[w][c]
        PROVE  c = 1 /\ t \in 1 .. Len(s(w)) /\ p[w][c][t] = s(w)[t]
    BY <1>1, <1>3
  <1>5. ASSUME NEW w \in 1 .. d, NEW c \in DOMAIN p[w], NEW t \in DOMAIN p[w][c] PROVE p[w][c][t] \in 0 .. n - 1
    BY <1>1, <1>4
  <1>6. ASSUME NEW sb \in 0 .. n - 1 PROVE \E w \in DOMAIN p : \E c \in DOMAIN p[w] : \E t \in DOMAIN p[w][c] : p[w][c][t] = sb
    <2> DEFINE w == (sb % d) + 1
    <2>1. w \in 1 .. d /\ sb % d = w - 1
      <3>1. CASE d = 1
        BY <3>1
      <3>2. CASE d = 2
        BY <3>2
      <3>3. CASE d = 4
        BY <3>3
      <3> QED BY <3>1, <3>2, <3>3
    <2> HIDE DEF w
    <2>2. PICK t \in 1 .. Len(s(w)) : s(w)[t] = sb
      BY <1>1, <2>1
    <2>3. w \in DOMAIN p /\ 1 \in DOMAIN p[w] /\ t \in DOMAIN p[w][1] /\ p[w][1][t] = sb
      BY <1>1, <1>2, <1>3, <2>1, <2>2
    <2> QED BY <2>3
  <1>7. ASSUME NEW w \in 1 .. d, NEW v \in 1 .. d, NEW c \in DOMAIN p[w], NEW c2 \in DOMAIN p[v],
               NEW t \in DOMAIN p[w][c], NEW t2 \in DOMAIN p[v][c2], p[w][c][t] = p[v][c2][t2]
        PROVE  w = v /\ c = c2 /\ t = t2
    <2>1. c = 1 /\ t \in 1 .. Len(s(w)) /\ p[w][c][t] = s(w)[t]
      BY <1>4
    <2>2. c2 = 1 /\ t2 \in 1 .. Len(s(v)) /\ p[v][c2][t2] = s(v)[t2]
      BY <1>4
    <2>3. w = v
      <3>1. s(w)[t] % d = w - 1
        BY <1>1, <2>1
      <3>2. s(v)[t2] % d = v - 1
        BY <1>1, <2>2
      <3>3. w - 1 = v - 1 /\ w \in Int /\ v \in Int
        BY <1>7, <2>1, <2>2, <3>1, <3>2
      <3> QED BY <3>3
    <2>4. t = t2
      BY <1>1, <1>7, <2>1, <2>2, <2>3
    <2> QED BY <2>1, <2>2, <2>3, <2>4
  <1>8. Once(p, n)
    BY <1>2, <1>5, <1>6, <1>7 DEF Once
  <1> QED BY <1>8 DEF p

(* The sums of the variants.                                                *)

\* The superblocks of the sum of a variant.
RowPlan(f, K, v) ==
  IF f = "hq31k" THEN Plan(Variants(f)[v][1], Count(K))
  ELSE IF f \in Wide THEN Superblocks([w \in 1 .. Variants(f)[v][1] |-> WarpTurns(K, w - 1, Variants(f)[v][1], Variants(f)[v][3])])
  ELSE Plan(2, Count(K))

\* The variants of a format.
LEMMA VariantsAre ==
  ASSUME NEW f, NEW v \in DOMAIN Variants(f)
  PROVE  /\ Variants(f)[v][1] \in {1, 2, 4} /\ Variants(f)[v][2] \in {1, 2, 4, 8}
         /\ f \in Wide => Variants(f)[v][3] \in {2, 4}
         /\ f # "hq31k" /\ f \notin Wide => Variants(f)[v][1] \in {1, 2} /\ 1 \in DOMAIN Variants(f)
         /\ f \in Wide => f # "hq31k"
  <1>0. f \in Wide => f # "hq31k"
    BY DEF Wide
  <1>1. CASE f \in Wide
    <2>1. Variants(f) = <<<<1, 8, 4>>, <<2, 8, 2>>, <<2, 4, 2>>, <<4, 2, 2>>>>
      BY <1>0, <1>1 DEF Variants
    <2>2. v \in 1 .. 4
      BY <2>1
    <2>3. CASE v = 1
      BY <1>0, <1>1, <2>1, <2>3
    <2>4. CASE v = 2
      BY <1>0, <1>1, <2>1, <2>4
    <2>5. CASE v = 3
      BY <1>0, <1>1, <2>1, <2>5
    <2>6. CASE v = 4
      BY <1>0, <1>1, <2>1, <2>6
    <2> QED BY <2>2, <2>3, <2>4, <2>5, <2>6
  <1>2. CASE f = "hq31k"
    <2>1. Variants(f) = <<<<4, 4, 1>>, <<2, 8, 1>>, <<4, 1, 1>>>>
      BY <1>0, <1>2 DEF Variants
    <2>2. v \in 1 .. 3
      BY <2>1
    <2>3. CASE v = 1
      BY <1>0, <1>2, <2>1, <2>3
    <2>4. CASE v = 2
      BY <1>0, <1>2, <2>1, <2>4
    <2>5. CASE v = 3
      BY <1>0, <1>2, <2>1, <2>5
    <2> QED BY <2>2, <2>3, <2>4, <2>5
  <1>3. CASE f \notin Wide /\ f # "hq31k"
    <2>1. Variants(f) = <<<<1, 4, 1>>, <<2, 8, 1>>, <<2, 4, 1>>>>
      BY <1>3 DEF Variants
    <2>2. v \in 1 .. 3 /\ 1 \in DOMAIN Variants(f)
      BY <2>1
    <2>3. CASE v = 1
      BY <1>3, <2>1, <2>2, <2>3
    <2>4. CASE v = 2
      BY <1>3, <2>1, <2>2, <2>4
    <2>5. CASE v = 3
      BY <1>3, <2>1, <2>2, <2>5
    <2> QED BY <2>2, <2>3, <2>4, <2>5
  <1> QED BY <1>1, <1>2, <1>3

\* A windowed sum is that of the plan.
LEMMA WindowedSumIs ==
  ASSUME NEW K \in Nat \ {0}, NEW d \in {1, 2}
  PROVE  WindowedSum(K, d) = BlockSum(Plan(2, Count(K)), K)
  <1> DEFINE warps == WindowedBlocks(K, d)
             input == SharedInput(K)
  <1>1. Superblocks(warps) = Plan(2, Count(K)) /\ AllFind(warps, K, input) /\ K \in Nat
    BY WindowedIs
  <1>2. WindowedSum(K, d) = SumOf(warps, K, input)
    BY DEF WindowedSum
  <1> HIDE DEF warps, input
  <1>3. SumOf(warps, K, input) = BlockSum(Superblocks(warps), K)
    BY <1>1, SumIsBlocks
  <1> QED BY <1>1, <1>2, <1>3

\* So is that of a row in place, of whole superblocks.
LEMMA RowwarpSumIs ==
  ASSUME NEW K \in Nat \ {0}, K % Superblock = 0
  PROVE  RowwarpSum(K) = BlockSum(Plan(2, Count(K)), K)
  <1> DEFINE warps == [a \in 1 .. 2 |-> <<WholeBlocks(Count(K), a - 1, 2)>>]
             input == InputInPlace(K)
             q == K \div Superblock
  <1>1. Superblocks(warps) = Plan(2, Count(K)) /\ AllFind(warps, K, input) /\ K \in Nat
    BY WholePlan
  <1>2. q = Count(K)
    <2>1. Superblock \in Positive /\ K \in Int
      BY SuperblockSizes
    <2>2. K = Superblock * q + (K % Superblock) /\ q \in Int
      BY <2>1, DivMod
    <2> HIDE DEF q
    <2>3. Superblock * q \in Int
      <3>1. Superblock \in Int
        BY <2>1 DEF Positive
      <3>2. \A x \in Int, y \in Int : x * y \in Int
        OBVIOUS
      <3> QED BY <2>2, <3>1, <3>2
    <2>4. K = Superblock * q
      BY <2>2, <2>3
    <2>5. CeilDiv(Superblock * q, Superblock) = q
      BY <2>1, <2>2, CeilingOfProduct
    <2> QED BY <2>4, <2>5 DEF Count
  <1>3. RowwarpSum(K) = SumOf(warps, K, input)
    BY <1>2 DEF RowwarpSum
  <1> HIDE DEF warps, input
  <1>4. SumOf(warps, K, input) = BlockSum(Superblocks(warps), K)
    BY <1>1, SumIsBlocks
  <1> QED BY <1>1, <1>3, <1>4

\* And that of a row all in shared memory.
LEMMA WholeSumIs ==
  ASSUME NEW K \in Nat \ {0}, NEW d \in {1, 2, 4}
  PROVE  WholeSum(K, d) = BlockSum(Plan(d, Count(K)), K)
  <1> DEFINE warps == [w \in 1 .. d |-> <<WholeBlocks(Count(K), w - 1, d)>>]
             input == [base \in {0} |-> Staged(0, K)]
  <1>1. Superblocks(warps) = Plan(d, Count(K)) /\ AllFind(warps, K, input) /\ K \in Nat
    BY WholePlan
  <1>2. WholeSum(K, d) = SumOf(warps, K, input)
    BY DEF WholeSum, Count
  <1> HIDE DEF warps, input
  <1>3. SumOf(warps, K, input) = BlockSum(Superblocks(warps), K)
    BY <1>1, SumIsBlocks
  <1> QED BY <1>1, <1>2, <1>3

\* An unrolled sum is the same, in shared memory or in place.
LEMMA UnrolledSumIs ==
  ASSUME NEW K \in Nat \ {0}, NEW d \in {1, 2, 4}, NEW U \in {2, 4}, NEW direct \in BOOLEAN
  PROVE  UnrolledSum(K, d, U, direct) = BlockSum(Superblocks([w \in 1 .. d |-> WarpTurns(K, w - 1, d, U)]), K)
  <1> DEFINE warps == [w \in 1 .. d |-> WarpTurns(K, w - 1, d, U)]
             input == IF direct THEN InputInPlace(K) ELSE SharedInput(K)
  <1>1. AllFind(warps, K, SharedInput(K)) /\ AllFind(warps, K, InputInPlace(K)) /\ K \in Nat
    BY UnrolledBlocks
  <1>2. UnrolledSum(K, d, U, direct) = SumOf(warps, K, input)
    BY DEF UnrolledSum
  <1>3. AllFind(warps, K, input)
    BY <1>1
  <1> HIDE DEF warps, input
  <1>4. SumOf(warps, K, input) = BlockSum(Superblocks(warps), K)
    BY <1>1, <1>3, SumIsBlocks
  <1> QED BY <1>2, <1>4 DEF warps

\* The sum of a row by a variant, whatever the alignment of its input.
LEMMA RowSumIs ==
  ASSUME NEW r, r.f \in ProductFormats, r.K \in Nat \ {0}, r.aligned \in BOOLEAN, NEW v \in DOMAIN Variants(r.f)
  PROVE  RowSum(r, v) = BlockSum(RowPlan(r.f, r.K, v), r.K)
  <1> DEFINE f == r.f
             K == r.K
             d == Variants(f)[v][1]
             U == Variants(f)[v][3]
  <1>0. /\ d \in {1, 2, 4} /\ (f \in Wide => U \in {2, 4}) /\ (f # "hq31k" /\ f \notin Wide => d \in {1, 2})
        /\ (f \in Wide => f # "hq31k") /\ K \in Nat \ {0}
    BY VariantsAre
  <1>1. RowSum(r, v) =
          CASE f = "hq31k" -> WholeSum(K, d)
            [] f = "hq41k" -> Hq41kSum(K, d)
            [] f = "hq51k" -> Hq51kSum(K, d)
            [] f = "hq44k" -> Hq44kSum(K, d, U, r.aligned)
            [] f = "hq8k" -> Hq8kSum(K, d, U)
            [] f \in Symmetric -> IF Rowwarp(r, v) THEN RowwarpSum(K) ELSE SymmetricSum(K, d)
            [] f \in V3 -> V3Sum(K, d)
    BY DEF RowSum
  <1>2. RowPlan(f, K, v) = IF f = "hq31k" THEN Plan(d, Count(K))
                           ELSE IF f \in Wide THEN Superblocks([w \in 1 .. d |-> WarpTurns(K, w - 1, d, U)])
                           ELSE Plan(2, Count(K))
    BY DEF RowPlan
  <1>3. Rowwarp(r, v) => K % Superblock = 0
    BY DEF Rowwarp
  <1>4. f \in {"hq31k", "hq41k", "hq51k", "hq44k", "hq8k"} \cup Symmetric \cup V3
    BY DEF ProductFormats, Compact, Wide
  <1> HIDE DEF d, U, f, K
  <1>5. CASE f = "hq31k"
    <2>1. RowSum(r, v) = WholeSum(K, d) /\ RowPlan(f, K, v) = Plan(d, Count(K))
      BY <1>1, <1>2, <1>5 DEF Symmetric, V3
    <2> QED BY <1>0, <2>1, WholeSumIs DEF f, K
  <1>6. CASE f = "hq41k"
    <2>1. RowSum(r, v) = WindowedSum(K, d) /\ RowPlan(f, K, v) = Plan(2, Count(K)) /\ d \in {1, 2}
      BY <1>0, <1>1, <1>2, <1>6 DEF Wide, Symmetric, V3, Hq41kSum
    <2> QED BY <1>0, <2>1, WindowedSumIs DEF f, K
  <1>7. CASE f = "hq51k"
    <2>1. RowSum(r, v) = WindowedSum(K, d) /\ RowPlan(f, K, v) = Plan(2, Count(K)) /\ d \in {1, 2}
      BY <1>0, <1>1, <1>2, <1>7 DEF Wide, Symmetric, V3, Hq51kSum
    <2> QED BY <1>0, <2>1, WindowedSumIs DEF f, K
  <1>8. CASE f = "hq44k"
    <2> DEFINE direct == InPlace(K, r.aligned)
               plan == Superblocks([w \in 1 .. d |-> WarpTurns(K, w - 1, d, U)])
    <2>1. RowSum(r, v) = UnrolledSum(K, d, U, direct) /\ RowPlan(f, K, v) = plan /\ U \in {2, 4}
      BY <1>0, <1>1, <1>2, <1>8 DEF Wide, Symmetric, V3, Hq44kSum
    <2>2. direct \in BOOLEAN
      BY DEF InPlace
    <2> HIDE DEF direct
    <2>3. UnrolledSum(K, d, U, direct) = BlockSum(plan, K)
      BY <1>0, <2>1, <2>2, UnrolledSumIs
    <2> QED BY <2>1, <2>3 DEF f, K
  <1>9. CASE f = "hq8k"
    <2> DEFINE plan == Superblocks([w \in 1 .. d |-> WarpTurns(K, w - 1, d, U)])
    <2>1. RowSum(r, v) = UnrolledSum(K, d, U, FALSE) /\ RowPlan(f, K, v) = plan /\ U \in {2, 4}
      BY <1>0, <1>1, <1>2, <1>9 DEF Wide, Symmetric, V3, Hq8kSum
    <2>3. UnrolledSum(K, d, U, FALSE) = BlockSum(plan, K)
      BY <1>0, <2>1, UnrolledSumIs
    <2> QED BY <2>1, <2>3 DEF f, K
  <1>10. CASE f \in Symmetric
    <2>1. RowSum(r, v) = (IF Rowwarp(r, v) THEN RowwarpSum(K) ELSE WindowedSum(K, d)) /\ RowPlan(f, K, v) = Plan(2, Count(K)) /\ d \in {1, 2}
      BY <1>0, <1>1, <1>2, <1>10 DEF Wide, Symmetric, V3, SymmetricSum
    <2>2. WindowedSum(K, d) = BlockSum(Plan(2, Count(K)), K)
      BY <1>0, <2>1, WindowedSumIs
    <2>3. Rowwarp(r, v) => RowwarpSum(K) = BlockSum(Plan(2, Count(K)), K)
      BY <1>0, <1>3, RowwarpSumIs
    <2> QED BY <2>1, <2>2, <2>3 DEF f, K
  <1>11. CASE f \in V3
    <2>1. RowSum(r, v) = WindowedSum(K, d) /\ RowPlan(f, K, v) = Plan(2, Count(K)) /\ d \in {1, 2}
      BY <1>0, <1>1, <1>2, <1>11 DEF Wide, V3, Symmetric, V3Sum
    <2> QED BY <1>0, <2>1, WindowedSumIs DEF f, K
  <1> QED BY <1>4, <1>5, <1>6, <1>7, <1>8, <1>9, <1>10, <1>11

\* It takes every superblock once.
LEMMA RowPlanOnce ==
  ASSUME NEW f, NEW K \in Nat \ {0}, NEW v \in DOMAIN Variants(f)
  PROVE  Once(RowPlan(f, K, v), Count(K))
  <1> DEFINE d == Variants(f)[v][1]
             U == Variants(f)[v][3]
             n == Count(K)
  <1>0. d \in {1, 2, 4} /\ (f \in Wide => U \in {2, 4}) /\ n \in Nat
    BY VariantsAre, CountIs
  <1>2. RowPlan(f, K, v) = IF f = "hq31k" THEN Plan(d, n)
                           ELSE IF f \in Wide THEN Superblocks([w \in 1 .. d |-> WarpTurns(K, w - 1, d, U)])
                           ELSE Plan(2, n)
    BY DEF RowPlan
  <1> HIDE DEF d, U
  <1>3. CASE f = "hq31k"
    <2>1. Once(Plan(d, n), n)
      <3> HIDE DEF n
      <3> QED BY <1>0, PlanOnce
    <2> QED BY <1>2, <1>3, <2>1
  <1>4. CASE f # "hq31k" /\ f \in Wide
    <2>1. Once(Superblocks([w \in 1 .. d |-> WarpTurns(K, w - 1, d, U)]), n)
      BY <1>0, <1>4, UnrolledBlocks
    <2> QED BY <1>2, <1>4, <2>1
  <1>5. CASE f # "hq31k" /\ f \notin Wide
    <2>1. Once(Plan(2, n), n)
      <3> HIDE DEF n
      <3> QED BY <1>0, PlanOnce
    <2> QED BY <1>2, <1>5, <2>1
  <1> QED BY <1>3, <1>4, <1>5

(* The products.                                                            *)

\* Quotient and rest of a place of a table of rows of N.
LEMMA Placed ==
  ASSUME NEW N \in Nat \ {0}, NEW M \in Nat, NEW at \in 0 .. M * N - 1
  PROVE  /\ at % N \in 0 .. N - 1 /\ at \div N \in 0 .. M - 1 /\ at = (at \div N) * N + (at % N)
         /\ at % N \in Nat /\ at \div N \in Nat
  <1> DEFINE q == at \div N
             r == at % N
             x == M * N
  <1>0. N \in Positive /\ N \in Int /\ N > 0
    BY DEF Positive
  <1>1. x \in Nat /\ x = N * M
    <2>1. \A a \in Nat, b \in Nat : a * b \in Nat /\ a * b = b * a
      OBVIOUS
    <2> QED BY <2>1
  <1>2. at \in Nat /\ at < x
    <2>1. at \in 0 .. x - 1
      OBVIOUS
    <2> HIDE DEF x
    <2> QED BY <1>1, <2>1
  <1>3. at = N * q + r /\ r \in 0 .. N - 1 /\ q \in Nat
    <2>1. at \in Int
      BY <1>2
    <2> QED BY <1>0, <1>2, <2>1, DivMod
  <1> HIDE DEF q, r, x
  <1>4. N * q = q * N /\ N * q \in Nat
    <2>1. \A a \in Nat, b \in Nat : a * b \in Nat /\ a * b = b * a
      OBVIOUS
    <2> QED BY <1>3, <2>1
  <1>5. q < M
    <2> SUFFICES ASSUME ~(q < M) PROVE FALSE
      OBVIOUS
    <2>1. M <= q /\ M \in Int /\ q \in Int
      BY <1>3
    <2>2. N * M <= N * q /\ N * M \in Int
      BY <2>1, TimesOrder
    <2> QED BY <1>0, <1>1, <1>2, <1>3, <1>4, <2>2
  <1>6. r \in 0 .. N - 1 /\ q \in 0 .. M - 1 /\ at = q * N + r /\ r \in Nat /\ q \in Nat
    BY <1>0, <1>3, <1>4, <1>5
  <1> QED BY <1>6 DEF q, r

\* And the place of a quotient and a rest.
LEMMA PlaceOf ==
  ASSUME NEW N \in Nat \ {0}, NEW M \in Nat, NEW m \in 0 .. M - 1, NEW n \in 0 .. N - 1
  PROVE  /\ m * N + n \in 0 .. M * N - 1 /\ (m * N + n) \div N = m /\ (m * N + n) % N = n
  <1> DEFINE x == N * m
  <1>0. N \in Positive /\ m \in Int /\ n \in Int /\ m \in Nat /\ n \in Nat /\ N \in Nat
    BY DEF Positive
  <1>1. m * N = x /\ x \in Nat
    <2>1. \A a \in Nat, b \in Nat : a * b \in Nat /\ a * b = b * a
      OBVIOUS
    <2> QED BY <1>0, <2>1
  <1>2. (N * m + n) \div N = m /\ (N * m + n) % N = n
    BY <1>0, Quotient
  <1>3. N * (m + 1) <= N * M /\ N * (m + 1) = x + N /\ N * M = M * N /\ M * N \in Nat
    <2>1. m + 1 <= M /\ m + 1 \in Int /\ M \in Int
      BY <1>0
    <2>2. \A a \in Nat, b \in Nat : a * (b + 1) = a * b + a /\ a * b \in Nat /\ a * b = b * a
      OBVIOUS
    <2> QED BY <1>0, <2>1, <2>2, TimesOrder
  <1> DEFINE y == M * N
  <1>4. y \in Nat /\ x + N <= y
    BY <1>3
  <1>5. x + n \in 0 .. y - 1
    <2> HIDE DEF x, y
    <2> QED BY <1>0, <1>1, <1>4
  <1> QED BY <1>1, <1>2, <1>5

\* The rows of a grid of blocks, and the places of a product.
LEMMA GridRows ==
  ASSUME NEW N \in Nat \ {0}, NEW R \in {1, 2, 4, 8}
  PROVE  {n \in 0 .. CeilDiv(N, R) * R - 1 : n < N} = 0 .. N - 1
  <1> DEFINE c == CeilDiv(N, R) * R
  <1>1. c \in Int /\ N <= c
    <2>1. CASE R = 1
      BY <2>1 DEF CeilDiv
    <2>2. CASE R = 2
      BY <2>2 DEF CeilDiv
    <2>3. CASE R = 4
      BY <2>3 DEF CeilDiv
    <2>4. CASE R = 8
      BY <2>4 DEF CeilDiv
    <2> QED BY <2>1, <2>2, <2>3, <2>4
  <1> HIDE DEF c
  <1>2. \A n : n \in 0 .. c - 1 /\ n < N <=> n \in 0 .. N - 1
    BY <1>1
  <1> QED BY <1>2 DEF c

Spots(M, N, rows) == {m * N + n : m \in 0 .. M - 1, n \in rows}

\* Every place of the output is a row of the input and one of the matrix.
LEMMA GridPlaces ==
  ASSUME NEW N \in Nat \ {0}, NEW M \in Nat
  PROVE  Spots(M, N, 0 .. N - 1) = 0 .. M * N - 1
  <1>1. ASSUME NEW m \in 0 .. M - 1, NEW n \in 0 .. N - 1 PROVE m * N + n \in 0 .. M * N - 1
    BY PlaceOf
  <1>2. ASSUME NEW at \in 0 .. M * N - 1 PROVE \E m \in 0 .. M - 1 : \E n \in 0 .. N - 1 : at = m * N + n
    <2>1. at % N \in 0 .. N - 1 /\ at \div N \in 0 .. M - 1 /\ at = (at \div N) * N + (at % N)
      BY Placed
    <2> QED BY <2>1
  <1> DEFINE all == 0 .. M * N - 1
             value(m, n) == m * N + n
  <1> HIDE DEF all, value
  <1>3. /\ \A m \in 0 .. M - 1, n \in 0 .. N - 1 : value(m, n) \in all
        /\ \A at \in all : \E m \in 0 .. M - 1 : \E n \in 0 .. N - 1 : at = value(m, n)
    BY <1>1, <1>2 DEF all, value
  <1>4. \A x : x \in Spots(M, N, 0 .. N - 1) <=> \E m \in 0 .. M - 1, n \in 0 .. N - 1 : x = value(m, n)
    BY DEF value, Spots
  <1>5. \A x : x \in Spots(M, N, 0 .. N - 1) <=> x \in all
    BY <1>3, <1>4
  <1>6. Spots(M, N, 0 .. N - 1) = all
    BY <1>5
  <1> QED BY <1>6 DEF all

\* A product has, for every row, the sum of the superblocks of its variant.
Product(f, M, K, N, v) ==
  [at \in 0 .. M * N - 1 |-> Place(BlockSum(RowPlan(f, K, v), K), at % N, at \div N, K)]

\* The rows of the blocks of a launch are those of the matrix.
LEMMA ByRowsIs ==
  ASSUME NEW r, r.f \in ProductFormats, r.K \in Nat \ {0}, r.aligned \in BOOLEAN, r.M \in Nat, r.N \in Nat \ {0},
         NEW v \in DOMAIN Variants(r.f)
  PROVE  ByRows(r, v) = Product(r.f, r.M, r.K, r.N, v)
  <1> DEFINE R == RowsPerBlock(r, v)
             N == r.N
             M == r.M
             tree == RowSum(r, v)
             rows == {n \in 0 .. CeilDiv(N, R) * R - 1 : n < N}
             spots == Spots(M, N, rows)
  <1>1. R \in {1, 2, 4, 8}
    BY VariantsAre DEF RowsPerBlock
  <1>2. ByRows(r, v) = [at \in spots |-> Place(tree, at % N, at \div N, r.K)]
    BY DEF ByRows, Spots
  <1>3. tree = BlockSum(RowPlan(r.f, r.K, v), r.K)
    BY RowSumIs
  <1>4. N \in Nat \ {0} /\ M \in Nat
    OBVIOUS
  <1> HIDE DEF N, M, tree, R
  <1>5. rows = 0 .. N - 1
    BY <1>1, <1>4, GridRows
  <1>6. spots = 0 .. M * N - 1
    <2>1. Spots(M, N, 0 .. N - 1) = 0 .. M * N - 1
      BY <1>4, GridPlaces
    <2> QED BY <1>5, <2>1
  <1> HIDE DEF spots
  <1>7. ByRows(r, v) = [at \in 0 .. M * N - 1 |-> Place(tree, at % N, at \div N, r.K)]
    BY <1>2, <1>6
  <1> QED BY <1>3, <1>7 DEF Product, N, M

\* It sums every weight once.
LEMMA ProductOnce ==
  ASSUME NEW f, NEW K \in Nat \ {0}, NEW M \in Nat, NEW N \in Nat \ {0}, NEW v \in DOMAIN Variants(f), NEW at \in 0 .. M * N - 1
  PROVE  SumsOnce(Product(f, M, K, N, v)[at], Wanted(at % N, at \div N, K))
  <1> DEFINE p == RowPlan(f, K, v)
             row == at % N
             from == at \div N
  <1>1. row \in Nat /\ from \in Nat
    BY Placed
  <1>2. Product(f, M, K, N, v)[at] = Place(BlockSum(p, K), row, from, K)
    BY DEF Product
  <1>3. Once(p, Count(K))
    BY RowPlanOnce
  <1> HIDE DEF p, row, from
  <1>4. SumsOnce(Place(BlockSum(p, K), row, from, K), Wanted(row, from, K))
    BY <1>1, <1>3, SumsOnceBy
  <1> QED BY <1>2, <1>4 DEF row, from

\* What a group of a block of an expert has to write.
Slot(at, b, g, blocks, N) == (b % blocks) * 8 + g < N /\ at = (b \div blocks) * N + ((b % blocks) * 8 + g)

\* The products of the experts.
LEMMA ExpertsAre ==
  ASSUME NEW r, ExpertsAssumption(r)
  PROVE  /\ DOMAIN Experts(r) = 0 .. Len(r.experts) * r.N - 1
         /\ \A at \in 0 .. Len(r.experts) * r.N - 1 :
              SumsOnce(Experts(r)[at],
                       Wanted(r.experts[(at \div r.N) + 1] * r.N + (at % r.N), IF r.stride = 0 THEN 0 ELSE at \div r.N, r.K))
  <1> DEFINE N == r.N
             K == r.K
             L == Len(r.experts)
             blocks == CeilDiv(N, 8)
             slots == {<<b \div blocks, (b % blocks) * 8 + g>> : b \in 0 .. L * blocks - 1, g \in 0 .. 7}
             spots == {s[1] * N + s[2] : s \in {t \in slots : t[2] < N}}
             direct == r.aligned /\ r.stride % Lane = 0
             tree == Hq44kSum(K, 1, 4, direct)
             row(at) == r.experts[(at \div N) + 1] * N + (at % N)
             from(at) == IF r.stride = 0 THEN 0 ELSE at \div N
  <1>1. /\ K \in Nat \ {0} /\ N \in Nat \ {0} /\ r.aligned \in BOOLEAN /\ r.stride \in Nat /\ r.experts \in Seq(Nat)
        /\ L \in Nat /\ \A i \in 1 .. L : r.experts[i] \in Nat
    BY DEF ExpertsAssumption
  <1>2. Experts(r) = [at \in spots |-> Place(tree, row(at), from(at), K)]
    BY DEF Experts
  <1> HIDE DEF tree, row, from, direct
  <1>3. blocks \in Nat \ {0} /\ N <= blocks * 8
    BY <1>1 DEF CeilDiv
  <1>4. spots = 0 .. L * N - 1
    <2> HIDE DEF blocks, N, L
    <2>1. ASSUME NEW at, NEW b \in 0 .. L * blocks - 1, NEW g \in 0 .. 7, Slot(at, b, g, blocks, N)
          PROVE  at \in 0 .. L * N - 1
      <3> DEFINE e == b \div blocks
                 n == (b % blocks) * 8 + g
      <3>1. b % blocks \in Nat /\ e \in 0 .. L - 1
        BY <1>1, <1>3, Placed
      <3>4. n < N /\ at = e * N + n
        BY <2>1 DEF Slot
      <3>5. n \in Nat
        BY <3>1
      <3>6. N \in Nat
        BY <1>1
      <3>2. n \in 0 .. N - 1
        <4>1. n < N
          BY <3>4
        <4> HIDE DEF n
        <4> QED BY <3>5, <3>6, <4>1
      <3> HIDE DEF e, n
      <3>3. e * N + n \in 0 .. L * N - 1
        BY <1>1, <3>1, <3>2, PlaceOf
      <3> QED BY <3>3, <3>4
    <2>2. ASSUME NEW at \in 0 .. L * N - 1
          PROVE  \E b \in 0 .. L * blocks - 1, g \in 0 .. 7 : Slot(at, b, g, blocks, N)
      <3> DEFINE e == at \div N
                 n == at % N
                 j == n \div 8
                 g == n % 8
                 b == e * blocks + j
      <3>1. n \in 0 .. N - 1 /\ e \in 0 .. L - 1 /\ at = e * N + n
        BY <1>1, Placed
      <3> HIDE DEF e, n
      <3>2. j \in 0 .. blocks - 1 /\ g \in 0 .. 7 /\ j * 8 + g = n
        BY <1>1, <1>3, <3>1
      <3> HIDE DEF j, g
      <3>3. b \in 0 .. L * blocks - 1 /\ b \div blocks = e /\ b % blocks = j
        BY <1>1, <1>3, <3>1, <3>2, PlaceOf
      <3> HIDE DEF b
      <3>4. (b % blocks) * 8 + g < N /\ at = (b \div blocks) * N + ((b % blocks) * 8 + g)
        <4>1. (b % blocks) * 8 + g = n
          BY <3>2, <3>3
        <4>2. n < N
          BY <1>1, <3>1
        <4>3. (b \div blocks) * N = e * N
          BY <3>3
        <4> QED BY <3>1, <4>1, <4>2, <4>3
      <3>5. Slot(at, b, g, blocks, N)
        BY <3>4 DEF Slot
      <3> QED BY <3>2, <3>3, <3>5
    <2>3. \A at : at \in spots <=> \E b \in 0 .. L * blocks - 1, g \in 0 .. 7 : Slot(at, b, g, blocks, N)
      <3>1. ASSUME NEW at \in spots
            PROVE  \E b \in 0 .. L * blocks - 1, g \in 0 .. 7 : Slot(at, b, g, blocks, N)
        <4>1. PICK s \in slots : s[2] < N /\ at = s[1] * N + s[2]
          OBVIOUS
        <4>2. PICK b \in 0 .. L * blocks - 1, g \in 0 .. 7 : s = <<b \div blocks, (b % blocks) * 8 + g>>
          OBVIOUS
        <4>3. Slot(at, b, g, blocks, N)
          BY <4>1, <4>2 DEF Slot
        <4> QED BY <4>3
      <3>2. ASSUME NEW at, NEW b \in 0 .. L * blocks - 1, NEW g \in 0 .. 7, Slot(at, b, g, blocks, N)
            PROVE  at \in spots
        <4> DEFINE s == <<b \div blocks, (b % blocks) * 8 + g>>
        <4>1. s \in slots /\ s[1] = b \div blocks /\ s[2] = (b % blocks) * 8 + g
          OBVIOUS
        <4> HIDE DEF slots, s
        <4>2. s[2] < N /\ at = s[1] * N + s[2]
          BY <3>2, <4>1 DEF Slot
        <4> QED BY <4>1, <4>2
      <3> DEFINE all == 0 .. L * blocks - 1
      <3> HIDE DEF spots, all
      <3>3. \A at : at \in spots => \E b \in all, g \in 0 .. 7 : Slot(at, b, g, blocks, N)
        BY <3>1 DEF all
      <3>4. \A at : \A b \in all, g \in 0 .. 7 : Slot(at, b, g, blocks, N) => at \in spots
        BY <3>2 DEF all
      <3>5. \A at : at \in spots <=> \E b \in all, g \in 0 .. 7 : Slot(at, b, g, blocks, N)
        BY <3>3, <3>4
      <3> QED BY <3>5 DEF all
    <2> HIDE DEF spots
    <2>4. \A at : at \in spots <=> at \in 0 .. L * N - 1
      BY <2>1, <2>2, <2>3
    <2> QED BY <2>4
  <1> HIDE DEF spots
  <1> DEFINE p == Superblocks([w \in 1 .. 1 |-> WarpTurns(K, w - 1, 1, 4)])
             in == InPlace(K, direct)
  <1>5. tree = BlockSum(p, K)
    <2>1. tree = UnrolledSum(K, 1, 4, in)
      BY DEF tree, Hq44kSum
    <2>2. in \in BOOLEAN
      BY <1>1 DEF direct, InPlace
    <2>3. 1 \in {1, 2, 4} /\ 4 \in {2, 4}
      OBVIOUS
    <2> HIDE DEF in
    <2> QED BY <1>1, <2>1, <2>2, <2>3, UnrolledSumIs
  <1>6. Once(p, Count(K))
    <2>1. 1 \in {1, 2, 4} /\ 4 \in {2, 4}
      OBVIOUS
    <2> QED BY <1>1, <2>1, UnrolledBlocks
  <1> HIDE DEF p, N, K, L
  <1>7. ASSUME NEW at \in 0 .. L * N - 1 PROVE SumsOnce(Experts(r)[at], Wanted(row(at), from(at), K))
    <2>1. at % N \in Nat /\ at \div N \in 0 .. L - 1 /\ at \div N \in Nat
      BY <1>1, Placed
    <2>2. row(at) \in Nat
      <3>1. (at \div N) + 1 \in 1 .. L
        BY <1>1, <2>1
      <3> DEFINE e == r.experts[(at \div N) + 1]
                 x == e * N
      <3>2. e \in Nat
        BY <1>1, <3>1
      <3> HIDE DEF e
      <3>3. x \in Nat
        <4>1. \A a \in Nat, b \in Nat : a * b \in Nat
          OBVIOUS
        <4> QED BY <1>1, <3>2, <4>1
      <3> HIDE DEF x
      <3>4. x + (at % N) \in Nat
        BY <2>1, <3>3
      <3> QED BY <3>4 DEF row, x, e
    <2>3. from(at) \in Nat
      BY <2>1 DEF from
    <2>4. Experts(r)[at] = Place(tree, row(at), from(at), K)
      BY <1>2, <1>4
    <2> DEFINE a == row(at)
               b == from(at)
    <2> HIDE DEF a, b
    <2>5. a \in Nat /\ b \in Nat
      BY <2>2, <2>3 DEF a, b
    <2>6. SumsOnce(Place(BlockSum(p, K), a, b, K), Wanted(a, b, K))
      BY <1>1, <1>6, <2>5, SumsOnceBy
    <2> QED BY <1>5, <2>4, <2>6 DEF a, b
  <1>8. DOMAIN Experts(r) = 0 .. L * N - 1
    BY <1>2, <1>4
  <1> QED BY <1>7, <1>8 DEF row, from, N, K, L

(* The dequantized matrix.                                                  *)

\* The weight of a row where its blocks have it.
WeightAt(n, k, K) == <<n * CeilDiv(K, Superblock) + k \div Superblock, (k % Superblock) \div Lane, k % Lane>>

\* The weight a thread finds in its lane.
LEMMA LaneWeight ==
  ASSUME NEW t \in Nat, NEW i \in 0 .. Lane - 1, NEW k, k = t * Lane + i
  PROVE  k \in Nat /\ k \div Superblock = t \div Lanes /\ (k % Superblock) \div Lane = t % Lanes /\ k % Lane = i
  <1> DEFINE q == t \div Lanes
             l == t % Lanes
  <1>0. Lane \in Nat /\ Lanes \in Nat /\ Superblock \in Nat /\ Lanes \in Positive /\ Superblock = Lanes * Lane
    BY SuperblockSizes DEF Positive
  <1>1. t = Lanes * q + l /\ l \in 0 .. Lanes - 1 /\ q \in Nat /\ t \in Int
    <2>1. t \in Int
      OBVIOUS
    <2> QED BY <1>0, <2>1, DivMod
  <1> HIDE DEF q, l
  <1>2. k = q * Superblock + l * Lane + i
    <2>1. \A a \in Nat, b \in Nat, c \in Nat, d \in Nat : (a * b + c) * d = b * (a * d) + c * d
      OBVIOUS
    <2>2. l \in Nat
      BY <1>0, <1>1
    <2>3. (Lanes * q + l) * Lane = q * (Lanes * Lane) + l * Lane
      BY <1>0, <1>1, <2>1, <2>2
    <2> DEFINE x == (Lanes * q + l) * Lane
    <2>4. k = x + i
      BY <1>1
    <2> HIDE DEF x
    <2>5. x = q * Superblock + l * Lane
      BY <1>0, <2>3 DEF x
    <2> QED BY <2>4, <2>5
  <1>3. k \in Nat /\ k \div Superblock = q /\ (k % Superblock) \div Lane = l /\ k % Lane = i
    BY <1>1, <1>2, WeightJoins
  <1> QED BY <1>3 DEF q, l

\* What the threads of a dequantization write.
ByThread(f, K, t) == IF K % Lane = 0 /\ f \notin Compact THEN 0 .. Lane - 1 ELSE {i \in 0 .. Lane - 1 : t * Lane + i < K}
AllWrites(f, K, N) ==
  UNION {{<<n * K + t * Lane + i, <<n * CeilDiv(K, Superblock) + t \div Lanes, t % Lanes, i>> >> : i \in ByThread(f, K, t)} :
           n \in 0 .. N - 1, t \in {x \in 0 .. GroupThreads(f, K) - 1 : x * Lane < K}}
OneWrite(w, n, t, i, K) == w = <<n * K + t * Lane + i, <<n * CeilDiv(K, Superblock) + t \div Lanes, t % Lanes, i>> >>

\* A thread writes weights of the row.
LEMMA InRow ==
  ASSUME NEW f, NEW K \in Nat \ {0}, NEW t \in Nat, t * Lane < K, NEW i \in ByThread(f, K, t)
  PROVE  i \in 0 .. Lane - 1 /\ t * Lane + i \in 0 .. K - 1
  <1>0. Lane \in Nat /\ Lane \in Positive /\ Lane > 0 /\ K \in Nat /\ K \in Int
    BY SuperblockSizes DEF Positive
  <1> DEFINE x == t * Lane
  <1>1. x \in Nat /\ x = Lane * t
    <2>1. \A a \in Nat, b \in Nat : a * b \in Nat /\ a * b = b * a
      OBVIOUS
    <2> QED BY <1>0, <2>1
  <1>2. i \in 0 .. Lane - 1
    BY DEF ByThread
  <1>3. ASSUME K % Lane = 0 PROVE x + Lane <= K
    <2> DEFINE q == K \div Lane
               y == Lane * q
    <2>1. K = y + (K % Lane) /\ q \in Nat
      BY <1>0, DivMod
    <2>2. y \in Nat
      <3>1. \A a \in Nat, b \in Nat : a * b \in Nat
        OBVIOUS
      <3> QED BY <1>0, <2>1, <3>1
    <2>3. K = y
      <3> HIDE DEF y
      <3> QED BY <1>3, <2>1, <2>2
    <2> HIDE DEF q
    <2>4. t < q
      <3> SUFFICES ASSUME ~(t < q) PROVE FALSE
        OBVIOUS
      <3>1. q <= t /\ q \in Int /\ t \in Int
        BY <2>1
      <3>2. Lane * q <= Lane * t
        BY <1>0, <3>1, TimesOrder
      <3>3. y <= x
        BY <1>1, <3>2
      <3> HIDE DEF x, y
      <3>4. x < K
        BY DEF x
      <3> QED BY <1>0, <1>1, <2>2, <2>3, <3>3, <3>4
    <2>5. Lane * (t + 1) <= Lane * q /\ Lane * (t + 1) = Lane * t + Lane
      <3>1. t + 1 <= q /\ t + 1 \in Int /\ q \in Int
        BY <2>1, <2>4
      <3>2. Lane * (t + 1) = Lane * t + Lane
        BY <1>0
      <3> QED BY <1>0, <3>1, <3>2, TimesOrder
    <2>6. x + Lane <= y
      BY <1>1, <2>5
    <2> QED BY <2>3, <2>6
  <1>4. CASE K % Lane = 0 /\ f \notin Compact
    <2>1. x + Lane <= K
      BY <1>3, <1>4
    <2> HIDE DEF x
    <2> QED BY <1>0, <1>1, <1>2, <2>1 DEF x
  <1>5. CASE ~(K % Lane = 0 /\ f \notin Compact)
    <2>1. x + i < K
      BY <1>5 DEF ByThread
    <2> HIDE DEF x
    <2> QED BY <1>0, <1>1, <1>2, <2>1 DEF x
  <1> QED BY <1>4, <1>5

\* Every weight has a thread.
LEMMA ThreadFor ==
  ASSUME NEW f, NEW K \in Nat \ {0}, NEW k \in 0 .. K - 1
  PROVE  /\ k \div Lane \in Nat /\ k \div Lane \in 0 .. GroupThreads(f, K) - 1 /\ (k \div Lane) * Lane < K
         /\ k % Lane \in ByThread(f, K, k \div Lane) /\ k = (k \div Lane) * Lane + (k % Lane)
  <1> DEFINE t == k \div Lane
             i == k % Lane
             x == t * Lane
  <1>0. /\ Lane \in Nat /\ Lane \in Positive /\ Lane > 0 /\ K \in Nat /\ K \in Int /\ k \in Nat /\ k < K /\ k \in Int
        /\ Lanes \in Nat /\ Superblock \in Positive /\ Superblock = Lanes * Lane
    BY SuperblockSizes DEF Positive
  <1>1. k = Lane * t + i /\ i \in 0 .. Lane - 1 /\ t \in Nat
    BY <1>0, DivMod
  <1> HIDE DEF t, i
  <1>2. x \in Nat /\ x = Lane * t
    <2>1. \A a \in Nat, b \in Nat : a * b \in Nat /\ a * b = b * a
      OBVIOUS
    <2> QED BY <1>0, <1>1, <2>1
  <1>3. k = x + i /\ x < K /\ i < Lane /\ i \in Nat
    <2> HIDE DEF x
    <2>1. k = x + i
      BY <1>1, <1>2
    <2> QED BY <1>0, <1>1, <1>2, <2>1
  <1>4. i \in ByThread(f, K, t)
    <2>1. x + i < K
      BY <1>0, <1>3
    <2> QED BY <1>1, <2>1 DEF ByThread
  <1>5. t < GroupThreads(f, K)
    <2>1. CASE f \in Compact
      <3> DEFINE c == CeilDiv(K, Superblock)
                 y == c * Lanes
      <3>1. c \in Nat /\ K <= Superblock * c
        BY <1>0, Ceiling
      <3> HIDE DEF c
      <3>2. Superblock * c = Lane * y /\ y \in Nat
        <4>1. \A a \in Nat, b \in Nat, d \in Nat : (a * b) * d = b * (d * a) /\ d * a \in Nat
          OBVIOUS
        <4> QED BY <1>0, <3>1, <4>1
      <3> HIDE DEF y
      <3>3. t < y
        <4> SUFFICES ASSUME ~(t < y) PROVE FALSE
          OBVIOUS
        <4>1. y <= t /\ y \in Int /\ t \in Int
          BY <1>1, <3>2
        <4> DEFINE u == Lane * y
                   z == Lane * t
        <4>2. u <= z /\ u \in Int /\ z \in Int
          BY <1>0, <4>1, TimesOrder
        <4>3. z <= k /\ K <= u
          <5>1. z = x
            BY <1>2
          <5>2. K <= u
            BY <3>1, <3>2
          <5> HIDE DEF z, x, u
          <5> QED BY <1>0, <1>2, <1>3, <5>1, <5>2
        <4> HIDE DEF u, z
        <4> QED BY <1>0, <4>2, <4>3
      <3>4. GroupThreads(f, K) = y
        BY <2>1 DEF GroupThreads, y, c
      <3> QED BY <3>3, <3>4
    <2>2. CASE f \notin Compact
      <3> DEFINE y == CeilDiv(K, Lane)
      <3>1. y \in Nat /\ K <= Lane * y
        BY <1>0, Ceiling
      <3> HIDE DEF y
      <3>3. t < y
        <4> SUFFICES ASSUME ~(t < y) PROVE FALSE
          OBVIOUS
        <4>1. y <= t /\ y \in Int /\ t \in Int
          BY <1>1, <3>1
        <4> DEFINE u == Lane * y
                   z == Lane * t
        <4>2. u <= z /\ u \in Int /\ z \in Int
          BY <1>0, <4>1, TimesOrder
        <4>3. z <= k /\ K <= u
          <5>1. z = x
            BY <1>2
          <5>2. K <= u
            BY <3>1
          <5> HIDE DEF z, x, u
          <5> QED BY <1>0, <1>2, <1>3, <5>1, <5>2
        <4> HIDE DEF u, z
        <4> QED BY <1>0, <4>2, <4>3
      <3>4. GroupThreads(f, K) = y
        BY <2>2 DEF GroupThreads, y
      <3> QED BY <3>3, <3>4
    <2> QED BY <2>1, <2>2
  <1>6. GroupThreads(f, K) \in Int
    <2>1. CeilDiv(K, Superblock) \in Nat /\ CeilDiv(K, Lane) \in Nat
      BY <1>0, Ceiling
    <2>2. \A a \in Nat, b \in Nat : a * b \in Nat
      OBVIOUS
    <2>3. CeilDiv(K, Superblock) * Lanes \in Nat
      BY <1>0, <2>1, <2>2
    <2> QED BY <2>1, <2>3 DEF GroupThreads
  <1> DEFINE n == GroupThreads(f, K)
  <1>7. t \in 0 .. n - 1
    <2> HIDE DEF n, x
    <2>1. t < n /\ n \in Int
      BY <1>5, <1>6 DEF n
    <2> QED BY <1>1, <2>1
  <1> QED BY <1>1, <1>3, <1>4, <1>7 DEF t, i

\* The places written, and what is written in each.
LEMMA WritesAre ==
  ASSUME NEW f, NEW K \in Nat \ {0}, NEW N \in Nat
  PROVE  /\ \A w \in AllWrites(f, K, N) : \E n \in 0 .. N - 1, k \in 0 .. K - 1 : w = <<n * K + k, WeightAt(n, k, K)>>
         /\ \A n \in 0 .. N - 1, k \in 0 .. K - 1 : <<n * K + k, WeightAt(n, k, K)>> \in AllWrites(f, K, N)
  <1> DEFINE threads == {x \in 0 .. GroupThreads(f, K) - 1 : x * Lane < K}
             C == CeilDiv(K, Superblock)
  <1>0. Lane \in Nat /\ K \in Nat /\ \A a \in Nat, b \in Nat : a * b \in Nat
    BY SuperblockSizes DEF Positive
  <1>1. ASSUME NEW n \in 0 .. N - 1, NEW t \in Nat, NEW i \in Nat, NEW k, k = t * Lane + i, NEW a, a = n * K + t * Lane + i
        PROVE  a = n * K + k
    <2> DEFINE x == n * K
               y == t * Lane
    <2>1. x \in Nat /\ y \in Nat
      BY <1>0
    <2>2. k = y + i /\ a = x + y + i
      BY <1>1
    <2> HIDE DEF x, y
    <2>3. a = x + k
      BY <2>1, <2>2
    <2> QED BY <2>3 DEF x
  <1>2. ASSUME NEW w \in AllWrites(f, K, N)
        PROVE  \E n \in 0 .. N - 1, k \in 0 .. K - 1 : w = <<n * K + k, WeightAt(n, k, K)>>
    <2>1. PICK n \in 0 .. N - 1, t \in threads : \E i \in ByThread(f, K, t) : OneWrite(w, n, t, i, K)
      BY DEF AllWrites, OneWrite
    <2>2. PICK i \in ByThread(f, K, t) : OneWrite(w, n, t, i, K)
      BY <2>1
    <2> DEFINE k == t * Lane + i
    <2>3. t \in Nat /\ t * Lane < K
      OBVIOUS
    <2>4. i \in 0 .. Lane - 1 /\ k \in 0 .. K - 1
      BY <2>3, InRow
    <2>5. k \div Superblock = t \div Lanes /\ (k % Superblock) \div Lane = t % Lanes /\ k % Lane = i
      BY <2>3, <2>4, LaneWeight
    <2>6. n * K + t * Lane + i = n * K + k
      <3>1. i \in Nat
        BY <2>4
      <3> QED BY <1>1, <2>3, <3>1
    <2> HIDE DEF k
    <2>7. w = <<n * K + t * Lane + i, <<n * C + t \div Lanes, t % Lanes, i>> >>
      BY <2>2 DEF OneWrite
    <2>8. w = <<n * K + k, WeightAt(n, k, K)>>
      BY <2>5, <2>6, <2>7 DEF WeightAt
    <2> QED BY <2>4, <2>8
  <1>3. ASSUME NEW n \in 0 .. N - 1, NEW k \in 0 .. K - 1
        PROVE  <<n * K + k, WeightAt(n, k, K)>> \in AllWrites(f, K, N)
    <2> DEFINE t == k \div Lane
               i == k % Lane
               w == <<n * K + k, WeightAt(n, k, K)>>
    <2>1. t \in Nat /\ t \in 0 .. GroupThreads(f, K) - 1 /\ t * Lane < K /\ i \in ByThread(f, K, t) /\ k = t * Lane + i
      BY ThreadFor
    <2> HIDE DEF t, i
    <2>2. i \in 0 .. Lane - 1
      BY <2>1, InRow
    <2>3. k \div Superblock = t \div Lanes /\ (k % Superblock) \div Lane = t % Lanes /\ k % Lane = i
      BY <2>1, <2>2, LaneWeight
    <2>4. n * K + t * Lane + i = n * K + k
      <3>1. i \in Nat
        BY <2>2
      <3> QED BY <1>1, <2>1, <3>1
    <2>5. OneWrite(w, n, t, i, K)
      BY <2>3, <2>4 DEF OneWrite, WeightAt
    <2>6. t \in threads
      BY <2>1
    <2>7. w \in AllWrites(f, K, N)
      <3> DEFINE of(m, u) == {<<m * K + u * Lane + j, <<m * C + u \div Lanes, u % Lanes, j>> >> : j \in ByThread(f, K, u)}
      <3>1. w \in of(n, t)
        BY <2>1, <2>5 DEF OneWrite
      <3>2. AllWrites(f, K, N) = UNION {of(m, u) : m \in 0 .. N - 1, u \in threads}
        BY DEF AllWrites
      <3> HIDE DEF of, w, threads
      <3>3. of(n, t) \in {of(m, u) : m \in 0 .. N - 1, u \in threads}
        BY <2>6
      <3> QED BY <3>1, <3>2, <3>3
    <2> QED BY <2>7 DEF w
  <1> QED BY <1>2, <1>3

\* Every weight of the matrix, in its place.
LEMMA DequantizedIs ==
  ASSUME NEW f, NEW K \in Nat \ {0}, NEW N \in Nat, NEW n \in 0 .. N - 1, NEW k \in 0 .. K - 1
  PROVE  Dequantized(f, K, N)[n * K + k] = WeightAt(n, k, K)
  <1> DEFINE writes == AllWrites(f, K, N)
             at == n * K + k
  <1>1. Dequantized(f, K, N) = [a \in {w[1] : w \in writes} |-> (CHOOSE w \in writes : w[1] = a)[2]]
    BY DEF Dequantized, AllWrites, ByThread
  <1>2. <<at, WeightAt(n, k, K)>> \in writes
    BY WritesAre
  <1>3. ASSUME NEW w \in writes, w[1] = at PROVE w[2] = WeightAt(n, k, K)
    <2>1. PICK m \in 0 .. N - 1, j \in 0 .. K - 1 : w = <<m * K + j, WeightAt(m, j, K)>>
      BY WritesAre
    <2>2. m * K + j = n * K + k /\ w[2] = WeightAt(m, j, K)
      BY <1>3, <2>1
    <2>3. (m * K + j) \div K = m /\ (m * K + j) % K = j /\ (n * K + k) \div K = n /\ (n * K + k) % K = k
      BY PlaceOf
    <2>4. m = n /\ j = k
      BY <2>2, <2>3
    <2> QED BY <2>2, <2>4
  <1> DEFINE here == <<at, WeightAt(n, k, K)>>
             found == CHOOSE w \in writes : w[1] = at
  <1>4. here \in writes /\ here[1] = at
    BY <1>2
  <1> HIDE DEF here, at, writes
  <1>5. found \in writes /\ found[1] = at /\ at \in {w[1] : w \in writes}
    BY <1>4
  <1>6. Dequantized(f, K, N)[at] = found[2]
    BY <1>1, <1>5
  <1> HIDE DEF found
  <1>7. found[2] = WeightAt(n, k, K)
    BY <1>3, <1>5
  <1> QED BY <1>6, <1>7 DEF at

\* A place of a weight and its element.
LEMMA FourJoined ==
  ASSUME NEW a, NEW b, NEW c, NEW d
  PROVE  <<a, b, c>> \o <<d>> = <<a, b, c, d>>
  <1> DEFINE S == {a, b, c, d}
             s == <<a, b, c>>
             t == <<d>>
             u == s \o t
             v == <<a, b, c, d>>
  <1>1. /\ s \in Seq(S) /\ t \in Seq(S) /\ Len(s) = 3 /\ Len(t) = 1
        /\ s[1] = a /\ s[2] = b /\ s[3] = c /\ t[1] = d
    OBVIOUS
  <1>2. v \in Seq(S) /\ Len(v) = 4 /\ v[1] = a /\ v[2] = b /\ v[3] = c /\ v[4] = d
    OBVIOUS
  <1> HIDE DEF s, t, v
  <1>3. /\ u \in Seq(S) /\ Len(u) = Len(s) + Len(t)
        /\ \A i \in 1 .. Len(s) + Len(t) : u[i] = IF i <= Len(s) THEN s[i] ELSE t[i - Len(s)]
    <2> HIDE DEF S
    <2> QED BY <1>1, ConcatProperties
  <1> HIDE DEF u
  <1>4. Len(u) = 4 /\ u[1] = a /\ u[2] = b /\ u[3] = c /\ u[4] = d
    BY <1>1, <1>3
  <1>5. \A i \in 1 .. 4 : u[i] = v[i]
    <2>1. \A i \in 1 .. 4 : i \in {1, 2, 3, 4}
      OBVIOUS
    <2> QED BY <1>2, <1>4, <2>1
  <1>6. u = v
    <2> HIDE DEF S
    <2> QED BY <1>2, <1>3, <1>4, <1>5, SeqEqual
  <1> QED BY <1>6 DEF u, s, t, v

\* The product with it.
LEMMA GemmIs ==
  ASSUME NEW r, r.K \in Nat \ {0}, r.M \in Nat, r.N \in Nat \ {0}, NEW f
  PROVE  /\ DOMAIN Gemm(r, Dequantized(f, r.K, r.N)) = 0 .. r.M * r.N - 1
         /\ \A at \in 0 .. r.M * r.N - 1 :
              Gemm(r, Dequantized(f, r.K, r.N))[at] = Wanted(at % r.N, at \div r.N, r.K)
  <1> DEFINE K == r.K
             N == r.N
             buffer == Dequantized(f, r.K, r.N)
             C == CeilDiv(r.K, Superblock)
  <1>0. K \in Nat \ {0} /\ N \in Nat \ {0} /\ r.M \in Nat
    OBVIOUS
  <1>1. ASSUME NEW at \in 0 .. r.M * N - 1 PROVE Gemm(r, buffer)[at] = Wanted(at % N, at \div N, K)
    <2> DEFINE n == at % N
               m == at \div N
               term(k) == <<n * C + k \div Superblock, (k % Superblock) \div Lane, k % Lane, m * K + k>>
    <2>1. n \in 0 .. N - 1
      BY <1>0, Placed
    <2>2. Gemm(r, buffer)[at] = {buffer[n * K + k] \o <<m * K + k>> : k \in 0 .. K - 1}
      BY DEF Gemm
    <2>3. Wanted(n, m, K) = {term(k) : k \in 0 .. K - 1}
      BY DEF Wanted
    <2>4. ASSUME NEW k \in 0 .. K - 1 PROVE buffer[n * K + k] \o <<m * K + k>> = term(k)
      <3> HIDE DEF n
      <3>1. buffer[n * K + k] = WeightAt(n, k, K)
        BY <1>0, <2>1, DequantizedIs
      <3> HIDE DEF buffer, C, m, K
      <3>2. buffer[n * K + k] = <<n * C + k \div Superblock, (k % Superblock) \div Lane, k % Lane>>
        BY <3>1 DEF WeightAt, C, K
      <3>3. \A a, b, c, d : <<a, b, c>> \o <<d>> = <<a, b, c, d>>
        BY FourJoined
      <3> QED BY <3>2, <3>3
    <2> HIDE DEF n, m, term, buffer, K
    <2>5. {buffer[n * K + k] \o <<m * K + k>> : k \in 0 .. K - 1} = {term(k) : k \in 0 .. K - 1}
      BY <2>4
    <2> QED BY <2>2, <2>3, <2>5 DEF n, m
  <1>2. DOMAIN Gemm(r, buffer) = 0 .. r.M * N - 1
    BY DEF Gemm
  <1> QED BY <1>1, <1>2

(* What is asked, and what is served.                                       *)

ProductSums == SumsEachWeightOnce /\ VariantsAgree

\* The kinds of requests.
LEMMA KindOfRequest ==
  ASSUME NEW r \in Requests
  PROVE  /\ r.k = "product" => /\ r.f \in ProductFormats /\ r.M \in Nat /\ r.K \in Nat \ {0} /\ r.N \in Nat \ {0} /\ r.aligned \in BOOLEAN
                               /\ [r EXCEPT !.aligned = FALSE].f = r.f /\ [r EXCEPT !.aligned = FALSE].M = r.M
                               /\ [r EXCEPT !.aligned = FALSE].K = r.K /\ [r EXCEPT !.aligned = FALSE].N = r.N
                               /\ [r EXCEPT !.aligned = FALSE].aligned = FALSE
         /\ r.k = "experts" => ExpertsAssumption(r)
         /\ Threshold \in Nat
  <1>1. ProductAssumption(r) \/ ExpertsAssumption(r) \/ r \in [k : {"decode"}, f : Formats]
    BY ProductsAssumption
  <1>2. Threshold \in Nat
    BY ProductsAssumption
  <1>3. ExpertsAssumption(r) => r.k = "experts"
    BY DEF ExpertsAssumption
  <1>4. ASSUME ProductAssumption(r)
        PROVE  /\ r.k = "product" /\ r.f \in ProductFormats /\ r.M \in Nat /\ r.K \in Nat \ {0} /\ r.N \in Nat \ {0} /\ r.aligned \in BOOLEAN
               /\ [r EXCEPT !.aligned = FALSE].f = r.f /\ [r EXCEPT !.aligned = FALSE].M = r.M
               /\ [r EXCEPT !.aligned = FALSE].K = r.K /\ [r EXCEPT !.aligned = FALSE].N = r.N
               /\ [r EXCEPT !.aligned = FALSE].aligned = FALSE
    <2>1. r \in [k : {"product"}, f : ProductFormats, M : Nat, K : Nat \ {0}, N : Nat \ {0}, aligned : BOOLEAN]
      BY <1>4 DEF ProductAssumption
    <2> QED BY <2>1
  <1>5. r \in [k : {"decode"}, f : Formats] => r.k = "decode"
    OBVIOUS
  <1>6. CASE ProductAssumption(r)
    <2>1. r.k = "product"
      BY <1>4, <1>6
    <2> QED BY <1>2, <1>4, <1>6, <2>1
  <1>7. CASE ExpertsAssumption(r)
    BY <1>2, <1>3, <1>7
  <1>8. CASE r \in [k : {"decode"}, f : Formats]
    BY <1>2, <1>5, <1>8
  <1> QED BY <1>1, <1>6, <1>7, <1>8

\* A product by rows has every sum; with the input in place or copied, and
\* but for the wide formats with any variant, it is the same.
LEMMA ByRowsSums ==
  ASSUME NEW r \in Requests, r.k = "product", NEW v \in Letters(Key(r))
  PROVE  /\ DOMAIN ByRows(r, v) = 0 .. r.M * r.N - 1
         /\ \A at \in 0 .. r.M * r.N - 1 : SumsOnce(ByRows(r, v)[at], Wanted(at % r.N, at \div r.N, r.K))
         /\ Persistent(Key(r)) => ByRows(r, v) = ByRows([r EXCEPT !.aligned = FALSE], IF r.f \in Wide THEN v ELSE 1)
  <1> DEFINE s == [r EXCEPT !.aligned = FALSE]
             u == IF r.f \in Wide THEN v ELSE 1
             f == r.f
             K == r.K
  <1>1. /\ r.f \in ProductFormats /\ r.M \in Nat /\ r.K \in Nat \ {0} /\ r.N \in Nat \ {0} /\ r.aligned \in BOOLEAN
        /\ s.f = r.f /\ s.M = r.M /\ s.K = r.K /\ s.N = r.N /\ s.aligned \in BOOLEAN
    BY KindOfRequest
  <1>2. v \in DOMAIN Variants(f)
    BY DEF Letters, Key
  <1>3. ByRows(r, v) = Product(r.f, r.M, r.K, r.N, v)
    BY <1>1, <1>2, ByRowsIs
  <1>4. ASSUME NEW at \in 0 .. r.M * r.N - 1
        PROVE  SumsOnce(ByRows(r, v)[at], Wanted(at % r.N, at \div r.N, r.K))
    <2>1. SumsOnce(Product(r.f, r.M, r.K, r.N, v)[at], Wanted(at % r.N, at \div r.N, r.K))
      BY <1>1, <1>2, ProductOnce
    <2> QED BY <1>3, <2>1
  <1>5. DOMAIN ByRows(r, v) = 0 .. r.M * r.N - 1
    BY <1>3 DEF Product
  <1>6. ASSUME Persistent(Key(r)) PROVE ByRows(r, v) = ByRows(s, u)
    <2>1. f # "hq31k"
      BY <1>6 DEF Persistent, Key
    <2>2. u \in DOMAIN Variants(f)
      BY <1>2, <2>1, VariantsAre
    <2>3. RowPlan(f, K, u) = RowPlan(f, K, v)
      <3>1. CASE f \in Wide
        BY <3>1
      <3>2. CASE f \notin Wide
        BY <2>1, <3>2 DEF RowPlan
      <3> QED BY <3>1, <3>2
    <2> HIDE DEF s, u
    <2>4. ByRows(s, u) = Product(r.f, r.M, r.K, r.N, u)
      <3>1. u \in DOMAIN Variants(s.f)
        BY <1>1, <2>2
      <3>2. ByRows(s, u) = Product(s.f, s.M, s.K, s.N, u)
        BY <1>1, <3>1, ByRowsIs
      <3> QED BY <1>1, <3>2
    <2>5. Product(r.f, r.M, r.K, r.N, u) = Product(r.f, r.M, r.K, r.N, v)
      BY <2>3 DEF Product
    <2> QED BY <1>3, <2>4, <2>5
  <1> QED BY <1>4, <1>5, <1>6

\* Every request leaves the sums it asks for.
LEMMA ServedSums ==
  ASSUME NEW d \in Devices, NEW r \in Requests, ServeProduct(d, r)
  PROVE  ProductSums'
  <1>0. Threshold \in Nat
    BY KindOfRequest
  <1>1. CASE Multiply(d, r)
    <2>1. r.k = "product" /\ ~Dequantizes(r)
      BY <1>1 DEF Multiply
    <2>2. PICK v \in Letters(Key(r)) : asked' = Served(r, v) /\ out' = ByRows(r, v)
      BY <1>1 DEF Multiply
    <2>3. asked'.k = "product" /\ asked'.r = r /\ asked'.v = v
      BY <2>2 DEF Served
    <2>4. /\ DOMAIN out' = 0 .. r.M * r.N - 1
          /\ \A at \in 0 .. r.M * r.N - 1 : SumsOnce(out'[at], Wanted(at % r.N, at \div r.N, r.K))
          /\ Persistent(Key(r)) => out' = ByRows([r EXCEPT !.aligned = FALSE], IF r.f \in Wide THEN v ELSE 1)
      BY <2>1, <2>2, ByRowsSums
    <2>5. SumsEachWeightOnce'
      BY <2>1, <2>3, <2>4 DEF SumsEachWeightOnce
    <2>6. VariantsAgree'
      <3>1. ASSUME r.f \in OneOrder PROVE out' = ByRows(Copied(r), 1)
        <4>1. r.f # "hq31k" /\ r.f \notin Wide
          BY <3>1 DEF OneOrder, Compact, Symmetric, V3, Wide
        <4>2. Persistent(Key(r))
          BY <4>1 DEF Persistent, Key
        <4> QED BY <2>4, <4>1, <4>2 DEF Copied
      <3>2. ASSUME r.f = "hq44k" PROVE out' = ByRows(Copied(r), v)
        <4>1. r.f # "hq31k" /\ r.f \in Wide
          BY <3>2 DEF Wide
        <4>2. Persistent(Key(r))
          BY <4>1 DEF Persistent, Key
        <4> QED BY <2>4, <4>1, <4>2 DEF Copied
      <3> QED BY <2>3, <3>1, <3>2 DEF VariantsAgree
    <2> QED BY <2>5, <2>6 DEF ProductSums
  <1>2. CASE MultiplyDequantized(r)
    <2>1. r.k = "product" /\ Dequantizes(r) /\ asked' = Served(r, 0) /\ out' = Gemm(r, Dequantized(r.f, r.K, r.N))
      BY <1>2 DEF MultiplyDequantized
    <2>2. asked'.k = "product" /\ asked'.r = r
      BY <2>1 DEF Served
    <2>3. r.M \in Nat /\ r.K \in Nat \ {0} /\ r.N \in Nat \ {0}
      BY <2>1, KindOfRequest
    <2>4. /\ DOMAIN out' = 0 .. r.M * r.N - 1
          /\ \A at \in 0 .. r.M * r.N - 1 : out'[at] = Wanted(at % r.N, at \div r.N, r.K)
      BY <2>1, <2>3, GemmIs
    <2>5. SumsEachWeightOnce'
      BY <2>1, <2>2, <2>4 DEF SumsEachWeightOnce
    <2>6. ~(r.M < Threshold)
      BY <1>0, <2>1, <2>3 DEF Dequantizes
    <2>7. VariantsAgree'
      BY <2>2, <2>6 DEF VariantsAgree
    <2> QED BY <2>5, <2>7 DEF ProductSums
  <1>3. CASE MultiplyExperts(r)
    <2>1. r.k = "experts" /\ asked' = [k |-> "experts", r |-> r, v |-> 0] /\ out' = Experts(r)
      BY <1>3 DEF MultiplyExperts
    <2>2. asked'.k = "experts" /\ asked'.r = r
      BY <2>1
    <2>3. ExpertsAssumption(r)
      BY <2>1, KindOfRequest
    <2>4. /\ DOMAIN out' = 0 .. Len(r.experts) * r.N - 1
          /\ \A at \in 0 .. Len(r.experts) * r.N - 1 :
               SumsOnce(out'[at],
                        Wanted(r.experts[(at \div r.N) + 1] * r.N + (at % r.N), IF r.stride = 0 THEN 0 ELSE at \div r.N, r.K))
      BY <2>1, <2>3, ExpertsAre
    <2>5. SumsEachWeightOnce'
      BY <2>2, <2>4 DEF SumsEachWeightOnce
    <2>6. VariantsAgree'
      BY <2>2 DEF VariantsAgree
    <2> QED BY <2>5, <2>6 DEF ProductSums
  <1>4. CASE DecodeBlock(r)
    <2>1. asked'.k = "decode"
      BY <1>4 DEF DecodeBlock
    <2> QED BY <2>1 DEF ProductSums, SumsEachWeightOnce, VariantsAgree
  <1> QED BY <1>1, <1>2, <1>3, <1>4 DEF ServeProduct

(* The readers of a block.                                                  *)

\* Bits of the block one after the other.
Run(a, n) == [j \in 1 .. n |-> a + j - 1]

\* A register has those from a on in its first n bits.
Bears(x, a, n) == x \in Seq(Int) /\ n <= Len(x) /\ \A j \in 1 .. n : x[j] = a + j - 1

\* Bits one after the other are themselves.
LEMMA RunBears ==
  ASSUME NEW a \in Int, NEW n \in Nat
  PROVE  Bears(Run(a, n), a, n) /\ Len(Run(a, n)) = n
  <1>1. Run(a, n) \in [1 .. n -> Int]
    BY DEF Run
  <1>2. Run(a, n) \in Seq(Int) /\ Len(Run(a, n)) = n
    BY <1>1, LenProperties
  <1>3. \A j \in 1 .. n : Run(a, n)[j] = a + j - 1
    BY DEF Run
  <1> QED BY <1>2, <1>3 DEF Bears

\* Bytes one after the other, as they are loaded.
LEMMA BytesBear ==
  ASSUME NEW b \in Nat, NEW n \in Nat
  PROVE  Bears(Bytes(b, n), 8 * b, 8 * n) /\ Len(Bytes(b, n)) = 8 * n /\ Bytes(b, n) = Run(8 * b, 8 * n)
  <1>1. Bytes(b, n) = Run(8 * b, 8 * n)
    BY DEF Bytes, Run
  <1>2. 8 * b \in Int /\ 8 * n \in Nat
    OBVIOUS
  <1> QED BY <1>1, <1>2, RunBears

\* A shift to the right drops the lowest bits.
LEMMA ShiftBears ==
  ASSUME NEW a \in Int, NEW n \in Nat, NEW s \in Nat, s <= n, NEW x, Bears(x, a, n)
  PROVE  Bears(Shr(x, s), a + s, n - s) /\ Len(Shr(x, s)) = Len(x)
  <1> DEFINE y == Shr(x, s)
             l == Len(x)
  <1>0. l \in Nat /\ n <= l /\ (\A j \in 1 .. l : x[j] \in Int) /\ x \in Seq(Int)
    BY LenProperties DEF Bears
  <1>1. y = [j \in 1 .. l |-> IF j + s <= l THEN x[j + s] ELSE NoBit]
    BY DEF Shr
  <1>2. \A j \in 1 .. l : (IF j + s <= l THEN x[j + s] ELSE NoBit) \in Int
    BY <1>0 DEF NoBit
  <1>3. y \in [1 .. l -> Int]
    <2> HIDE DEF l
    <2> QED BY <1>1, <1>2
  <1>4. y \in Seq(Int) /\ Len(y) = l
    <2> HIDE DEF l, y
    <2> QED BY <1>0, <1>3, LenProperties
  <1>5. ASSUME NEW j \in 1 .. n - s PROVE y[j] = a + s + j - 1
    <2>1. j \in 1 .. l /\ j + s <= l /\ j + s \in 1 .. n
      BY <1>0
    <2>2. y[j] = x[j + s]
      BY <1>1, <2>1
    <2>3. x[j + s] = a + (j + s) - 1
      BY <2>1 DEF Bears
    <2> HIDE DEF y
    <2> QED BY <2>2, <2>3
  <1>6. n - s <= l
    BY <1>0
  <1> QED BY <1>4, <1>5, <1>6 DEF Bears

\* What is left of a register once masked.
LEMMA LowestIs ==
  ASSUME NEW a \in Int, NEW n \in Nat, NEW m \in Nat, m <= n, NEW x, Bears(x, a, n)
  PROVE  Lowest(x, m) = Run(a, m)
  <1>0. x \in Seq(Int) /\ Len(x) \in Nat /\ m <= Len(x)
    BY LenProperties DEF Bears
  <1>1. \A j \in 1 .. m : x[j] = a + j - 1 /\ x[j] \in Int
    BY DEF Bears
  <1>2. /\ Lowest(x, m) \in Seq(Int) /\ Len(Lowest(x, m)) = m
        /\ \A j \in 1 .. m : Lowest(x, m)[j] = x[j]
    <2>1. \A i \in 1 .. m : x[i] \in Int
      BY <1>1
    <2> DEFINE y == SubSeq(x, 1, m)
    <2>2. /\ y \in Seq(Int) /\ Len(y) = IF 1 <= m THEN m - 1 + 1 ELSE 0
          /\ \A i \in 1 .. m - 1 + 1 : y[i] = x[1 + i - 1]
      BY <2>1, SubSeqProperties
    <2> HIDE DEF y
    <2>3. \A j \in 1 .. m : j \in 1 .. m - 1 + 1 /\ 1 + j - 1 = j
      OBVIOUS
    <2>4. Len(y) = m /\ \A j \in 1 .. m : y[j] = x[j]
      BY <2>2, <2>3
    <2> QED BY <2>2, <2>4 DEF Lowest, y
  <1>3. Run(a, m) \in Seq(Int) /\ Len(Run(a, m)) = m /\ \A j \in 1 .. m : Run(a, m)[j] = a + j - 1
    BY RunBears DEF Bears
  <1>4. \A j \in 1 .. m : Lowest(x, m)[j] = Run(a, m)[j]
    BY <1>1, <1>2, <1>3
  <1> QED BY <1>2, <1>3, <1>4, SeqEqual

\* A field of a register.
LEMMA FieldIs ==
  ASSUME NEW a \in Int, NEW n \in Nat, NEW s \in Nat, NEW m \in Nat, s + m <= n, NEW x, Bears(x, a, n)
  PROVE  Lowest(Shr(x, s), m) = Run(a + s, m)
  <1>1. Bears(Shr(x, s), a + s, n - s)
    BY ShiftBears
  <1>2. a + s \in Int /\ n - s \in Nat /\ m <= n - s
    OBVIOUS
  <1> HIDE DEF Shr
  <1> QED BY <1>1, <1>2, LowestIs

\* Two registers side by side.
LEMMA PairBears ==
  ASSUME NEW a \in Int, NEW l \in Nat, NEW b \in Int, NEW m \in Nat, b = a + l, NEW x, NEW y,
         Len(x) = l, Bears(x, a, l), Bears(y, b, m)
  PROVE  Bears(x \o y, a, l + m) /\ Len(x \o y) = l + Len(y)
  <1> DEFINE u == x \o y
  <1>0. x \in Seq(Int) /\ y \in Seq(Int) /\ l \in Nat /\ Len(y) \in Nat /\ m <= Len(y)
    BY LenProperties DEF Bears
  <1>1. /\ u \in Seq(Int) /\ Len(u) = l + Len(y)
        /\ \A i \in 1 .. l + Len(y) : u[i] = IF i <= l THEN x[i] ELSE y[i - l]
    BY <1>0, ConcatProperties
  <1>2. (\A j \in 1 .. l : x[j] = a + j - 1) /\ (\A j \in 1 .. m : y[j] = a + l + j - 1)
    BY DEF Bears
  <1> HIDE DEF u
  <1>3. ASSUME NEW j \in 1 .. l + m PROVE u[j] = a + j - 1
    <2>1. CASE j <= l
      <3>1. j \in 1 .. l /\ j \in 1 .. l + Len(y)
        BY <1>0, <2>1
      <3> QED BY <1>1, <1>2, <2>1, <3>1
    <2>2. CASE ~(j <= l)
      <3>1. j - l \in 1 .. m /\ j \in 1 .. l + Len(y)
        BY <1>0, <2>2
      <3>2. u[j] = y[j - l] /\ y[j - l] = a + l + (j - l) - 1
        BY <1>1, <1>2, <2>2, <3>1
      <3> QED BY <1>0, <3>2
    <2> QED BY <2>1, <2>2
  <1>4. l + m <= Len(u)
    BY <1>0, <1>1
  <1>5. Bears(u, a, l + m)
    BY <1>1, <1>3, <1>4 DEF Bears
  <1> QED BY <1>1, <1>5 DEF u

\* The funnel shift of two words.
LEMMA FunnelBears ==
  ASSUME NEW a \in Int, NEW m \in 0 .. 32, NEW lo, NEW hi, Len(lo) = 32, Len(hi) = 32, Bears(lo, a, 32), Bears(hi, a + 32, m),
         NEW s \in Nat, NEW n \in 0 .. 32, (s % 32) + n <= 32 + m
  PROVE  Bears(Funnel(lo, hi, s), a + (s % 32), n) /\ Len(Funnel(lo, hi, s)) = 32
  <1> DEFINE u == lo \o hi
             t == s % 32
             y == Funnel(lo, hi, s)
  <1>0. t \in 0 .. 31
    OBVIOUS
  <1>1. Bears(u, a, 32 + m) /\ Len(u) = 64 /\ u \in Seq(Int)
    <2> DEFINE l == 32
               b == a + 32
    <2>1. Bears(lo, a, l) /\ Bears(hi, b, m) /\ m \in Nat /\ l \in Nat /\ b \in Int /\ b = a + l /\ Len(lo) = l
      OBVIOUS
    <2> HIDE DEF l, b
    <2>2. Bears(u, a, l + m) /\ Len(u) = l + Len(hi)
      <3> HIDE DEF u
      <3>1. Bears(lo \o hi, a, l + m) /\ Len(lo \o hi) = l + Len(hi)
        BY ONLY <2>1, PairBears, a \in Int
      <3> QED BY <3>1 DEF u
    <2> HIDE DEF u
    <2> QED BY <2>2 DEF Bears, l
  <1>2. y = SubSeq(u, t + 1, t + 32)
    BY DEF Funnel
  <1> HIDE DEF u, t, y
  <1>3. \A i \in t + 1 .. t + 32 : u[i] \in Int
    <2>1. \A i \in t + 1 .. t + 32 : i \in 1 .. 64
      BY <1>0
    <2>2. \A i \in 1 .. 64 : u[i] \in Int
      <3>1. \A i \in 1 .. Len(u) : u[i] \in Int
        <4>1. u \in Seq(Int)
          BY <1>1
        <4> QED BY <4>1
      <3> QED BY <1>1, <3>1
    <2> QED BY <2>1, <2>2
  <1>4. y \in Seq(Int) /\ Len(y) = 32 /\ \A i \in 1 .. 32 : y[i] = u[t + i]
    <2> DEFINE p == t + 1
               q == t + 32
    <2>1. p \in Int /\ q \in Int /\ p <= q /\ q - p + 1 = 32 /\ \A i \in 1 .. 32 : p + i - 1 = t + i
      BY <1>0
    <2> HIDE DEF p, q
    <2>2. \A i \in p .. q : u[i] \in Int
      BY <1>3 DEF p, q
    <2> DEFINE v == SubSeq(u, p, q)
    <2>3. /\ v \in Seq(Int) /\ Len(v) = IF p <= q THEN q - p + 1 ELSE 0
          /\ \A i \in 1 .. q - p + 1 : v[i] = u[p + i - 1]
      BY <2>1, <2>2, SubSeqProperties
    <2>4. y = v
      BY <1>2 DEF p, q
    <2> HIDE DEF v
    <2>5. v \in Seq(Int) /\ Len(v) = 32 /\ \A i \in 1 .. 32 : v[i] = u[t + i]
      BY <2>1, <2>3
    <2> QED BY <2>4, <2>5
  <1>6. ASSUME NEW j \in 1 .. n PROVE y[j] = a + t + j - 1
    <2>1. j \in 1 .. 32 /\ t + j \in 1 .. 32 + m
      BY <1>0 DEF t
    <2>2. y[j] = u[t + j]
      BY <1>4, <2>1
    <2>3. u[t + j] = a + (t + j) - 1
      BY <1>1, <2>1 DEF Bears
    <2> QED BY <1>0, <2>2, <2>3
  <1>7. Bears(y, a + t, n)
    <2>1. n <= Len(y)
      BY <1>4
    <2>2. \A j \in 1 .. n : y[j] = (a + t) + j - 1
      BY <1>6
    <2>3. y \in Seq(Int)
      BY <1>4
    <2> QED BY <2>1, <2>2, <2>3 DEF Bears
  <1> QED BY <1>4, <1>7 DEF y, t

(* What the readers find.                                                   *)

\* The place of a code with two in a byte, the first one in the high half.
Flip(i) == IF i % 2 = 0 THEN i + 1 ELSE i - 1

\* The two bytes of a half.
LEMMA HalfIs ==
  ASSUME NEW b \in Nat
  PROVE  Half(b) = Run(8 * b, 16)
  <1>1. Bytes(b, 2) = Run(8 * b, 8 * 2)
    BY BytesBear
  <1> QED BY <1>1 DEF Half

\* The four bytes of a word.
LEMMA WordIs ==
  ASSUME NEW w \in Nat
  PROVE  Word(w) = Run(32 * w, 32) /\ Bears(Word(w), 32 * w, 32) /\ Len(Word(w)) = 32 /\ 32 * w \in Nat
  <1>1. Bytes(4 * w, 4) = Run(8 * (4 * w), 8 * 4)
    <2>1. 4 * w \in Nat
      OBVIOUS
    <2> QED BY <2>1, BytesBear
  <1>2. 8 * (4 * w) = 32 * w /\ 8 * 4 = 32 /\ 32 * w \in Int /\ 32 * w \in Nat
    OBVIOUS
  <1>3. Word(w) = Run(32 * w, 32)
    BY <1>1, <1>2 DEF Word
  <1> DEFINE a == 32 * w
  <1>4. a \in Int /\ a \in Nat /\ Word(w) = Run(a, 32)
    BY <1>2, <1>3
  <1> HIDE DEF a, Word
  <1>5. Bears(Run(a, 32), a, 32) /\ Len(Run(a, 32)) = 32
    BY <1>4, RunBears
  <1>6. Word(w) = Run(a, 32) /\ Bears(Word(w), a, 32) /\ Len(Word(w)) = 32 /\ a \in Nat
    BY <1>4, <1>5
  <1> QED BY <1>6 DEF a

\* The half of a byte, the high one first.
LEMMA NibbleIs ==
  ASSUME NEW b \in Nat, NEW high \in BOOLEAN
  PROVE  Nibble(b, high) = Run(8 * b + (IF high THEN 4 ELSE 0), 4)
  <1>0. Bears(Bytes(b, 1), 8 * b, 8)
    <2>1. Bears(Bytes(b, 1), 8 * b, 8 * 1)
      BY BytesBear
    <2> QED BY <2>1
  <1> DEFINE a == 8 * b
             x == Bytes(b, 1)
  <1>1. a \in Int /\ Bears(x, a, 8)
    BY <1>0
  <1> HIDE DEF a, x
  <1>2. Lowest(Shr(x, 4), 4) = Run(a + 4, 4)
    BY <1>1, FieldIs
  <1>3. Lowest(x, 4) = Run(a, 4) /\ a + 0 = a
    BY <1>1, LowestIs
  <1>4. CASE high
    BY <1>2, <1>4 DEF Nibble, a, x
  <1>5. CASE ~high
    <2>1. Nibble(b, high) = Lowest(x, 4)
      BY <1>5 DEF Nibble, x
    <2>2. Nibble(b, high) = Run(a + 0, 4)
      BY <1>3, <2>1
    <2> QED BY <1>5, <2>2 DEF a
  <1> QED BY <1>4, <1>5

\* The halves of the bytes of a word, in either order.
LEMMA NibbleOfIs ==
  ASSUME NEW a \in Int, NEW x, Bears(x, a, 32), NEW i \in 0 .. 7
  PROVE  NibbleOf(x, i) = Run(a + 4 * Flip(i), 4) /\ LowFirst(x, i) = Run(a + 4 * i, 4)
  <1> DEFINE s == 8 * (i \div 2)
             byte == Lowest(Shr(x, s), 8)
  <1>1. s \in Nat /\ s + 8 <= 32
    OBVIOUS
  <1> HIDE DEF s
  <1>2. byte = Run(a + s, 8)
    BY <1>1, FieldIs
  <1>3. Bears(byte, a + s, 8) /\ a + s \in Int
    BY <1>1, <1>2, RunBears
  <1> HIDE DEF byte
  <1> DEFINE b == a + s
  <1>4. Bears(byte, b, 8) /\ b \in Int
    BY <1>3
  <1> HIDE DEF b
  <1>5. Lowest(Shr(byte, 4), 4) = Run(b + 4, 4)
    BY <1>4, FieldIs
  <1>6. Lowest(byte, 4) = Run(b, 4)
    BY <1>4, LowestIs
  <1>7. i % 2 = 0 => b + 4 = a + 4 * Flip(i) /\ b = a + 4 * i
    <2> SUFFICES ASSUME i % 2 = 0 PROVE b + 4 = a + 4 * Flip(i) /\ b = a + 4 * i
      OBVIOUS
    <2>1. Flip(i) = i + 1
      BY DEF Flip
    <2>2. s = 4 * i
      BY DEF s
    <2> QED BY <2>1, <2>2 DEF b
  <1>8. i % 2 # 0 => b = a + 4 * Flip(i) /\ b + 4 = a + 4 * i
    <2> SUFFICES ASSUME i % 2 # 0 PROVE b = a + 4 * Flip(i) /\ b + 4 = a + 4 * i
      OBVIOUS
    <2>1. Flip(i) = i - 1
      BY DEF Flip
    <2>2. s = 4 * i - 4
      BY DEF s
    <2> QED BY <2>1, <2>2 DEF b
  <1>9. NibbleOf(x, i) = Lowest(IF i % 2 = 0 THEN Shr(byte, 4) ELSE byte, 4)
    BY DEF NibbleOf, byte, s
  <1>10. LowFirst(x, i) = Lowest(IF i % 2 = 0 THEN byte ELSE Shr(byte, 4), 4)
    BY DEF LowFirst, byte, s
  <1>11. CASE i % 2 = 0
    BY <1>5, <1>6, <1>7, <1>9, <1>10, <1>11
  <1>12. CASE i % 2 # 0
    BY <1>5, <1>6, <1>8, <1>9, <1>10, <1>12
  <1> QED BY <1>11, <1>12

\* A code of some bits in a register.
LEMMA CodeOfIs ==
  ASSUME NEW a \in Int, NEW n \in Nat, NEW x, Bears(x, a, n), NEW i \in Nat, NEW bits \in Nat, NEW p \in Nat, p = i * bits, p + bits <= n
  PROVE  CodeOf(x, bits, i) = Run(a + p, bits)
  <1>1. Lowest(Shr(x, p), bits) = Run(a + p, bits)
    BY FieldIs
  <1> QED BY <1>1 DEF CodeOf

\* A field of five bits of a header, from two bytes or from two words.
LEMMA FiveInBytes ==
  ASSUME NEW c \in Nat, NEW p \in Nat
  PROVE  Lowest(Shr(Bytes(c + p \div 8, 2), p % 8), 5) = Run(8 * c + p, 5)
  <1> DEFINE b == c + p \div 8
             s == p % 8
             x == Bytes(b, 2)
             a == 8 * b
  <1>1. b \in Nat /\ s \in 0 .. 7 /\ a + s = 8 * c + p
    OBVIOUS
  <1> HIDE DEF b, s
  <1>2. Bears(x, a, 16) /\ a \in Int
    <2>1. Bears(Bytes(b, 2), 8 * b, 8 * 2)
      BY <1>1, BytesBear
    <2> QED BY <1>1, <2>1
  <1> HIDE DEF a, x
  <1>3. Lowest(Shr(x, s), 5) = Run(a + s, 5)
    <2>1. s \in Nat /\ s + 5 <= 16
      BY <1>1
    <2> QED BY <1>2, <2>1, FieldIs
  <1>4. Lowest(Shr(x, s), 5) = Run(8 * c + p, 5)
    BY <1>1, <1>3
  <1> QED BY <1>4 DEF x, s, b

\* Five bits that may straddle two words.
LEMMA FiveInWords ==
  ASSUME NEW a \in Int, NEW lo, NEW hi, NEW m \in 0 .. 32, Bears(lo, a, 32), Bears(hi, a + 32, m), Len(lo) = 32, Len(hi) = 32,
         NEW s \in 0 .. 31, s + 5 <= 32 + m
  PROVE  Lowest(Funnel(lo, hi, s), 5) = Run(a + s, 5)
  <1>1. s % 32 = s /\ s \in Nat /\ 5 \in 0 .. 32
    OBVIOUS
  <1>2. Bears(Funnel(lo, hi, s), a + (s % 32), 5)
    BY <1>1, FunnelBears
  <1>3. Bears(Funnel(lo, hi, s), a + s, 5) /\ a + s \in Int
    BY <1>1, <1>2
  <1> HIDE DEF Funnel
  <1> QED BY <1>3, LowestIs

\* Five bytes of a lane from two words, at a byte of the first one.
LEMMA FiveBitsIs ==
  ASSUME NEW offset \in Nat, NEW i \in 0 .. 7
  PROVE  FiveBits(offset, i) = Run(8 * offset + 5 * i, 5)
  <1> DEFINE w == offset \div 4
             v == w + 1
             shift == (offset % 4) * 8
             lo == Funnel(Word(w), Word(w + 1), shift)
             hi == Shr(Word(w + 1), shift)
             a == 32 * w
             at == 8 * offset
  <1>1. w \in Nat /\ w + 1 \in Nat /\ shift \in {0, 8, 16, 24} /\ a + shift = at /\ at \in Nat /\ 32 * (w + 1) = a + 32
    OBVIOUS
  <1>2. /\ Bears(Word(w), a, 32) /\ Len(Word(w)) = 32 /\ a \in Nat
        /\ Bears(Word(w + 1), a + 32, 32) /\ Len(Word(w + 1)) = 32
    <2>1. Bears(Word(w), 32 * w, 32) /\ Len(Word(w)) = 32 /\ 32 * w \in Nat
      BY <1>1, WordIs
    <2>2. Bears(Word(v), 32 * v, 32) /\ Len(Word(v)) = 32
      BY <1>1, WordIs
    <2> QED BY <1>1, <2>1, <2>2
  <1> DEFINE one == Word(w)
             two == Word(w + 1)
             b == a + 32
  <1>3. Bears(one, a, 32) /\ Len(one) = 32 /\ a \in Int /\ Bears(two, a + 32, 32) /\ Len(two) = 32 /\ b \in Int /\ Bears(two, b, 32) /\ b = a + 32
    BY <1>2
  <1> HIDE DEF one, two, a, shift, at, b, w
  <1>4. lo = Funnel(one, two, shift) /\ hi = Shr(two, shift)
    BY DEF one, two
  <1> HIDE DEF lo, hi
  <1>5. Bears(lo, at, 32) /\ Len(lo) = 32
    <2>1. shift \in Nat /\ 32 \in 0 .. 32 /\ (shift % 32) + 32 <= 32 + 32 /\ shift % 32 = shift
      BY <1>1
    <2> DEFINE m == 32
    <2>2. m \in 0 .. 32 /\ (shift % 32) + m <= 32 + m /\ Bears(two, a + 32, m) /\ Len(one) = 32 /\ Len(two) = 32 /\ Bears(one, a, 32)
          /\ a \in Int /\ shift \in Nat
      BY <1>3, <2>1
    <2> HIDE DEF m
    <2>3. Bears(Funnel(one, two, shift), a + (shift % 32), m) /\ Len(Funnel(one, two, shift)) = 32
      BY ONLY <2>2, FunnelBears
    <2> QED BY <1>1, <1>4, <2>1, <2>3 DEF m
  <1>6. Bears(hi, b + shift, 32 - shift) /\ Len(hi) = 32
    <2> DEFINE n == 32
    <2>1. shift \in Nat /\ shift <= n /\ n \in Nat /\ Bears(two, b, n) /\ b \in Int
      BY <1>1, <1>3
    <2> HIDE DEF n
    <2>2. Bears(Shr(two, shift), b + shift, n - shift) /\ Len(Shr(two, shift)) = Len(two)
      BY ONLY <2>1, ShiftBears
    <2> QED BY <1>3, <1>4, <2>2 DEF n
  <1>7. b + shift = at + 32 /\ 32 - shift \in 8 .. 32 /\ 32 - shift \in Nat /\ at \in Int
    BY <1>1, <1>3
  <1> DEFINE rest == 32 - shift
             c == at + 32
  <1>8. Bears(hi, c, rest) /\ rest \in 8 .. 32 /\ c \in Int
    BY <1>6, <1>7
  <1>9. FiveBits(offset, i) = IF i < 7 THEN Lowest(Funnel(lo, hi, i * 5), 5) ELSE Lowest(Shr(hi, 3), 5)
    BY DEF FiveBits, lo, hi, shift, w
  <1> HIDE DEF rest
  <1>10. CASE i < 7
    <2> DEFINE s == i * 5
               m == 8
    <2>1. s \in 0 .. 31 /\ s + 5 <= 32 + m /\ m \in 0 .. 32 /\ 5 * i = s
      BY <1>10
    <2>2. Bears(hi, at + 32, m)
      <3>1. \A j \in 1 .. 8 : j \in 1 .. rest
        BY <1>8
      <3>2. hi \in Seq(Int) /\ Len(hi) = 32 /\ \A j \in 1 .. rest : hi[j] = c + j - 1
        BY <1>6, <1>8 DEF Bears
      <3> HIDE DEF c
      <3>3. Bears(hi, c, 8)
        BY <3>1, <3>2 DEF Bears
      <3> QED BY <3>3 DEF c
    <2> HIDE DEF s, m
    <2>3. Lowest(Funnel(lo, hi, s), 5) = Run(at + s, 5)
      BY <1>5, <1>6, <1>7, <2>1, <2>2, FiveInWords
    <2>4. FiveBits(offset, i) = Run(at + 5 * i, 5)
      BY <1>9, <1>10, <2>1, <2>3 DEF s
    <2> QED BY <2>4 DEF at
  <1>11. CASE ~(i < 7)
    <2>1. 3 + 5 <= rest /\ rest \in Nat
      BY <1>8
    <2> HIDE DEF c
    <2>2. Lowest(Shr(hi, 3), 5) = Run(c + 3, 5)
      BY <1>8, <2>1, FieldIs
    <2>3. c + 3 = at + 5 * i
      BY <1>7, <1>11 DEF c
    <2>4. FiveBits(offset, i) = Run(at + 5 * i, 5)
      BY <1>9, <1>11, <2>2, <2>3
    <2> QED BY <2>4 DEF at
  <1> QED BY <1>10, <1>11

\* A header of six words passed around by the lanes.
LEMMA HeaderHas ==
  ASSUME NEW words \in Nat, NEW w \in Nat
  PROVE  /\ Len(HeaderWord(words, w)) = 32
         /\ w < words => Bears(HeaderWord(words, w), 32 * w, 32)
         /\ Bears(HeaderWord(words, w), 32 * w, 0)
  <1>1. CASE w < words
    <2>1. HeaderWord(words, w) = Word(w) /\ Bears(Word(w), 32 * w, 32) /\ Len(Word(w)) = 32
      BY <1>1, WordIs DEF HeaderWord
    <2>2. Bears(Word(w), 32 * w, 0)
      BY <2>1 DEF Bears
    <2> QED BY <2>1, <2>2
  <1>2. CASE ~(w < words)
    <2> DEFINE x == [j \in 1 .. 32 |-> NoBit]
    <2>1. HeaderWord(words, w) = x
      BY <1>2 DEF HeaderWord
    <2>2. x \in [1 .. 32 -> Int]
      BY DEF NoBit
    <2> HIDE DEF x
    <2> DEFINE n == 32
    <2>5. n \in Nat /\ x \in [1 .. n -> Int]
      BY <2>2
    <2> HIDE DEF n
    <2>6. x \in Seq(Int) /\ DOMAIN x = 1 .. n
      BY <2>5
    <2>7. Len(x) = n
      BY <2>5, <2>6, LenProperties
    <2>3. x \in Seq(Int) /\ Len(x) = 32
      BY <2>6, <2>7 DEF n
    <2>4. Bears(x, 32 * w, 0)
      BY <2>3 DEF Bears
    <2> QED BY <1>2, <2>1, <2>3, <2>4
  <1> QED BY <1>1, <1>2

\* The scales of hq44k, from the lanes that hold the header or from its bytes.
LEMMA ShuffledIs ==
  ASSUME NEW bit \in 0 .. 187
  PROVE  ShuffledField5(bit) = Run(bit, 5) /\ Field5(bit) = Run(32 + bit, 5)
  <1> DEFINE w == bit \div 32
             s == bit % 32
             lo == HeaderWord(6, w)
             hi == HeaderWord(6, w + 1)
             a == 32 * w
             m == IF w + 1 < 6 THEN 32 ELSE 0
  <1>1. w \in Nat /\ w + 1 \in Nat /\ w < 6 /\ s \in 0 .. 31 /\ a + s = bit /\ a \in Int /\ 32 * (w + 1) = a + 32
    OBVIOUS
  <1>2. s + 5 <= 32 + m /\ m \in 0 .. 32
    OBVIOUS
  <1>3. Bears(lo, a, 32) /\ Len(lo) = 32
    BY <1>1, HeaderHas
  <1> DEFINE v == w + 1
             b == 32 * v
  <1>4. Bears(hi, b, m) /\ Len(hi) = 32
    <2>0. v \in Nat /\ hi = HeaderWord(6, v) /\ m = IF v < 6 THEN 32 ELSE 0
      BY <1>1
    <2> HIDE DEF v
    <2>1. Len(hi) = 32 /\ (v < 6 => Bears(hi, b, 32)) /\ Bears(hi, b, 0)
      BY <2>0, HeaderHas
    <2> QED BY <2>0, <2>1
  <1>5. b = a + 32
    BY <1>1
  <1>6. ShuffledField5(bit) = Lowest(Funnel(lo, hi, s), 5)
    BY DEF ShuffledField5
  <1> HIDE DEF lo, hi, a, s, m, b, w
  <1>7. Lowest(Funnel(lo, hi, s), 5) = Run(a + s, 5)
    <2>1. Bears(hi, a + 32, m)
      BY <1>4, <1>5
    <2> QED BY <1>1, <1>2, <1>3, <1>4, <2>1, FiveInWords
  <1>8. Field5(bit) = Run(32 + bit, 5)
    <2>1. Lowest(Shr(Bytes(4 + bit \div 8, 2), bit % 8), 5) = Run(8 * 4 + bit, 5)
      BY FiveInBytes
    <2> QED BY <2>1 DEF Field5
  <1> QED BY <1>1, <1>6, <1>7, <1>8

(* The bits of a block.                                                     *)

\* The bits of a value.
BitsOf(x) == {x[j] : j \in DOMAIN x}

\* Those of the qth of a row of fields of w bits.
Stretch(c, w, q) == c + w * q .. c + w * q + w - 1

\* The bits of a run are an interval.
LEMMA BitsOfRun ==
  ASSUME NEW a \in Int, NEW n \in Nat
  PROVE  BitsOf(Run(a, n)) = a .. a + n - 1
  <1>1. DOMAIN Run(a, n) = 1 .. n /\ \A j \in 1 .. n : Run(a, n)[j] = a + j - 1
    BY DEF Run
  <1> DEFINE x == Run(a, n)
  <1> HIDE DEF x
  <1>2. ASSUME NEW e \in a .. a + n - 1 PROVE e \in BitsOf(x)
    <2> DEFINE j == e - a + 1
    <2>1. j \in 1 .. n /\ a + j - 1 = e
      OBVIOUS
    <2> HIDE DEF j
    <2>2. x[j] = e /\ j \in DOMAIN x
      BY <1>1, <2>1 DEF x
    <2> QED BY <2>2 DEF BitsOf
  <1>3. ASSUME NEW e \in BitsOf(x) PROVE e \in a .. a + n - 1
    <2>1. PICK j \in DOMAIN x : e = x[j]
      BY DEF BitsOf
    <2>2. j \in 1 .. n /\ e = a + j - 1
      BY <1>1, <2>1 DEF x
    <2> QED BY <2>2
  <1> DEFINE all == a .. a + n - 1
  <1> HIDE DEF all
  <1>4. \A e : e \in BitsOf(x) <=> e \in all
    BY <1>2, <1>3 DEF all
  <1>5. BitsOf(x) = all
    BY <1>4
  <1> QED BY <1>5 DEF x, all

\* Fields one after the other fill an interval.
LEMMA Stretches ==
  ASSUME NEW c \in Int, NEW w \in Nat \ {0}, NEW n \in Nat
  PROVE  UNION {Stretch(c, w, q) : q \in 0 .. n - 1} = c .. c + n * w - 1
  <1> DEFINE l == n * w
             all == c .. c + l - 1
             parts == {Stretch(c, w, q) : q \in 0 .. n - 1}
  <1>0. l \in Nat /\ w \in Nat /\ \A a \in Nat, b \in Nat : a * b \in Nat /\ a * b = b * a
    <2>1. \A a \in Nat, b \in Nat : a * b \in Nat /\ a * b = b * a
      OBVIOUS
    <2> QED BY <2>1
  <1>1. ASSUME NEW q \in 0 .. n - 1, NEW e \in Stretch(c, w, q) PROVE e \in all
    <2> DEFINE j == e - c - w * q
               x == w * q
    <2>1. x \in Nat
      BY <1>0
    <2>2. e \in c + x .. c + x + w - 1
      BY DEF Stretch
    <2> HIDE DEF x
    <2>3. e \in Int /\ e - c - x \in 0 .. w - 1 /\ e = c + x + (e - c - x)
      BY <1>0, <2>1, <2>2
    <2>4. j = e - c - x
      BY DEF x
    <2> HIDE DEF j
    <2>5. q * w + j \in 0 .. n * w - 1
      BY <2>3, <2>4, PlaceOf
    <2>6. q * w = x
      BY <1>0 DEF x
    <2>7. x + j \in 0 .. l - 1
      BY <2>5, <2>6
    <2> HIDE DEF l
    <2> QED BY <1>0, <2>1, <2>3, <2>4, <2>7
  <1>2. ASSUME NEW e \in all PROVE \E q \in 0 .. n - 1 : e \in Stretch(c, w, q)
    <2> DEFINE k == e - c
               q == k \div w
               j == k % w
               x == w * q
    <2>1. k \in 0 .. n * w - 1
      <3> HIDE DEF l
      <3>1. e - c \in 0 .. l - 1
        BY <1>0
      <3> QED BY <3>1 DEF l
    <2>2. e \in Int /\ e = c + k /\ k \in Int
      <3> HIDE DEF l
      <3>1. e \in Int
        BY <1>0
      <3> QED BY <3>1
    <2> HIDE DEF k
    <2>3. j \in 0 .. w - 1 /\ q \in 0 .. n - 1 /\ k = q * w + j /\ q \in Nat /\ j \in Nat
      BY <2>1, Placed
    <2>4. q * w = x /\ x \in Nat
      BY <1>0, <2>3
    <2> HIDE DEF q, j
    <2>5. k = x + j
      BY <2>3, <2>4
    <2> HIDE DEF x
    <2>6. e \in c + x .. c + x + w - 1
      BY <1>0, <2>2, <2>3, <2>4, <2>5
    <2>7. e \in Stretch(c, w, q)
      BY <2>6 DEF Stretch, x
    <2> QED BY <2>3, <2>7
  <1> HIDE DEF all
  <1>3. \A e : e \in UNION parts <=> e \in all
    <2>1. \A e : e \in UNION parts <=> \E q \in 0 .. n - 1 : e \in Stretch(c, w, q)
      OBVIOUS
    <2> HIDE DEF parts
    <2> QED BY <1>1, <1>2, <2>1
  <1>4. UNION parts = all
    BY <1>3
  <1> QED BY <1>4 DEF all

\* The factors of a block.
LEMMA FactorsAre ==
  ASSUME NEW x, NEW s, NEW m, NEW c
  PROVE  /\ x = <<Run(0, 16)>> => BaseBits(Weight(x, s, m, c)) = 0 .. 15
         /\ x = <<Run(0, 16), Run(16, 16)>> => BaseBits(Weight(x, s, m, c)) = 0 .. 31
         /\ x = <<Run(0, 16), Run(16, 16), Run(32, 16)>> => BaseBits(Weight(x, s, m, c)) = 0 .. 47
         /\ Bits(Weight(x, s, m, c)) = BitsOf(c)
         /\ GroupBits(Weight(x, s, m, c)) = BitsOf(s) \cup BitsOf(m)
  <1>1. BaseBits(Weight(x, s, m, c)) = UNION {BitsOf(b) : b \in BitsOf(x)}
    BY DEF BaseBits, Weight, BitsOf
  <1>2. BitsOf(Run(0, 16)) = 0 .. 15 /\ BitsOf(Run(16, 16)) = 16 .. 31 /\ BitsOf(Run(32, 16)) = 32 .. 47
    <2> DEFINE n == 16
               z == 0
    <2>0. n \in Nat /\ n \in Int /\ z \in Int /\ z + n - 1 = 15 /\ n + n - 1 = 31
      OBVIOUS
    <2>4. 2 * n = 32 /\ 2 * n \in Int /\ 2 * n + n - 1 = 47
      OBVIOUS
    <2> DEFINE t == 2 * n
    <2> HIDE DEF n, z
    <2>5. t \in Int
      BY <2>4
    <2> HIDE DEF t
    <2>1. BitsOf(Run(z, n)) = z .. z + n - 1
      BY <2>0, BitsOfRun
    <2>2. BitsOf(Run(n, n)) = n .. n + n - 1
      BY <2>0, BitsOfRun
    <2>3. BitsOf(Run(t, n)) = t .. t + n - 1
      BY <2>0, <2>5, BitsOfRun
    <2> QED BY <2>1, <2>2, <2>3 DEF n, z, t
  <1> DEFINE p == Run(0, 16)
             q == Run(16, 16)
             r == Run(32, 16)
  <1> HIDE DEF p, q, r
  <1>3. ASSUME x = <<p>> PROVE BaseBits(Weight(x, s, m, c)) = 0 .. 15
    <2>1. BitsOf(x) = {p}
      BY <1>3 DEF BitsOf
    <2>2. UNION {BitsOf(b) : b \in BitsOf(x)} = BitsOf(p)
      BY <2>1
    <2> QED BY <1>1, <1>2, <2>2 DEF p
  <1>4. ASSUME x = <<p, q>> PROVE BaseBits(Weight(x, s, m, c)) = 0 .. 31
    <2>1. BitsOf(x) = {p, q}
      BY <1>4 DEF BitsOf
    <2>2. UNION {BitsOf(b) : b \in BitsOf(x)} = BitsOf(p) \cup BitsOf(q)
      BY <2>1
    <2>3. (0 .. 15) \cup (16 .. 31) = 0 .. 31
      OBVIOUS
    <2> QED BY <1>1, <1>2, <2>2, <2>3 DEF p, q
  <1>5. ASSUME x = <<p, q, r>> PROVE BaseBits(Weight(x, s, m, c)) = 0 .. 47
    <2>1. BitsOf(x) = {p, q, r}
      BY <1>5 DEF BitsOf
    <2>2. UNION {BitsOf(b) : b \in BitsOf(x)} = BitsOf(p) \cup BitsOf(q) \cup BitsOf(r)
      BY <2>1
    <2>3. ((0 .. 15) \cup (16 .. 31)) \cup (32 .. 47) = 0 .. 47
      OBVIOUS
    <2> QED BY <1>1, <1>2, <2>2, <2>3 DEF p, q, r
  <1>6. Bits(Weight(x, s, m, c)) = BitsOf(c) /\ GroupBits(Weight(x, s, m, c)) = BitsOf(s) \cup BitsOf(m)
    BY DEF Bits, GroupBits, Weight, BitsOf
  <1> QED BY <1>3, <1>4, <1>5, <1>6 DEF p, q, r

\* The first weight of a group.
FirstOf(k, G) == (k \div G) * G

\* All the readers see the weights V, and those of a group the same scale.
SeenAs(views, V, G, nb) ==
  \A k \in 0 .. 255 :
    /\ views[k] = {V[k]} /\ BaseBits(V[k]) = 0 .. nb - 1
    /\ GroupBits(V[k]) = GroupBits(V[FirstOf(k, G)]) /\ FirstOf(k, G) \in 0 .. 255

AllCodes(V) == UNION {Bits(V[k]) : k \in 0 .. 255}
AllScales(V) == UNION {GroupBits(V[k]) : k \in 0 .. 255}

TheyAreApart(codes, scales, base, n, m, inside) ==
  /\ Cardinality(codes) = n /\ Cardinality(scales) = m
  /\ codes \cup scales \cup base \subseteq inside
  /\ codes \cap scales = {} /\ codes \cap base = {} /\ scales \cap base = {}

\* Intervals one after the other do not meet.
LEMMA SpacesApart ==
  ASSUME NEW nb \in Nat, NEW s \in Nat, NEW m \in Nat, NEW c \in Nat, NEW n \in Nat, NEW z \in Nat,
         nb <= s, s + m <= c, c + n <= z
  PROVE  TheyAreApart(c .. c + n - 1, s .. s + m - 1, 0 .. nb - 1, n, m, 0 .. z - 1)
  <1> DEFINE codes == c .. c + n - 1
             scales == s .. s + m - 1
             base == 0 .. nb - 1
  <1>1. Cardinality(codes) = n
    <2> DEFINE e == c + n - 1
    <2>1. e \in Int /\ c \in Int /\ e - c + 1 = n /\ (c > e => n = 0)
      OBVIOUS
    <2>2. codes = c .. e
      OBVIOUS
    <2> HIDE DEF e
    <2>3. Cardinality(c .. e) = IF c > e THEN 0 ELSE e - c + 1
      BY <2>1, FS_Interval
    <2> QED BY <2>1, <2>2, <2>3
  <1>2. Cardinality(scales) = m
    <2> DEFINE e == s + m - 1
    <2>1. e \in Int /\ s \in Int /\ e - s + 1 = m /\ (s > e => m = 0)
      OBVIOUS
    <2>2. scales = s .. e
      OBVIOUS
    <2> HIDE DEF e
    <2>3. Cardinality(s .. e) = IF s > e THEN 0 ELSE e - s + 1
      BY <2>1, FS_Interval
    <2> QED BY <2>1, <2>2, <2>3
  <1>3. \A x \in codes : x >= c /\ x \in 0 .. z - 1
    OBVIOUS
  <1>4. \A x \in scales : x >= s /\ x < c /\ x \in 0 .. z - 1
    OBVIOUS
  <1>5. \A x \in base : x < s /\ x < c /\ x \in 0 .. z - 1
    OBVIOUS
  <1>6. codes \cup scales \cup base \subseteq 0 .. z - 1
    BY <1>3, <1>4, <1>5
  <1>7. \A x \in codes : x \notin scales /\ x \notin base
    BY <1>3, <1>4, <1>5
  <1>8. \A x \in scales : x \notin base
    BY <1>4, <1>5
  <1> DEFINE inside == 0 .. z - 1
  <1> HIDE DEF codes, scales, base, inside
  <1>9. codes \cup scales \cup base \subseteq inside
    BY <1>6 DEF inside
  <1>10. TheyAreApart(codes, scales, base, n, m, inside)
    BY <1>1, <1>2, <1>7, <1>8, <1>9 DEF TheyAreApart
  <1> QED BY <1>10 DEF codes, scales, base, inside

GroupsTimes(G, c) == (256 \div G) * c

\* The scales are the m bits from s on, the codes the n from c on, and a block
\* has z bits.
Fits(format, V, G, nb, s, m, c, n, z) ==
  /\ Blocks[format][2] = G /\ 8 * Blocks[format][1] = z /\ 256 * Blocks[format][3] = n
  /\ AllCodes(V) = c .. c + n - 1 /\ AllScales(V) = s .. s + m - 1
  /\ GroupsTimes(G, Cardinality(GroupBits(V[0]))) = m
  /\ nb <= s /\ s + m <= c /\ c + n <= z

\* When all the readers see one weight, and its fields are apart.
LEMMA AgreeBy ==
  ASSUME NEW format, NEW views, NEW V, NEW nb \in Nat, NEW s \in Nat, NEW c \in Nat, NEW m \in Nat, NEW n \in Nat, NEW z \in Nat,
         NEW G, SeenAs(views, V, G, nb), Fits(format, V, G, nb, s, m, c, n, z)
  PROVE  ReadersAgree(format, views)
  <1>15. /\ Blocks[format][2] = G /\ 8 * Blocks[format][1] = z /\ 256 * Blocks[format][3] = n
         /\ AllCodes(V) = c .. c + n - 1 /\ AllScales(V) = s .. s + m - 1
         /\ (256 \div G) * Cardinality(GroupBits(V[0])) = m
         /\ nb <= s /\ s + m <= c /\ c + n <= z
    BY ONLY Fits(format, V, G, nb, s, m, c, n, z) DEF Fits, GroupsTimes
  <1> USE <1>15
  <1> DEFINE D == 0 .. 255
             one(k) == CHOOSE w \in views[k] : TRUE
             codes == UNION {Bits(one(k)) : k \in D}
             scales == UNION {GroupBits(one(k)) : k \in D}
             base == BaseBits(one(0))
             inside == 0 .. z - 1
  <1>0. \A k \in D : views[k] = {V[k]} /\ BaseBits(V[k]) = 0 .. nb - 1
                     /\ GroupBits(V[k]) = GroupBits(V[FirstOf(k, G)]) /\ FirstOf(k, G) \in D
    BY ONLY SeenAs(views, V, G, nb) DEF SeenAs
  <1>2. 0 \in D
    BY ONLY TRUE
  <1>6. ReadersAgree(format, views) =
          (/\ \A k \in D :
                /\ Cardinality(views[k]) = 1
                /\ GroupBits(one(k)) = GroupBits(one((k \div Blocks[format][2]) * Blocks[format][2]))
                /\ BaseBits(one(k)) = base
           /\ Cardinality(codes) = 256 * Blocks[format][3]
           /\ Cardinality(scales) = (256 \div Blocks[format][2]) * Cardinality(GroupBits(one(0)))
           /\ codes \cup scales \cup base \subseteq 0 .. 8 * Blocks[format][1] - 1
           /\ codes \cap scales = {} /\ codes \cap base = {} /\ scales \cap base = {})
    BY ONLY TRUE DEF ReadersAgree
  <1>4. codes = UNION {Bits(one(k)) : k \in D} /\ scales = UNION {GroupBits(one(k)) : k \in D} /\ base = BaseBits(one(0))
    BY ONLY TRUE
  <1>5. \A k : one(k) = CHOOSE w \in views[k] : TRUE
    BY ONLY TRUE
  <1>9. AllCodes(V) = UNION {Bits(V[k]) : k \in D} /\ AllScales(V) = UNION {GroupBits(V[k]) : k \in D}
    BY DEF AllCodes, AllScales
  <1> HIDE DEF one, codes, scales, base, inside, D
  <1>1. \A k \in D : one(k) = V[k] /\ Cardinality(views[k]) = 1
    <2> SUFFICES ASSUME NEW k \in D PROVE one(k) = V[k] /\ Cardinality(views[k]) = 1
      OBVIOUS
    <2>1. views[k] = {V[k]}
      BY ONLY <1>0, k \in D
    <2>2. Cardinality({V[k]}) = 1
      BY ONLY FS_Singleton
    <2>3. one(k) = V[k]
      BY ONLY <2>1, <1>5
    <2> QED BY ONLY <2>1, <2>2, <2>3
  <1>3. base = 0 .. nb - 1
    BY ONLY <1>0, <1>1, <1>2, <1>4
  <1>7. codes = c .. c + n - 1
    <2>1. {Bits(one(k)) : k \in D} = {Bits(V[k]) : k \in D}
      BY ONLY <1>1
    <2>2. codes = AllCodes(V)
      BY ONLY <1>4, <1>9, <2>1
    <2> QED BY <2>2
  <1>8. scales = s .. s + m - 1
    <2>1. {GroupBits(one(k)) : k \in D} = {GroupBits(V[k]) : k \in D}
      BY ONLY <1>1
    <2>2. scales = AllScales(V)
      BY ONLY <1>4, <1>9, <2>1
    <2> QED BY <2>2
  <1>10. /\ Cardinality(codes) = n /\ Cardinality(scales) = m
         /\ codes \cup scales \cup base \subseteq 0 .. z - 1
         /\ codes \cap scales = {} /\ codes \cap base = {} /\ scales \cap base = {}
    <2>1. TheyAreApart(c .. c + n - 1, s .. s + m - 1, 0 .. nb - 1, n, m, 0 .. z - 1)
      <3>1. nb \in Nat /\ s \in Nat /\ m \in Nat /\ c \in Nat /\ n \in Nat /\ z \in Nat
        OBVIOUS
      <3>2. nb <= s /\ s + m <= c /\ c + n <= z
        BY ONLY <1>15
      <3> QED BY ONLY <3>1, <3>2, SpacesApart
    <2>2. TheyAreApart(codes, scales, base, n, m, 0 .. z - 1)
      BY <1>3, <1>7, <1>8, <2>1
    <2> QED BY ONLY <2>2 DEF TheyAreApart
  <1>11. ASSUME NEW k \in D
         PROVE  /\ Cardinality(views[k]) = 1
                /\ GroupBits(one(k)) = GroupBits(one((k \div Blocks[format][2]) * Blocks[format][2]))
                /\ BaseBits(one(k)) = base
    <2>1. one(k) = V[k] /\ Cardinality(views[k]) = 1 /\ BaseBits(V[k]) = 0 .. nb - 1
      BY ONLY <1>0, <1>1, k \in D
    <2>2. GroupBits(V[k]) = GroupBits(V[FirstOf(k, G)]) /\ FirstOf(k, G) \in D
      BY ONLY <1>0, k \in D
    <2>3. one(FirstOf(k, G)) = V[FirstOf(k, G)]
      BY ONLY <1>1, <2>2
    <2>4. FirstOf(k, G) = (k \div Blocks[format][2]) * Blocks[format][2]
      BY DEF FirstOf
    <2> QED BY ONLY <1>3, <2>1, <2>2, <2>3, <2>4
  <1>12. (256 \div Blocks[format][2]) * Cardinality(GroupBits(one(0))) = m
    <2>1. one(0) = V[0]
      BY ONLY <1>1, <1>2
    <2> QED BY <2>1
  <1>13. 0 .. 8 * Blocks[format][1] - 1 = 0 .. z - 1
    OBVIOUS
  <1>14. Cardinality(codes) = 256 * Blocks[format][3]
    BY <1>10
  <1> QED BY ONLY <1>6, <1>10, <1>11, <1>12, <1>13, <1>14

(* What the readers of each format see.                                     *)

OneHalf == <<Run(0, 16)>>
TwoHalves == <<Run(0, 16), Run(16, 16)>>
ThreeHalves == <<Run(0, 16), Run(16, 16), Run(32, 16)>>

\* The lane of a weight and its place there.
LEMMA LaneOf ==
  ASSUME NEW k \in 0 .. 255
  PROVE  /\ k \div 8 \in 0 .. 31 /\ k % 8 \in 0 .. 7 /\ k = 8 * (k \div 8) + (k % 8)
         /\ k \div 8 \in Nat /\ k % 8 \in Nat /\ Flip(k) = 8 * (k \div 8) + Flip(k % 8) /\ Flip(k) \in 0 .. 255 /\ Flip(Flip(k)) = k
  <1> DEFINE l == k \div 8
             i == k % 8
  <1>1. l \in 0 .. 31 /\ i \in 0 .. 7 /\ k = 8 * l + i
    OBVIOUS
  <1>2. Flip(k) = 8 * l + Flip(i)
    <2>1. k % 2 = i % 2
      OBVIOUS
    <2> HIDE DEF l, i
    <2> QED BY <1>1, <2>1 DEF Flip
  <1>3. Flip(k) \in 0 .. 255 /\ Flip(Flip(k)) = k
    BY DEF Flip
  <1> QED BY <1>1, <1>2, <1>3

\* The factors of a block, by halves or by words.
LEMMA HeaderHalves ==
  /\ Half(0) = Run(0, 16) /\ Half(2) = Run(16, 16) /\ Half(4) = Run(32, 16)
  /\ Lowest(Word(0), 16) = Run(0, 16) /\ Lowest(Shr(Word(0), 16), 16) = Run(16, 16) /\ Lowest(Word(1), 16) = Run(32, 16)
  /\ HeaderWord(6, 0) = Word(0) /\ HeaderWord(3, 0) = Word(0)
  <1> DEFINE z == 0
             o == 1
             n == 16
             m == 32
  <1>1. z \in Nat /\ o \in Nat /\ n \in Nat /\ m \in Nat /\ z \in Int /\ m \in Int /\ n <= m /\ n + n <= m
        /\ 32 * z = z /\ 32 * o = m /\ z + n = n /\ 8 * z = z /\ 8 * 2 = n /\ 8 * 4 = m /\ 2 \in Nat /\ 4 \in Nat
    OBVIOUS
  <1>2. Half(z) = Run(z, 16) /\ Half(2) = Run(n, 16) /\ Half(4) = Run(m, 16)
    <2>1. Half(z) = Run(8 * z, 16)
      BY HalfIs
    <2>2. \A b \in Nat : Half(b) = Run(8 * b, 16)
      BY HalfIs
    <2> QED BY <1>1, <2>2
  <1>3. Bears(Word(z), z, m) /\ Bears(Word(o), m, m)
    <2>1. \A w \in Nat : Bears(Word(w), 32 * w, 32)
      BY WordIs
    <2> QED BY <1>1, <2>1
  <1> HIDE DEF z, o, n, m
  <1>4. Lowest(Word(z), n) = Run(z, n) /\ Lowest(Word(o), n) = Run(m, n)
    BY <1>1, <1>3, LowestIs
  <1>5. Lowest(Shr(Word(z), n), n) = Run(z + n, n)
    BY <1>1, <1>3, FieldIs
  <1>6. HeaderWord(6, 0) = Word(0) /\ HeaderWord(3, 0) = Word(0)
    BY DEF HeaderWord
  <1> QED BY <1>1, <1>2, <1>4, <1>5, <1>6 DEF z, o, n, m

\* The scale and the minimum of a compact group, read in either way.
CompactScale(k) == Run(64 + 4 * Flip(k \div 8), 4)
CompactMin(k) == Run(192 + 4 * Flip(k \div 8), 4)
CompactView(k, c) == Weight(ThreeHalves, CompactScale(k), CompactMin(k), c)

\* The header of the compact formats, read in either way.
LEMMA CompactIs ==
  ASSUME NEW k \in 0 .. 255, NEW c
  PROVE  Decoded(CompactLane(k \div 8), c) = CompactView(k, c) /\ Decoded(CompactGroup(k \div 8), c) = CompactView(k, c)
  <1> DEFINE g == k \div 8
  <1>1. g \in 0 .. 31 /\ g \in Nat
    BY LaneOf
  <1> HIDE DEF g
  <1> DEFINE h == g \div 2
             even == g % 2 = 0
             a == 8 + h
             b == 24 + h
  <1>2. a \in Nat /\ b \in Nat /\ even \in BOOLEAN /\ (g % 2 # 1) = even
    BY <1>1
  <1>3. 8 * a + (IF even THEN 4 ELSE 0) = 64 + 4 * Flip(g) /\ 8 * b + (IF even THEN 4 ELSE 0) = 192 + 4 * Flip(g)
    BY <1>1 DEF Flip
  <1>4. Nibble(a, even) = Run(64 + 4 * Flip(g), 4) /\ Nibble(b, even) = Run(192 + 4 * Flip(g), 4)
    <2> HIDE DEF a, b, even
    <2>1. Nibble(a, even) = Run(8 * a + (IF even THEN 4 ELSE 0), 4)
      BY <1>2, NibbleIs
    <2>2. Nibble(b, even) = Run(8 * b + (IF even THEN 4 ELSE 0), 4)
      BY <1>2, NibbleIs
    <2> QED BY <1>3, <2>1, <2>2
  <1>5. CompactGroup(g) = [base |-> ThreeHalves, scale |-> Run(64 + 4 * Flip(g), 4), min |-> Run(192 + 4 * Flip(g), 4)]
    BY <1>4, HeaderHalves DEF CompactGroup, ThreeHalves
  <1>6. CompactLane(g) = [base |-> ThreeHalves, scale |-> Run(64 + 4 * Flip(g), 4), min |-> Run(192 + 4 * Flip(g), 4)]
    BY <1>2, <1>4, HeaderHalves DEF CompactLane, ThreeHalves
  <1> QED BY <1>5, <1>6 DEF Decoded, CompactView, CompactScale, CompactMin, g

\* The codes of a lane: three, five or six bits one after the other, or halves of a byte.
CodesAt(h, k) ==
  /\ CodeOf(Bytes(h + 3 * (k \div 8), 3), 3, k % 8) = Run(8 * h + 3 * k, 3)
  /\ CodeOf(Bytes(h + 5 * (k \div 8), 5), 5, k % 8) = Run(8 * h + 5 * k, 5)
  /\ CodeOf(Bytes(h + 6 * (k \div 8), 6), 6, k % 8) = Run(8 * h + 6 * k, 6)
  /\ NibbleOf(Bytes(h + 4 * (k \div 8), 4), k % 8) = Run(8 * h + 4 * Flip(k), 4)
  /\ LowFirst(Bytes(h + 4 * (k \div 8), 4), k % 8) = Run(8 * h + 4 * k, 4)
  /\ FiveBits(h + 5 * (k \div 8), k % 8) = Run(8 * h + 5 * k, 5)

\* The codes that the readers take from the lanes of a block.
LEMMA CodesIs ==
  ASSUME NEW h \in Nat, NEW k \in 0 .. 255
  PROVE  CodesAt(h, k)
  <1> DEFINE l == k \div 8
             i == k % 8
  <1>1. l \in Nat /\ i \in 0 .. 7 /\ k = 8 * l + i /\ i \in Nat /\ Flip(k) = 8 * l + Flip(i)
    BY LaneOf
  <1> HIDE DEF l, i
  <1>2. ASSUME NEW w \in {3, 5, 6} PROVE CodeOf(Bytes(h + w * l, w), w, i) = Run(8 * h + w * k, w)
    <2> DEFINE b == h + w * l
               a == 8 * b
               n == 8 * w
               p == i * w
    <2>1. b \in Nat /\ w \in Nat /\ a \in Int /\ n \in Nat /\ p \in Nat /\ p + w <= n /\ a + p = 8 * h + w * k
      <3>1. CASE w = 3
        BY <1>1, <3>1
      <3>2. CASE w = 5
        BY <1>1, <3>2
      <3>3. CASE w = 6
        BY <1>1, <3>3
      <3> QED BY <3>1, <3>2, <3>3
    <2>2. p = i * w
      OBVIOUS
    <2> HIDE DEF b
    <2>3. Bears(Bytes(b, w), 8 * b, 8 * w)
      BY <2>1, BytesBear
    <2> DEFINE x == Bytes(b, w)
    <2>4. Bears(x, a, n)
      BY <2>3
    <2> HIDE DEF x, a, n, p
    <2>5. CodeOf(x, w, i) = Run(a + p, w)
      BY <1>1, <2>1, <2>2, <2>4, CodeOfIs
    <2> QED BY <2>1, <2>5 DEF x, b
  <1>3. /\ NibbleOf(Bytes(h + 4 * l, 4), i) = Run(8 * h + 4 * Flip(k), 4)
        /\ LowFirst(Bytes(h + 4 * l, 4), i) = Run(8 * h + 4 * k, 4)
    <2> DEFINE b == h + 4 * l
               x == Bytes(b, 4)
               a == 8 * b
    <2>1. b \in Nat /\ a \in Int
      BY <1>1
    <2> HIDE DEF b
    <2>2. Bears(x, a, 32)
      <3>1. Bears(Bytes(b, 4), 8 * b, 8 * 4)
        BY <2>1, BytesBear
      <3> QED BY <3>1
    <2> HIDE DEF x, a
    <2>3. NibbleOf(x, i) = Run(a + 4 * Flip(i), 4) /\ LowFirst(x, i) = Run(a + 4 * i, 4)
      BY <1>1, <2>1, <2>2, NibbleOfIs
    <2>4. a + 4 * i = 8 * h + 4 * k
      BY <1>1 DEF a, b
    <2>5. a + 4 * Flip(i) = 8 * h + 4 * Flip(k)
      <3>1. Flip(i) \in Int
        BY <1>1 DEF Flip
      <3> QED BY <1>1, <3>1 DEF a, b
    <2>6. NibbleOf(x, i) = Run(8 * h + 4 * Flip(k), 4) /\ LowFirst(x, i) = Run(8 * h + 4 * k, 4)
      BY ONLY <2>3, <2>4, <2>5
    <2> QED BY <2>6 DEF x, b
  <1>4. FiveBits(h + 5 * l, i) = Run(8 * h + 5 * k, 5)
    <2> DEFINE b == h + 5 * l
    <2>1. b \in Nat /\ 8 * b + 5 * i = 8 * h + 5 * k
      BY <1>1
    <2> HIDE DEF b
    <2>2. FiveBits(b, i) = Run(8 * b + 5 * i, 5)
      BY <1>1, <2>1, FiveBitsIs
    <2>3. FiveBits(b, i) = Run(8 * h + 5 * k, 5)
      BY ONLY <2>1, <2>2
    <2> QED BY <2>3 DEF b
  <1>5. CodeOf(Bytes(h + 3 * l, 3), 3, i) = Run(8 * h + 3 * k, 3)
    BY <1>2
  <1>6. CodeOf(Bytes(h + 5 * l, 5), 5, i) = Run(8 * h + 5 * k, 5)
    BY <1>2
  <1>7. CodeOf(Bytes(h + 6 * l, 6), 6, i) = Run(8 * h + 6 * k, 6)
    BY <1>2
  <1> QED BY <1>3, <1>4, <1>5, <1>6, <1>7 DEF CodesAt, l, i

Seen31(k) == CompactView(k, Run(320 + 3 * k, 3))
Seen41(k) == CompactView(k, Run(320 + 4 * Flip(k), 4))
Seen51(k) == CompactView(k, Run(320 + 5 * k, 5))
Seen62(k) == Weight(ThreeHalves, Run(64 + 8 * (k \div 8), 8), Run(320 + 8 * (k \div 8), 8), Run(576 + 6 * k, 6))

\* All the readers of a compact format see the same weights.
LEMMA CompactSeen ==
  ASSUME NEW k \in 0 .. 255
  PROVE  /\ Readers("hq31k", k) = {Seen31(k)} /\ Readers("hq41k", k) = {Seen41(k)}
         /\ Readers("hq51k", k) = {Seen51(k)} /\ Readers("hq62k", k) = {Seen62(k)}
  <1> DEFINE l == k \div 8
             i == k % 8
             h == 40
  <1>0. l \in Nat /\ i \in Nat /\ k % 256 = k /\ h \in Nat /\ 8 * h = 320
    OBVIOUS
  <1>1. /\ CodeOf(Bytes(h + 3 * l, 3), 3, i) = Run(8 * h + 3 * k, 3)
        /\ CodeOf(Bytes(h + 5 * l, 5), 5, i) = Run(8 * h + 5 * k, 5)
        /\ NibbleOf(Bytes(h + 4 * l, 4), i) = Run(8 * h + 4 * Flip(k), 4)
        /\ FiveBits(h + 5 * l, i) = Run(8 * h + 5 * k, 5)
    <2> HIDE DEF h
    <2>1. CodesAt(h, k)
      BY <1>0, CodesIs
    <2> QED BY ONLY <2>1 DEF CodesAt
  <1>2. Word(10 + l) = Bytes(h + 4 * l, 4)
    <2>1. 4 * (10 + l) = h + 4 * l
      BY <1>0
    <2> HIDE DEF h, l
    <2> QED BY <2>1 DEF Word
  <1>3. \A c : Decoded(CompactLane(l), c) = CompactView(k, c) /\ Decoded(CompactGroup(l), c) = CompactView(k, c)
    BY CompactIs
  <1> HIDE DEF l, i, h
  <1>4. Hq31kProduct(k) = Seen31(k)
    <2>1. Hq31kProduct(k) = Decoded(CompactLane(l), CodeOf(Bytes(h + 3 * l, 3), 3, i))
      BY DEF Hq31kProduct, l, i, h
    <2> QED BY <1>0, <1>1, <1>3, <2>1 DEF Seen31
  <1>5. Hq41kProduct(k) = Seen41(k) /\ Hq41kDequant(k) = Seen41(k)
    <2>1. Hq41kProduct(k) = Decoded(CompactLane(l), NibbleOf(Word(10 + l), i))
      BY DEF Hq41kProduct, l, i
    <2>2. Hq41kDequant(k) = Decoded(CompactGroup(l), NibbleOf(Bytes(h + 4 * l, 4), i))
      BY DEF Hq41kDequant, l, i, h
    <2>3. Hq41kProduct(k) = CompactView(k, Run(8 * h + 4 * Flip(k), 4))
      BY ONLY <1>1, <1>2, <1>3, <2>1
    <2>4. Hq41kDequant(k) = CompactView(k, Run(8 * h + 4 * Flip(k), 4))
      BY ONLY <1>1, <1>3, <2>2
    <2> QED BY <1>0, <2>3, <2>4 DEF Seen41
  <1>6. Hq51kProduct(k) = Seen51(k) /\ Hq51kDequant(k) = Seen51(k) /\ Hq51kRow(k) = Seen51(k)
    <2>1. Hq51kProduct(k) = Decoded(CompactLane(l), FiveBits(h + 5 * l, i))
      BY DEF Hq51kProduct, l, i, h
    <2>2. Hq51kDequant(k) = Decoded(CompactGroup(l), CodeOf(Bytes(h + 5 * l, 5), 5, i))
      BY DEF Hq51kDequant, l, i, h
    <2>3. Hq51kRow(k) = Decoded(CompactGroup(l), CodeOf(Bytes(h + 5 * l, 5), 5, i))
      BY <1>0 DEF Hq51kRow, l, i, h
    <2>4. Hq51kProduct(k) = CompactView(k, Run(8 * h + 5 * k, 5))
      BY ONLY <1>1, <1>3, <2>1
    <2>5. Hq51kDequant(k) = CompactView(k, Run(8 * h + 5 * k, 5)) /\ Hq51kRow(k) = CompactView(k, Run(8 * h + 5 * k, 5))
      BY ONLY <1>1, <1>3, <2>2, <2>3
    <2> QED BY <1>0, <2>4, <2>5 DEF Seen51
  <1>7. Hq62kRow(k) = Seen62(k)
    <2> DEFINE t == 72
    <2>1. t \in Nat /\ 8 * t = 576
      OBVIOUS
    <2> HIDE DEF t
    <2>2. CodeOf(Bytes(t + 6 * (k \div 8), 6), 6, k % 8) = Run(8 * t + 6 * k, 6)
      <3>1. CodesAt(t, k)
        BY <2>1, CodesIs
      <3> QED BY ONLY <3>1 DEF CodesAt
    <2>3. Bytes(8 + l, 1) = Run(64 + 8 * l, 8) /\ Bytes(40 + l, 1) = Run(320 + 8 * l, 8)
      <3>1. \A b \in Nat, n \in Nat : Bytes(b, n) = Run(8 * b, 8 * n)
        BY BytesBear
      <3>2. 8 + l \in Nat /\ 40 + l \in Nat /\ 8 * (8 + l) = 64 + 8 * l /\ 8 * (40 + l) = 320 + 8 * l /\ 1 \in Nat /\ 8 * 1 = 8
        BY <1>0
      <3> QED BY <3>1, <3>2
    <2>4. CodeOf(Bytes(72 + 6 * (k \div 8), 6), 6, k % 8) = Run(576 + 6 * k, 6)
      BY <2>1, <2>2 DEF t
    <2> QED BY <2>3, <2>4, HeaderHalves DEF Hq62kRow, Seen62, ThreeHalves, l
  <1> QED BY <1>4, <1>5, <1>6, <1>7 DEF Readers

SeenSymmetric(bits, k) ==
  Weight(OneHalf, Run(32 + 5 * (k \div 8), 5), <<>>, IF bits = 4 THEN Run(192 + 4 * Flip(k), 4) ELSE Run(192 + 5 * k, 5))

\* So do those of the symmetric formats.
LEMMA SymmetricSeen ==
  ASSUME NEW k \in 0 .. 255
  PROVE  /\ Readers("hq42k", k) = {SeenSymmetric(4, k)} /\ Readers("hq52k", k) = {SeenSymmetric(5, k)}
  <1> DEFINE l == k \div 8
             i == k % 8
             h == 24
             c == 192 + 4 * Flip(k)
             e == 192 + 5 * k
  <1>0. l \in 0 .. 31 /\ l \in Nat /\ i \in 0 .. 7 /\ i \in Nat /\ h \in Nat /\ 8 * h = 192
    OBVIOUS
  <1>1. /\ CodeOf(Bytes(h + 5 * l, 5), 5, i) = Run(e, 5)
        /\ NibbleOf(Bytes(h + 4 * l, 4), i) = Run(c, 4)
    <2> HIDE DEF h
    <2>1. /\ CodeOf(Bytes(h + 5 * l, 5), 5, i) = Run(8 * h + 5 * k, 5)
          /\ NibbleOf(Bytes(h + 4 * l, 4), i) = Run(8 * h + 4 * Flip(k), 4)
      <3>1. CodesAt(h, k)
        BY <1>0, CodesIs
      <3> QED BY ONLY <3>1 DEF CodesAt
    <2> QED BY <1>0, <2>1
  <1>2. Word(6 + l) = Bytes(h + 4 * l, 4)
    <2>1. 4 * (6 + l) = h + 4 * l
      BY <1>0
    <2> HIDE DEF h, l
    <2> QED BY <2>1 DEF Word
  <1>3. Nibble(24 + k \div 2, k % 2 = 0) = Run(c, 4)
    <2> DEFINE b == 24 + k \div 2
               even == k % 2 = 0
    <2>1. b \in Nat /\ even \in BOOLEAN
      OBVIOUS
    <2>2. 8 * b + (IF even THEN 4 ELSE 0) = c
      BY DEF Flip
    <2> HIDE DEF b, even, c
    <2>3. Nibble(b, even) = Run(8 * b + (IF even THEN 4 ELSE 0), 4)
      BY <2>1, NibbleIs
    <2>4. Nibble(b, even) = Run(c, 4)
      BY ONLY <2>2, <2>3
    <2> QED BY <2>4 DEF b, even
  <1>4. SymmetricStep(l) = Run(32 + 5 * l, 5) /\ RowwarpStep(l) = Run(32 + 5 * l, 5)
    <2> DEFINE p == l * 5
               w == 1 + p \div 32
               v == w + 1
               s == p % 32
    <2>1. p \in Nat /\ w \in Nat /\ s \in 0 .. 31 /\ s + 5 <= 32 + 32 /\ 32 * w + s = 32 + 5 * l /\ p = 5 * l
      BY <1>0
    <2>2. Lowest(Shr(Bytes(4 + p \div 8, 2), p % 8), 5) = Run(32 + p, 5)
      <3> HIDE DEF p
      <3> DEFINE four == 4
      <3>1. four \in Nat /\ 8 * four = 32
        OBVIOUS
      <3> HIDE DEF four
      <3>2. Lowest(Shr(Bytes(four + p \div 8, 2), p % 8), 5) = Run(8 * four + p, 5)
        BY <2>1, <3>1, FiveInBytes
      <3> QED BY <3>1, <3>2 DEF four
    <2>3. SymmetricStep(l) = Run(32 + 5 * l, 5)
      <3>1. SymmetricStep(l) = Run(32 + p, 5)
        BY <2>2 DEF SymmetricStep
      <3> QED BY <2>1, <3>1
    <2>4. RowwarpStep(l) = Lowest(Funnel(Word(w), Word(v), s), 5)
      <3>1. v = 2 + p \div 32
        BY <2>1
      <3> QED BY <3>1 DEF RowwarpStep
    <2> DEFINE a == 32 * w
               m == 32
               b == 32 * v
    <2>5. Bears(Word(w), a, 32) /\ Len(Word(w)) = 32 /\ a \in Nat
      <3> HIDE DEF w
      <3> QED BY <2>1, WordIs
    <2>6. Bears(Word(v), b, 32) /\ Len(Word(v)) = 32 /\ b = a + 32
      <3>1. v \in Nat
        BY <2>1
      <3>2. b = a + 32
        BY <2>1
      <3> HIDE DEF v
      <3> QED BY <3>1, <3>2, WordIs
    <2> DEFINE lo == Word(w)
               hi == Word(v)
    <2>7. /\ Bears(lo, a, 32) /\ Len(lo) = 32 /\ Len(hi) = 32 /\ Bears(hi, a + 32, m) /\ a \in Int /\ m \in 0 .. 32
          /\ s \in 0 .. 31 /\ s + 5 <= 32 + m
      BY <2>1, <2>5, <2>6
    <2> HIDE DEF lo, hi, a, m, s
    <2>8. Lowest(Funnel(lo, hi, s), 5) = Run(a + s, 5)
      BY ONLY <2>7, FiveInWords
    <2>9. a + s = 32 + 5 * l
      BY <2>1 DEF a
    <2>10. RowwarpStep(l) = Run(a + s, 5)
      BY <2>4, <2>8 DEF lo, hi
    <2> QED BY <2>3, <2>9, <2>10
  <1>5. CodeOf(Shr(Word((h + 5 * l) \div 4) \o Word(((h + 5 * l) \div 4) + 1), 8 * ((h + 5 * l) % 4)), 5, i) = Run(e, 5)
    <2> DEFINE offset == h + 5 * l
               w == offset \div 4
               v == w + 1
               s == 8 * (offset % 4)
               a == 32 * w
               b == 32 * v
    <2>1. w \in Nat /\ s \in {0, 8, 16, 24} /\ a + s + 5 * i = e /\ a \in Nat /\ b = a + 32
      <3>1. k = 8 * l + i
        OBVIOUS
      <3> HIDE DEF l, i
      <3>2. w \in Nat /\ s \in {0, 8, 16, 24} /\ a + s = 8 * offset /\ a \in Nat /\ b = a + 32
        BY <1>0
      <3>3. 8 * offset + 5 * i = e
        BY <1>0, <3>1
      <3> QED BY <3>2, <3>3
    <2>2. Bears(Word(w), a, 32) /\ Len(Word(w)) = 32
      <3> HIDE DEF w
      <3> QED BY <2>1, WordIs
    <2>3. Bears(Word(v), b, 32) /\ Len(Word(v)) = 32
      <3>1. v \in Nat
        BY <2>1
      <3> HIDE DEF v
      <3> QED BY <3>1, WordIs
    <2> DEFINE lo == Word(w)
               hi == Word(v)
               n == 32
               x == lo \o hi
               y == Shr(x, s)
    <2>4. /\ a \in Int /\ n \in Nat /\ b \in Int /\ b = a + n /\ Len(lo) = n /\ Bears(lo, a, n) /\ Bears(hi, b, n)
          /\ n + n = 64
      BY <2>1, <2>2, <2>3
    <2> HIDE DEF lo, hi, n, a, b
    <2>5. Bears(x, a, n + n)
      BY ONLY <2>4, PairBears
    <2> DEFINE d == n + n
               at == a + s
    <2>6. Bears(x, a, d) /\ s \in Nat /\ d \in Nat /\ s <= d /\ a \in Int /\ d - s \in 40 .. 64 /\ at \in Int
      BY <2>1, <2>4, <2>5
    <2> HIDE DEF x, d, s
    <2>7. Bears(y, at, d - s)
      BY ONLY <2>6, ShiftBears
    <2> DEFINE rest == d - s
               p == i * 5
    <2>8. Bears(y, at, rest) /\ rest \in Nat /\ p \in Nat /\ p + 5 <= rest /\ p = i * 5 /\ p = 5 * i
      BY <1>0, <2>6, <2>7
    <2> HIDE DEF y, rest, at, p
    <2>9. CodeOf(y, 5, i) = Run(at + p, 5)
      <3> DEFINE five == 5
      <3>1. five \in Nat /\ p = i * five /\ p + five <= rest /\ at \in Int /\ rest \in Nat /\ p \in Nat /\ i \in Nat /\ Bears(y, at, rest)
        BY <1>0, <2>6, <2>8
      <3> HIDE DEF five
      <3>2. CodeOf(y, five, i) = Run(at + p, five)
        BY ONLY <3>1, CodeOfIs
      <3> QED BY <3>2 DEF five
    <2>10. at + p = e
      BY <2>1, <2>8 DEF at
    <2>11. y = Shr(Word(w) \o Word(v), s)
      BY DEF y, x, lo, hi
    <2> QED BY <2>9, <2>10, <2>11 DEF s
  <1>6. Half(0) = Run(0, 16) /\ Lowest(Word(0), 16) = Run(0, 16)
    BY HeaderHalves
  <1> HIDE DEF l, i, h, c, e
  <1>7. ASSUME NEW bits \in {4, 5}
        PROVE  /\ SymmetricProduct(bits, k) = SeenSymmetric(bits, k) /\ SymmetricRowwarp(bits, k) = SeenSymmetric(bits, k)
               /\ SymmetricDequant(bits, k) = SeenSymmetric(bits, k) /\ SymmetricRow(bits, k) = SeenSymmetric(bits, k)
    <2> DEFINE step == Run(32 + 5 * l, 5)
               code == IF bits = 4 THEN Run(c, 4) ELSE Run(e, 5)
    <2>1. SeenSymmetric(bits, k) = Weight(OneHalf, step, <<>>, code)
      BY DEF SeenSymmetric, c, e, l
    <2>2. SymmetricProduct(bits, k) =
            Weight(<<Half(0)>>, SymmetricStep(l), <<>>, IF bits = 4 THEN NibbleOf(Word(6 + l), i) ELSE CodeOf(Bytes(h + 5 * l, 5), 5, i))
      BY DEF SymmetricProduct, l, i, h
    <2>3. SymmetricDequant(bits, k) =
            Weight(<<Half(0)>>, SymmetricStep(l), <<>>,
                   IF bits = 4 THEN NibbleOf(Bytes(h + 4 * l, 4), i) ELSE CodeOf(Bytes(h + 5 * l, 5), 5, i))
      BY DEF SymmetricDequant, l, i, h
    <2>4. SymmetricRow(bits, k) =
            Weight(<<Half(0)>>, SymmetricStep(l), <<>>,
                   IF bits = 4 THEN Nibble(24 + k \div 2, k % 2 = 0) ELSE CodeOf(Bytes(h + 5 * l, 5), 5, i))
      BY DEF SymmetricRow, l, i, h
    <2>5. SymmetricRowwarp(bits, k) =
            Weight(<<Lowest(Word(0), 16)>>, RowwarpStep(l), <<>>,
                   IF bits = 4 THEN NibbleOf(Word(6 + l), i)
                   ELSE CodeOf(Shr(Word((h + 5 * l) \div 4) \o Word(((h + 5 * l) \div 4) + 1), 8 * ((h + 5 * l) % 4)), 5, i))
      BY DEF SymmetricRowwarp, l, i, h
    <2> HIDE DEF step, code
    <2>6. SymmetricProduct(bits, k) = Weight(OneHalf, step, <<>>, code)
      BY ONLY <1>1, <1>2, <1>4, <1>6, <2>2 DEF OneHalf, step, code
    <2>7. SymmetricDequant(bits, k) = Weight(OneHalf, step, <<>>, code)
      BY ONLY <1>1, <1>4, <1>6, <2>3 DEF OneHalf, step, code
    <2>8. SymmetricRow(bits, k) = Weight(OneHalf, step, <<>>, code)
      BY ONLY <1>1, <1>3, <1>4, <1>6, <2>4 DEF OneHalf, step, code
    <2>9. SymmetricRowwarp(bits, k) = Weight(OneHalf, step, <<>>, code)
      BY ONLY <1>1, <1>2, <1>4, <1>5, <1>6, <2>5 DEF OneHalf, step, code
    <2> QED BY <2>1, <2>6, <2>7, <2>8, <2>9
  <1> QED BY <1>7 DEF Readers

SeenV3(bits, group, k) ==
  Weight(OneHalf, Run(16 + 5 * (k \div group), 5), <<>>,
         Run(8 * V3Header(group) + bits * (IF bits = 4 THEN Flip(k) ELSE k), bits))

\* The step of a group.
LEMMA V3StepIs ==
  ASSUME NEW g \in Nat
  PROVE  V3Step(g) = Run(16 + 5 * g, 5)
  <1> DEFINE p == g * 5
             c == 2
  <1>1. p \in Nat /\ c \in Nat /\ 8 * c + p = 16 + 5 * g
    OBVIOUS
  <1>2. V3Step(g) = Lowest(Shr(Bytes(c + p \div 8, 2), p % 8), 5)
    BY DEF V3Step
  <1> HIDE DEF p, c
  <1>3. Lowest(Shr(Bytes(c + p \div 8, 2), p % 8), 5) = Run(8 * c + p, 5)
    BY <1>1, FiveInBytes
  <1> QED BY <1>1, <1>2, <1>3

\* A code that may end in the next byte.
LEMMA CodeInBytes ==
  ASSUME NEW h \in Nat, NEW p \in Nat, NEW bits \in {3, 5}
  PROVE  Lowest(Shr(IF (p % 8) + bits > 8 THEN Bytes(h + p \div 8, 2) ELSE Bytes(h + p \div 8, 1), p % 8), bits) = Run(8 * h + p, bits)
  <1> DEFINE b == h + p \div 8
             s == p % 8
             n == IF s + bits > 8 THEN 2 ELSE 1
             a == 8 * b
             m == 8 * n
             x == Bytes(b, n)
  <1>1. b \in Nat /\ s \in 0 .. 7 /\ s \in Nat /\ a + s = 8 * h + p /\ a \in Int /\ bits \in Nat
    OBVIOUS
  <1>2. n \in Nat /\ m \in Nat /\ s + bits <= m
    BY <1>1
  <1>3. (IF s + bits > 8 THEN Bytes(b, 2) ELSE Bytes(b, 1)) = x
    OBVIOUS
  <1> HIDE DEF b, n
  <1>4. Bears(x, a, m)
    BY <1>1, <1>2, BytesBear
  <1> HIDE DEF x, a, m, s
  <1>5. Lowest(Shr(x, s), bits) = Run(a + s, bits)
    BY ONLY <1>1, <1>2, <1>4, FieldIs
  <1>6. Lowest(Shr(IF s + bits > 8 THEN Bytes(b, 2) ELSE Bytes(b, 1), s), bits) = Run(8 * h + p, bits)
    BY ONLY <1>1, <1>3, <1>5
  <1> QED BY <1>6 DEF s, b

\* And those of x.3.
LEMMA V3Seen ==
  ASSUME NEW k \in 0 .. 255, NEW bits \in {3, 4, 5}, NEW group \in {16, 32}
  PROVE  V3Product(bits, group, k) = SeenV3(bits, group, k) /\ V3Decode(bits, group, k) = SeenV3(bits, group, k)
  <1> DEFINE l == k \div 8
             i == k % 8
             h == V3Header(group)
             g == k \div group
             c == 8 * h + bits * (IF bits = 4 THEN Flip(k) ELSE k)
             step == Run(16 + 5 * g, 5)
             seen == Weight(OneHalf, step, <<>>, Run(c, bits))
  <1>0. h \in Nat /\ g \in Nat /\ l \div (group \div 8) = g
    <2>1. CASE group = 16
      BY <2>1 DEF V3Header
    <2>2. CASE group = 32
      BY <2>2 DEF V3Header
    <2> QED BY <2>1, <2>2
  <1>1. SeenV3(bits, group, k) = seen
    BY DEF SeenV3
  <1> DEFINE offset == h + l * bits
  <1>2. V3Product(bits, group, k) =
          Weight(<<Half(0)>>, V3Step(l \div (group \div 8)), <<>>,
                 CASE bits = 4 -> NibbleOf(Bytes(offset, 4), i)
                   [] bits = 5 -> FiveBits(offset, i)
                   [] bits = 3 -> CodeOf(Bytes(offset, 3), 3, i))
    BY DEF V3Product
  <1> DEFINE p == k * bits
             value == IF (p % 8) + bits > 8 THEN Bytes(h + p \div 8, 2) ELSE Bytes(h + p \div 8, 1)
  <1>3. V3Decode(bits, group, k) =
          Weight(<<Half(0)>>, V3Step(g), <<>>, IF bits = 4 THEN Nibble(h + k \div 2, k % 2 = 0) ELSE Lowest(Shr(value, p % 8), bits))
    BY DEF V3Decode
  <1>4. V3Step(g) = step
    <2> HIDE DEF g
    <2> QED BY <1>0, V3StepIs
  <1>5. <<Half(0)>> = OneHalf
    BY HeaderHalves DEF OneHalf
  <1>6. CodesAt(h, k)
    <2> HIDE DEF h
    <2> QED BY <1>0, CodesIs
  <1>7. l * bits = bits * l
    <2>1. l \in Nat /\ bits \in Nat
      OBVIOUS
    <2> HIDE DEF l
    <2> QED BY <2>1
  <1> HIDE DEF h, g, step
  <1>8. CASE bits = 4
    <2>1. NibbleOf(Bytes(h + 4 * l, 4), i) = Run(8 * h + 4 * Flip(k), 4)
      BY ONLY <1>6 DEF CodesAt
    <2>2. c = 8 * h + 4 * Flip(k) /\ offset = h + 4 * l
      BY <1>7, <1>8
    <2>3. Nibble(h + k \div 2, k % 2 = 0) = Run(8 * h + 4 * Flip(k), 4)
      <3> DEFINE b == h + k \div 2
                 even == k % 2 = 0
                 d == 8 * h + 4 * Flip(k)
      <3>1. b \in Nat /\ even \in BOOLEAN
        BY <1>0
      <3>2. 8 * b + (IF even THEN 4 ELSE 0) = d
        BY <1>0 DEF Flip
      <3> HIDE DEF b, even, d
      <3>3. Nibble(b, even) = Run(8 * b + (IF even THEN 4 ELSE 0), 4)
        BY <3>1, NibbleIs
      <3>4. Nibble(b, even) = Run(d, 4)
        BY ONLY <3>2, <3>3
      <3> QED BY <3>4 DEF b, even, d
    <2> HIDE DEF c, offset, value, p, l, i
    <2>4. V3Product(bits, group, k) = Weight(<<Half(0)>>, V3Step(g), <<>>, NibbleOf(Bytes(offset, 4), i))
      BY <1>0, <1>2, <1>8 DEF l
    <2>5. V3Decode(bits, group, k) = Weight(<<Half(0)>>, V3Step(g), <<>>, Nibble(h + k \div 2, k % 2 = 0))
      BY ONLY <1>3, <1>8
    <2>6. NibbleOf(Bytes(offset, 4), i) = Run(c, 4)
      BY <2>1, <2>2 DEF l, i
    <2>7. Nibble(h + k \div 2, k % 2 = 0) = Run(c, 4)
      BY ONLY <2>2, <2>3
    <2> QED BY ONLY <1>1, <1>4, <1>5, <1>8, <2>4, <2>5, <2>6, <2>7
  <1>9. CASE bits = 5
    <2>1. FiveBits(h + 5 * l, i) = Run(8 * h + 5 * k, 5)
      BY ONLY <1>6 DEF CodesAt
    <2>2. c = 8 * h + 5 * k /\ offset = h + 5 * l /\ p \in Nat /\ 5 * k = p
      BY <1>7, <1>9
    <2>3. Lowest(Shr(value, p % 8), bits) = Run(8 * h + p, bits)
      <3> HIDE DEF p
      <3> QED BY <1>0, <1>9, <2>2, CodeInBytes
    <2> HIDE DEF c, offset, value, p, l, i
    <2>4. V3Product(bits, group, k) = Weight(<<Half(0)>>, V3Step(g), <<>>, FiveBits(offset, i))
      BY <1>0, <1>2, <1>9 DEF l
    <2>5. V3Decode(bits, group, k) = Weight(<<Half(0)>>, V3Step(g), <<>>, Lowest(Shr(value, p % 8), bits))
      <3>1. bits # 4
        BY <1>9
      <3> QED BY ONLY <1>3, <3>1
    <2>6. FiveBits(offset, i) = Run(c, 5)
      BY <2>1, <2>2 DEF l, i
    <2>7. Lowest(Shr(value, p % 8), bits) = Run(c, bits)
      BY ONLY <2>2, <2>3
    <2> QED BY ONLY <1>1, <1>4, <1>5, <1>9, <2>4, <2>5, <2>6, <2>7
  <1>10. CASE bits = 3
    <2>1. CodeOf(Bytes(h + 3 * l, 3), 3, i) = Run(8 * h + 3 * k, 3)
      BY ONLY <1>6 DEF CodesAt
    <2>2. c = 8 * h + 3 * k /\ offset = h + 3 * l /\ p \in Nat /\ 3 * k = p
      BY <1>7, <1>10
    <2>3. Lowest(Shr(value, p % 8), bits) = Run(8 * h + p, bits)
      <3> HIDE DEF p
      <3> QED BY <1>0, <1>10, <2>2, CodeInBytes
    <2> HIDE DEF c, offset, value, p, l, i
    <2>4. V3Product(bits, group, k) = Weight(<<Half(0)>>, V3Step(g), <<>>, CodeOf(Bytes(offset, 3), 3, i))
      BY <1>0, <1>2, <1>10 DEF l
    <2>5. V3Decode(bits, group, k) = Weight(<<Half(0)>>, V3Step(g), <<>>, Lowest(Shr(value, p % 8), bits))
      <3>1. bits # 4
        BY <1>10
      <3> QED BY ONLY <1>3, <3>1
    <2>6. CodeOf(Bytes(offset, 3), 3, i) = Run(c, 3)
      BY <2>1, <2>2 DEF l, i
    <2>7. Lowest(Shr(value, p % 8), bits) = Run(c, bits)
      BY ONLY <2>2, <2>3
    <2> QED BY ONLY <1>1, <1>4, <1>5, <1>10, <2>4, <2>5, <2>6, <2>7
  <1> QED BY <1>8, <1>9, <1>10

Seen44(k) == Weight(TwoHalves, Run(32 + 5 * (k \div 16), 5), Run(112 + 5 * (k \div 16), 5), Run(192 + 4 * k, 4))
Seen8(k) == Weight(OneHalf, Run(16 + 8 * (k \div 32), 8), <<>>, Run(128 + 8 * k, 8))

\* And those of hq44k.
LEMMA Hq44kSeen ==
  ASSUME NEW k \in 0 .. 255
  PROVE  Hq44kProduct(k) = Seen44(k) /\ Hq44kEight(k) = Seen44(k)
  <1> DEFINE g == (k \div 8) \div 2
             h == 24
             b == 32 + g * 5
             c == 112 + g * 5
             d == g * 5
             e == 80 + g * 5
             code == LowFirst(Bytes(24 + 4 * (k \div 8), 4), k % 8)
  <1>1. /\ g = k \div 16 /\ g \in 0 .. 15 /\ h \in Nat /\ 8 * h = 192 /\ b \in 0 .. 187 /\ c \in 0 .. 187 /\ d \in 0 .. 187 /\ e \in 0 .. 187
        /\ 32 + d = b /\ 32 + e = c /\ b = 32 + 5 * (k \div 16) /\ c = 112 + 5 * (k \div 16)
    OBVIOUS
  <1>2. code = Run(192 + 4 * k, 4)
    <2>1. code = LowFirst(Bytes(h + 4 * (k \div 8), 4), k % 8)
      OBVIOUS
    <2> HIDE DEF h, code
    <2>2. CodesAt(h, k)
      BY <1>1, CodesIs
    <2>3. LowFirst(Bytes(h + 4 * (k \div 8), 4), k % 8) = Run(8 * h + 4 * k, 4)
      BY ONLY <2>2 DEF CodesAt
    <2> QED BY <1>1, <2>1, <2>3
  <1>3. /\ Hq44kProduct(k) = Weight(<<Lowest(HeaderWord(6, 0), 16), Lowest(Shr(HeaderWord(6, 0), 16), 16)>>,
                                    ShuffledField5(b), ShuffledField5(c), code)
        /\ Hq44kEight(k) = Weight(<<Half(0), Half(2)>>, Field5(d), Field5(e), code)
    BY DEF Hq44kProduct, Hq44kEight
  <1> HIDE DEF b, c, d, e, code
  <1>4. ShuffledField5(b) = Run(b, 5) /\ ShuffledField5(c) = Run(c, 5) /\ Field5(d) = Run(32 + d, 5) /\ Field5(e) = Run(32 + e, 5)
    BY <1>1, ShuffledIs
  <1>5. <<Lowest(HeaderWord(6, 0), 16), Lowest(Shr(HeaderWord(6, 0), 16), 16)>> = TwoHalves /\ <<Half(0), Half(2)>> = TwoHalves
    BY HeaderHalves DEF TwoHalves
  <1>6. Seen44(k) = Weight(TwoHalves, Run(b, 5), Run(c, 5), Run(192 + 4 * k, 4))
    BY <1>1 DEF Seen44
  <1>7. Run(32 + d, 5) = Run(b, 5) /\ Run(32 + e, 5) = Run(c, 5)
    BY <1>1
  <1> QED BY ONLY <1>2, <1>3, <1>4, <1>5, <1>6, <1>7

\* A code of hq8k, taken from two words.
LEMMA Hq8kCodeIs ==
  ASSUME NEW k \in 0 .. 255
  PROVE  Hq8kCode(k) = Run(128 + 8 * k, 8)
  <1> DEFINE b == 16 + 8 * (k \div 8)
             words == Bytes(b, 8)
             a == 8 * b
             low == k % 8 < 4
             s == IF low THEN 0 ELSE 32
             word == IF low THEN Lowest(words, 32) ELSE Lowest(Shr(words, 32), 32)
             t == 8 * (k % 4)
             m == 32
             n == 64
  <1>1. /\ b \in Nat /\ a \in Int /\ a + 32 \in Int /\ t \in Nat /\ t + 8 <= m /\ n \in Nat /\ m \in Nat /\ m <= n /\ m + m <= n
        /\ s \in {0, 32} /\ a + s \in Int /\ (a + s) + t = 128 + 8 * k /\ 8 \in Nat
    OBVIOUS
  <1>2. Bears(words, a, n)
    <2> HIDE DEF b
    <2>1. Bears(Bytes(b, 8), 8 * b, 8 * 8)
      BY <1>1, BytesBear
    <2> QED BY <2>1
  <1>3. Hq8kCode(k) = Lowest(Shr(word, t), 8)
    BY DEF Hq8kCode
  <1>4. word = (IF low THEN Lowest(words, m) ELSE Lowest(Shr(words, m), m)) /\ (low => s = 0) /\ (~low => s = m)
    OBVIOUS
  <1> HIDE DEF b, words, a, low, word, t, m, n, s
  <1>5. Lowest(words, m) = Run(a, m)
    BY ONLY <1>1, <1>2, LowestIs
  <1>6. Lowest(Shr(words, m), m) = Run(a + m, m)
    BY ONLY <1>1, <1>2, FieldIs
  <1> DEFINE at == a + s
  <1>7. word = Run(at, m) /\ at \in Int
    <2>1. CASE low
      <3>1. at = a
        BY <1>1, <1>4, <2>1
      <3> HIDE DEF at
      <3> QED BY ONLY <1>1, <1>4, <1>5, <2>1, <3>1
    <2>2. CASE ~low
      <3>1. at = a + m /\ at \in Int
        BY <1>1, <1>4, <2>2
      <3> HIDE DEF at
      <3> QED BY ONLY <1>4, <1>6, <2>2, <3>1
    <2> QED BY <2>1, <2>2
  <1>8. Bears(word, at, m)
    <2> HIDE DEF at
    <2> QED BY <1>1, <1>7, RunBears
  <1>9. at + t = 128 + 8 * k
    BY <1>1
  <1> HIDE DEF at
  <1> DEFINE w == 8
  <1>10. w \in Nat /\ t + w <= m
    BY <1>1
  <1> HIDE DEF w
  <1>11. Lowest(Shr(word, t), w) = Run(at + t, w)
    BY ONLY <1>1, <1>7, <1>8, <1>10, FieldIs
  <1> QED BY <1>3, <1>9, <1>11 DEF w

\* And those of hq8k.
LEMMA Hq8kSeen ==
  ASSUME NEW k \in 0 .. 255
  PROVE  Hq8kProduct(k) = Seen8(k) /\ Hq8kDequant(k) = Seen8(k) /\ Hq8kRow(k) = Seen8(k)
  <1> DEFINE qbyte == 2 + (k \div 8) \div 4
             w == qbyte \div 4
             s == (qbyte % 4) * 8
             x == HeaderWord(3, w)
             a == 32 * w
             m == 32
             n == 8
             start == 16 + 8 * (k \div 32)
             three == 3
  <1>1. /\ w \in Nat /\ w < three /\ three \in Nat /\ s \in Nat /\ s + n <= m /\ a + s = start /\ a \in Int /\ m \in Nat /\ n \in Nat
        /\ 2 + k \div 32 \in Nat /\ 8 * (2 + k \div 32) = start /\ 16 + k \in Nat /\ 8 * (16 + k) = 128 + 8 * k
    OBVIOUS
  <1>2. Hq8kProduct(k) = Weight(<<Lowest(HeaderWord(3, 0), 16)>>, Lowest(Shr(x, s), 8), <<>>, Hq8kCode(k))
    BY DEF Hq8kProduct
  <1>3. Seen8(k) = Weight(OneHalf, Run(start, 8), <<>>, Run(128 + 8 * k, 8))
    BY DEF Seen8
  <1>4. Bytes(2 + k \div 32, 1) = Run(start, 8) /\ Bytes(16 + k, 1) = Run(128 + 8 * k, 8)
    <2> DEFINE p == 2 + k \div 32
               q == 16 + k
               one == 1
    <2>1. p \in Nat /\ q \in Nat /\ one \in Nat /\ 8 * one = 8 /\ 8 * p = start /\ 8 * q = 128 + 8 * k
      BY <1>1
    <2> HIDE DEF p, q, one, start
    <2>2. Bytes(p, one) = Run(8 * p, 8 * one) /\ Bytes(q, one) = Run(8 * q, 8 * one)
      BY ONLY <2>1, BytesBear
    <2>3. Bytes(p, one) = Run(start, 8) /\ Bytes(q, one) = Run(128 + 8 * k, 8)
      BY ONLY <2>1, <2>2
    <2> QED BY <2>3 DEF p, q, one
  <1> HIDE DEF w, s
  <1>5. Bears(x, a, m)
    <2>1. Bears(HeaderWord(three, w), 32 * w, 32)
      <3> HIDE DEF three
      <3> QED BY <1>1, HeaderHas
    <2> QED BY <2>1
  <1> HIDE DEF x, a, m, start, n
  <1>6. Lowest(Shr(x, s), n) = Run(a + s, n)
    BY ONLY <1>1, <1>5, FieldIs
  <1>7. Lowest(Shr(x, s), 8) = Run(start, 8)
    BY <1>1, <1>6 DEF n
  <1>8. <<Lowest(HeaderWord(3, 0), 16)>> = OneHalf /\ <<Half(0)>> = OneHalf
    BY HeaderHalves DEF OneHalf
  <1>9. Hq8kCode(k) = Run(128 + 8 * k, 8)
    BY Hq8kCodeIs
  <1>10. /\ Hq8kDequant(k) = Weight(<<Half(0)>>, Bytes(2 + k \div 32, 1), <<>>, Hq8kCode(k))
         /\ Hq8kRow(k) = Weight(<<Half(0)>>, Bytes(2 + k \div 32, 1), <<>>, Bytes(16 + k, 1))
    BY DEF Hq8kDequant, Hq8kRow
  <1> QED BY ONLY <1>2, <1>3, <1>4, <1>7, <1>8, <1>9, <1>10

\* What all the readers of a format see.
SeenBy(format, k) ==
  CASE format = "hq31k" -> Seen31(k)
    [] format = "hq41k" -> Seen41(k)
    [] format = "hq51k" -> Seen51(k)
    [] format = "hq62k" -> Seen62(k)
    [] format = "hq42k" -> SeenSymmetric(4, k)
    [] format = "hq52k" -> SeenSymmetric(5, k)
    [] format = "hq33k_g16" -> SeenV3(3, 16, k)
    [] format = "hq33k_g32" -> SeenV3(3, 32, k)
    [] format = "hq43k_g16" -> SeenV3(4, 16, k)
    [] format = "hq43k_g32" -> SeenV3(4, 32, k)
    [] format = "hq53k_g16" -> SeenV3(5, 16, k)
    [] format = "hq53k_g32" -> SeenV3(5, 32, k)
    [] format = "hq44k" -> Seen44(k)
    [] format = "hq8k" -> Seen8(k)

\* So all the readers of a format see one weight.
LEMMA ReadersSee ==
  ASSUME NEW format \in Formats, NEW k \in 0 .. 255
  PROVE  Readers(format, k) = {SeenBy(format, k)}
  <1>1. CASE format = "hq31k"
    BY <1>1, CompactSeen DEF SeenBy
  <1>2. CASE format = "hq41k"
    BY <1>2, CompactSeen DEF SeenBy
  <1>3. CASE format = "hq51k"
    BY <1>3, CompactSeen DEF SeenBy
  <1>4. CASE format = "hq62k"
    BY <1>4, CompactSeen DEF SeenBy
  <1>5. CASE format = "hq42k"
    BY <1>5, SymmetricSeen DEF SeenBy
  <1>6. CASE format = "hq52k"
    BY <1>6, SymmetricSeen DEF SeenBy
  <1>7. ASSUME NEW bits \in {3, 4, 5}, NEW group \in {16, 32}
        PROVE  {V3Product(bits, group, k), V3Decode(bits, group, k)} = {SeenV3(bits, group, k)}
    BY V3Seen
  <1>8. CASE format = "hq33k_g16"
    BY <1>7, <1>8 DEF SeenBy, Readers
  <1>9. CASE format = "hq33k_g32"
    BY <1>7, <1>9 DEF SeenBy, Readers
  <1>10. CASE format = "hq43k_g16"
    BY <1>7, <1>10 DEF SeenBy, Readers
  <1>11. CASE format = "hq43k_g32"
    BY <1>7, <1>11 DEF SeenBy, Readers
  <1>12. CASE format = "hq53k_g16"
    BY <1>7, <1>12 DEF SeenBy, Readers
  <1>13. CASE format = "hq53k_g32"
    BY <1>7, <1>13 DEF SeenBy, Readers
  <1>14. CASE format = "hq44k"
    BY <1>14, Hq44kSeen DEF SeenBy, Readers
  <1>15. CASE format = "hq8k"
    BY <1>15, Hq8kSeen DEF SeenBy, Readers
  <1> QED BY <1>1, <1>2, <1>3, <1>4, <1>5, <1>6, <1>8, <1>9, <1>10, <1>11, <1>12, <1>13, <1>14, <1>15 DEF Formats

(* The fields of a block fill it.                                           *)

InOrder(k, flipped) == IF flipped THEN Flip(k) ELSE k
GroupOf(k, G, flipped) == InOrder(k \div G, flipped)

\* A scale and, if there are two factors, the minimum of the group.
ScaleBits(s, w, G, flipped, two, k) ==
  Stretch(s, w, GroupOf(k, G, flipped)) \cup (IF two THEN Stretch(s + (256 \div G) * w, w, GroupOf(k, G, flipped)) ELSE {})

\* The bits of the scales of a block.
AllOf(w, G, two) == IF two THEN (256 \div G) * (2 * w) ELSE (256 \div G) * w

\* Every group has a place, every place a group, and a group that of its first weight.
Grouped(G, flipped) ==
  /\ 256 \div G \in Nat
  /\ \A k \in 0 .. 255 : GroupOf(k, G, flipped) \in 0 .. (256 \div G) - 1
  /\ \A i \in 0 .. (256 \div G) - 1 : \E k \in 0 .. 255 : GroupOf(k, G, flipped) = i
  /\ \A k \in 0 .. 255 : FirstOf(k, G) \in 0 .. 255 /\ GroupOf(FirstOf(k, G), G, flipped) = GroupOf(k, G, flipped)

\* The groups of eight, sixteen or thirty-two weights.
LEMMA GroupsAre ==
  ASSUME NEW G \in {8, 16, 32}, NEW flipped \in BOOLEAN
  PROVE  Grouped(G, flipped)
  <1> DEFINE n == 256 \div G
  <1>1. n \in {8, 16, 32} /\ n \in Nat /\ n * G = 256
    OBVIOUS
  <1>2. \A g \in 0 .. n - 1 : InOrder(g, flipped) \in 0 .. n - 1 /\ InOrder(InOrder(g, flipped), flipped) = g
    <2> HIDE DEF n
    <2> QED BY <1>1 DEF InOrder, Flip
  <1>3. \A k \in 0 .. 255 : k \div G \in 0 .. n - 1
    <2>1. CASE G = 8
      BY <2>1
    <2>2. CASE G = 16
      BY <2>2
    <2>3. CASE G = 32
      BY <2>3
    <2> QED BY <2>1, <2>2, <2>3
  <1>4. \A g \in 0 .. n - 1 : g * G \in 0 .. 255 /\ (g * G) \div G = g
    <2>1. CASE G = 8
      BY <2>1
    <2>2. CASE G = 16
      BY <2>2
    <2>3. CASE G = 32
      BY <2>3
    <2> QED BY <2>1, <2>2, <2>3
  <1> HIDE DEF n
  <1>5. \A k \in 0 .. 255 : GroupOf(k, G, flipped) \in 0 .. n - 1
    BY <1>2, <1>3 DEF GroupOf
  <1>6. ASSUME NEW i \in 0 .. n - 1 PROVE \E k \in 0 .. 255 : GroupOf(k, G, flipped) = i
    <2> DEFINE g == InOrder(i, flipped)
               k == g * G
    <2>1. g \in 0 .. n - 1 /\ InOrder(g, flipped) = i
      BY <1>2
    <2> HIDE DEF g
    <2>2. k \in 0 .. 255 /\ k \div G = g
      BY <1>4, <2>1
    <2> HIDE DEF k
    <2>3. GroupOf(k, G, flipped) = i
      BY <2>1, <2>2 DEF GroupOf
    <2> QED BY <2>2, <2>3
  <1>7. ASSUME NEW k \in 0 .. 255 PROVE FirstOf(k, G) \in 0 .. 255 /\ GroupOf(FirstOf(k, G), G, flipped) = GroupOf(k, G, flipped)
    <2>1. k \div G \in 0 .. n - 1
      BY <1>3
    <2>2. FirstOf(k, G) \in 0 .. 255 /\ FirstOf(k, G) \div G = k \div G
      BY <1>4, <2>1 DEF FirstOf
    <2> QED BY <2>2 DEF GroupOf
  <1>8. n \in Nat /\ (\A i \in 0 .. n - 1 : \E k \in 0 .. 255 : GroupOf(k, G, flipped) = i)
    BY <1>1, <1>6
  <1> QED BY <1>5, <1>7, <1>8 DEF n, Grouped

\* Where the codes of a block are, and where its scales are.
CodesLaid(V, c, w, flipped) == \A k \in 0 .. 255 : Bits(V[k]) = Stretch(c, w, InOrder(k, flipped))
ScalesLaid(V, s, w, G, flipped, two) == \A k \in 0 .. 255 : GroupBits(V[k]) = ScaleBits(s, w, G, flipped, two, k)

\* The codes of a block, in the order of the weights or with those of each byte swapped.
LEMMA CodesFill ==
  ASSUME NEW V, NEW c \in Nat, NEW w \in Nat \ {0}, NEW flipped \in BOOLEAN,
         CodesLaid(V, c, w, flipped)
  PROVE  AllCodes(V) = c .. c + 256 * w - 1
  <1> DEFINE D == 0 .. 255
             n == 256
             all == {Stretch(c, w, i) : i \in 0 .. n - 1}
  <1>1. \A k \in D : InOrder(k, flipped) \in D /\ InOrder(InOrder(k, flipped), flipped) = k
    BY DEF InOrder, Flip
  <1>2. AllCodes(V) = UNION {Bits(V[k]) : k \in D} /\ \A k \in D : Bits(V[k]) = Stretch(c, w, InOrder(k, flipped))
    BY DEF AllCodes, CodesLaid
  <1>3. n \in Nat /\ 0 .. n - 1 = D
    OBVIOUS
  <1> HIDE DEF n, D
  <1>4. all = {Stretch(c, w, i) : i \in D}
    BY ONLY <1>3
  <1>5. UNION all = c .. c + n * w - 1
    <2>1. c \in Int
      OBVIOUS
    <2> QED BY <1>3, <2>1, Stretches
  <1> HIDE DEF all
  <1>6. ASSUME NEW x PROVE x \in {Bits(V[k]) : k \in D} <=> x \in all
    <2>1. ASSUME NEW k \in D, x = Bits(V[k]) PROVE x \in all
      BY ONLY <1>1, <1>2, <1>4, <2>1, k \in D
    <2>2. ASSUME NEW i \in D, x = Stretch(c, w, i) PROVE x \in {Bits(V[k]) : k \in D}
      <3> DEFINE k == InOrder(i, flipped)
      <3>1. k \in D /\ InOrder(k, flipped) = i
        BY ONLY <1>1, i \in D
      <3> HIDE DEF k
      <3>2. x = Bits(V[k])
        BY ONLY <1>2, <2>2, <3>1
      <3> QED BY ONLY <3>1, <3>2
    <2> QED BY ONLY <1>4, <2>1, <2>2
  <1>7. {Bits(V[k]) : k \in D} = all
    BY ONLY <1>6
  <1>8. AllCodes(V) = c .. c + n * w - 1
    BY ONLY <1>2, <1>5, <1>7
  <1> QED BY ONLY <1>8 DEF n

\* The scales of a block, and after them the minima.
LEMMA ScalesFill ==
  ASSUME NEW V, NEW s \in Nat, NEW w \in {4, 5, 8}, NEW G \in {8, 16, 32}, NEW flipped \in BOOLEAN, NEW two \in BOOLEAN,
         ScalesLaid(V, s, w, G, flipped, two)
  PROVE  AllScales(V) = s .. s + AllOf(w, G, two) - 1
  <1> DEFINE D == 0 .. 255
             n == 256 \div G
             x == n * w
             t == s + x
             I == 0 .. n - 1
             a == {Stretch(s, w, i) : i \in I}
             b == {Stretch(t, w, i) : i \in I}
             at(k) == GroupOf(k, G, flipped)
  <1>1. n \in Nat /\ (\A k \in D : at(k) \in I) /\ \A i \in I : \E k \in D : at(k) = i
    <2>1. Grouped(G, flipped)
      BY GroupsAre
    <2> QED BY ONLY <2>1 DEF Grouped
  <1>2. x \in Nat /\ w \in Nat \ {0} /\ s \in Int /\ t \in Int /\ n * (2 * w) = x + x
    <2>1. n \in {8, 16, 32}
      OBVIOUS
    <2> HIDE DEF n
    <2> QED BY <2>1
  <1>3. AllScales(V) = UNION {GroupBits(V[k]) : k \in D}
    BY DEF AllScales
  <1>4. \A k \in D : GroupBits(V[k]) = Stretch(s, w, at(k)) \cup (IF two THEN Stretch(t, w, at(k)) ELSE {})
    BY DEF ScaleBits, ScalesLaid
  <1>5. AllOf(w, G, two) = IF two THEN x + x ELSE x
    BY <1>2 DEF AllOf
  <1> HIDE DEF D, n, t
  <1>6. UNION a = s .. s + n * w - 1 /\ UNION b = t .. t + n * w - 1
    <2>1. UNION a = s .. s + n * w - 1
      BY ONLY <1>1, <1>2, Stretches
    <2>2. UNION b = t .. t + n * w - 1
      BY ONLY <1>1, <1>2, Stretches
    <2> QED BY <2>1, <2>2
  <1> HIDE DEF x
  <1>7. UNION a = s .. s + x - 1 /\ UNION b = s + x .. s + x + x - 1
    BY ONLY <1>6 DEF x, t
  <1>8. a = {Stretch(s, w, i) : i \in I} /\ b = {Stretch(t, w, i) : i \in I}
    BY ONLY TRUE
  <1> HIDE DEF a, b, I, at
  <1>9. ASSUME NEW e PROVE e \in AllScales(V) <=> e \in UNION a \/ (two /\ e \in UNION b)
    <2>1. ASSUME e \in AllScales(V) PROVE e \in UNION a \/ (two /\ e \in UNION b)
      <3>1. PICK k \in D : e \in GroupBits(V[k])
        BY ONLY <1>3, <2>1
      <3>2. e \in Stretch(s, w, at(k)) \/ (two /\ e \in Stretch(t, w, at(k)))
        BY ONLY <1>4, <3>1, k \in D
      <3>3. at(k) \in I
        BY ONLY <1>1, k \in D
      <3> QED BY ONLY <1>8, <3>2, <3>3
    <2>2. ASSUME NEW i \in I, e \in Stretch(s, w, i) \/ (two /\ e \in Stretch(t, w, i)) PROVE e \in AllScales(V)
      <3>1. PICK k \in D : at(k) = i
        BY ONLY <1>1, i \in I
      <3>2. e \in GroupBits(V[k])
        BY ONLY <1>4, <2>2, <3>1, k \in D
      <3> QED BY ONLY <1>3, <3>2, k \in D
    <2> QED BY ONLY <1>8, <2>1, <2>2
  <1>10. CASE two
    <2>1. \A e : e \in AllScales(V) <=> e \in s .. s + (x + x) - 1
      <3>1. \A e : e \in s .. s + (x + x) - 1 <=> e \in s .. s + x - 1 \/ e \in s + x .. s + x + x - 1
        BY ONLY <1>2
      <3> QED BY ONLY <1>7, <1>9, <1>10, <3>1
    <2> QED BY ONLY <1>5, <1>10, <2>1
  <1>11. CASE ~two
    <2>1. \A e : e \in AllScales(V) <=> e \in s .. s + x - 1
      BY ONLY <1>7, <1>9, <1>11
    <2> QED BY ONLY <1>5, <1>11, <2>1
  <1> QED BY ONLY <1>10, <1>11

\* The bits of the scale of one group.
ScaleTakes(s, w, G, swapped, two, k) == GroupsTimes(G, Cardinality(ScaleBits(s, w, G, swapped, two, k))) = AllOf(w, G, two)

Widths(s, w, G, swapped, two) == s \in Nat /\ w \in {4, 5, 8} /\ G \in {8, 16, 32} /\ swapped \in BOOLEAN /\ two \in BOOLEAN

\* The groups share the bits of the scales out.
LEMMA ScaleBitsCount ==
  ASSUME NEW s, NEW w, NEW G, NEW swapped, NEW two, Widths(s, w, G, swapped, two)
  PROVE  \A k \in 0 .. 255 : ScaleTakes(s, w, G, swapped, two, k)
  <1> USE DEF Widths
  <1> SUFFICES ASSUME NEW k \in 0 .. 255 PROVE ScaleTakes(s, w, G, swapped, two, k)
    OBVIOUS
  <1> DEFINE n == 256 \div G
             x == n * w
             g == GroupOf(k, G, swapped)
             p == s + w * g
             q == s + x + w * g
             a == Stretch(s, w, g)
             b == Stretch(s + x, w, g)
  <1>1. g \in 0 .. n - 1
    <2>1. Grouped(G, swapped)
      BY GroupsAre
    <2> QED BY ONLY <2>1, k \in 0 .. 255 DEF Grouped
  <1>2. n \in {8, 16, 32} /\ w \in {4, 5, 8}
    OBVIOUS
  <1>3. ScaleBits(s, w, G, swapped, two, k) = a \cup (IF two THEN b ELSE {})
    BY DEF ScaleBits
  <1>4. AllOf(w, G, two) = IF two THEN n * (2 * w) ELSE n * w
    BY DEF AllOf
  <1>5. a = p .. p + w - 1 /\ b = q .. q + w - 1
    BY DEF Stretch
  <1>13. \A e : GroupsTimes(G, e) = n * e
    BY DEF GroupsTimes
  <1> HIDE DEF n, g
  <1>6. p \in Nat /\ q \in Nat /\ p + w <= q /\ w \in Nat
    <2>1. CASE w = 4
      BY <1>1, <1>2, <2>1
    <2>2. CASE w = 5
      BY <1>1, <1>2, <2>2
    <2>3. CASE w = 8
      BY <1>1, <1>2, <2>3
    <2> QED BY <2>1, <2>2, <2>3
  <1> HIDE DEF a, b, p, q
  <1>7. ASSUME NEW r \in Nat PROVE IsFiniteSet(r .. r + w - 1) /\ Cardinality(r .. r + w - 1) = w
    <2> DEFINE e == r + w - 1
    <2>1. e \in Int /\ r \in Int /\ ~(r > e) /\ e - r + 1 = w
      OBVIOUS
    <2>2. r .. r + w - 1 = r .. e
      OBVIOUS
    <2> HIDE DEF e
    <2>3. IsFiniteSet(r .. e) /\ Cardinality(r .. e) = IF r > e THEN 0 ELSE e - r + 1
      BY <2>1, FS_Interval
    <2> QED BY <2>1, <2>2, <2>3
  <1>8. IsFiniteSet(a) /\ Cardinality(a) = w /\ IsFiniteSet(b) /\ Cardinality(b) = w
    BY <1>5, <1>6, <1>7
  <1>9. a \cap b = {}
    BY <1>5, <1>6
  <1>10. Cardinality(a \cup b) = 2 * w
    <2>1. Cardinality(a \cup b) = Cardinality(a) + Cardinality(b) - Cardinality(a \cap b)
      BY <1>8, FS_Union
    <2>2. Cardinality(a \cap b) = 0
      BY <1>9, FS_EmptySet
    <2> QED BY <1>6, <1>8, <2>1, <2>2
  <1>11. CASE two
    BY <1>3, <1>4, <1>10, <1>11, <1>13 DEF ScaleTakes
  <1>12. CASE ~two
    <2>1. ScaleBits(s, w, G, swapped, two, k) = a
      BY <1>3, <1>12
    <2> QED BY <1>4, <1>8, <1>12, <1>13, <2>1 DEF ScaleTakes
  <1> QED BY <1>11, <1>12 DEF ScaleTakes

\* The layout of a block: the bits of its base; where the scales start, how wide
\* they are, how many weights share one, whether the halves of a byte are swapped
\* and whether as many minima follow; the same of the codes.
Layout(base, scales, width, group, swapped, two, codes, bits, flipped) ==
  [base |-> base, scales |-> scales, width |-> width, group |-> group, swapped |-> swapped, two |-> two,
   codes |-> codes, bits |-> bits, flipped |-> flipped]

LayoutOf(format) ==
  CASE format = "hq31k" -> Layout(48, 64, 4, 8, TRUE, TRUE, 320, 3, FALSE)
    [] format = "hq41k" -> Layout(48, 64, 4, 8, TRUE, TRUE, 320, 4, TRUE)
    [] format = "hq51k" -> Layout(48, 64, 4, 8, TRUE, TRUE, 320, 5, FALSE)
    [] format = "hq62k" -> Layout(48, 64, 8, 8, FALSE, TRUE, 576, 6, FALSE)
    [] format = "hq42k" -> Layout(16, 32, 5, 8, FALSE, FALSE, 192, 4, TRUE)
    [] format = "hq52k" -> Layout(16, 32, 5, 8, FALSE, FALSE, 192, 5, FALSE)
    [] format = "hq33k_g16" -> Layout(16, 16, 5, 16, FALSE, FALSE, 96, 3, FALSE)
    [] format = "hq33k_g32" -> Layout(16, 16, 5, 32, FALSE, FALSE, 64, 3, FALSE)
    [] format = "hq43k_g16" -> Layout(16, 16, 5, 16, FALSE, FALSE, 96, 4, TRUE)
    [] format = "hq43k_g32" -> Layout(16, 16, 5, 32, FALSE, FALSE, 64, 4, TRUE)
    [] format = "hq53k_g16" -> Layout(16, 16, 5, 16, FALSE, FALSE, 96, 5, FALSE)
    [] format = "hq53k_g32" -> Layout(16, 16, 5, 32, FALSE, FALSE, 64, 5, FALSE)
    [] format = "hq44k" -> Layout(32, 32, 5, 16, FALSE, TRUE, 192, 4, FALSE)
    [] format = "hq8k" -> Layout(16, 16, 8, 32, FALSE, FALSE, 128, 8, FALSE)

\* A weight read by it.
Halves(nb) == CASE nb = 16 -> OneHalf [] nb = 32 -> TwoHalves [] nb = 48 -> ThreeHalves
ScaleAt(L, k) == L.scales + L.width * GroupOf(k, L.group, L.swapped)
MinAt(L, k) == L.scales + (256 \div L.group) * L.width + L.width * GroupOf(k, L.group, L.swapped)
ReadBy(L, k) ==
  Weight(Halves(L.base), Run(ScaleAt(L, k), L.width), IF L.two THEN Run(MinAt(L, k), L.width) ELSE <<>>,
         Run(L.codes + L.bits * InOrder(k, L.flipped), L.bits))

IsLayout(L) ==
  /\ L.base \in {16, 32, 48} /\ L.scales \in Nat /\ L.width \in {4, 5, 8} /\ L.group \in {8, 16, 32}
  /\ L.swapped \in BOOLEAN /\ L.two \in BOOLEAN /\ L.codes \in Nat /\ L.bits \in Nat \ {0} /\ L.flipped \in BOOLEAN

\* Its parts follow each other and end with the block.
FitsBlock(L, format) ==
  /\ Blocks[format][2] = L.group /\ Blocks[format][3] = L.bits /\ 8 * Blocks[format][1] \in Nat
  /\ L.base <= L.scales /\ L.scales + AllOf(L.width, L.group, L.two) <= L.codes
  /\ L.codes + 256 * L.bits <= 8 * Blocks[format][1]

\* The layouts of the formats are layouts of their blocks.
LEMMA LayoutsFit ==
  ASSUME NEW format \in Formats
  PROVE  IsLayout(LayoutOf(format)) /\ FitsBlock(LayoutOf(format), format)
  <1>1. CASE format = "hq31k"
    <2> DEFINE L == Layout(48, 64, 4, 8, TRUE, TRUE, 320, 3, FALSE)
    <2>1. LayoutOf(format) = L
      BY <1>1 DEF LayoutOf
    <2>2. Blocks[format] = <<136, 8, 3>>
      BY <1>1 DEF Blocks
    <2>3. AllOf(4, 8, TRUE) = 256
      BY DEF AllOf
    <2>4. L.base = 48 /\ L.scales = 64 /\ L.width = 4 /\ L.group = 8 /\ L.codes = 320 /\ L.bits = 3
      BY DEF Layout
    <2>5. L.swapped = TRUE /\ L.two = TRUE /\ L.flipped = FALSE
      BY Zenon DEF Layout
    <2>9. L.width = 4 /\ L.group = 8
      BY <2>4
    <2>10. L.two = TRUE
      BY <2>5
    <2> HIDE DEF L
    <2>6. IsLayout(L)
      <3>1. L.base \in {16, 32, 48} /\ L.scales \in Nat /\ L.width \in {4, 5, 8} /\ L.group \in {8, 16, 32} /\ L.codes \in Nat /\ L.bits \in Nat \ {0}
        BY ONLY <2>4
      <3>2. L.swapped \in BOOLEAN /\ L.two \in BOOLEAN /\ L.flipped \in BOOLEAN
        BY ONLY <2>5, Zenon
      <3> QED BY ONLY <3>1, <3>2, Zenon DEF IsLayout
    <2>7. AllOf(L.width, L.group, L.two) = 256
      BY ONLY <2>3, <2>9, <2>10, Zenon
    <2>8. FitsBlock(L, format)
      BY ONLY <2>2, <2>4, <2>7 DEF FitsBlock
    <2> QED BY ONLY <2>1, <2>6, <2>8
  <1>2. CASE format = "hq41k"
    <2> DEFINE L == Layout(48, 64, 4, 8, TRUE, TRUE, 320, 4, TRUE)
    <2>1. LayoutOf(format) = L
      BY <1>2 DEF LayoutOf
    <2>2. Blocks[format] = <<168, 8, 4>>
      BY <1>2 DEF Blocks
    <2>3. AllOf(4, 8, TRUE) = 256
      BY DEF AllOf
    <2>4. L.base = 48 /\ L.scales = 64 /\ L.width = 4 /\ L.group = 8 /\ L.codes = 320 /\ L.bits = 4
      BY DEF Layout
    <2>5. L.swapped = TRUE /\ L.two = TRUE /\ L.flipped = TRUE
      BY Zenon DEF Layout
    <2>9. L.width = 4 /\ L.group = 8
      BY <2>4
    <2>10. L.two = TRUE
      BY <2>5
    <2> HIDE DEF L
    <2>6. IsLayout(L)
      <3>1. L.base \in {16, 32, 48} /\ L.scales \in Nat /\ L.width \in {4, 5, 8} /\ L.group \in {8, 16, 32} /\ L.codes \in Nat /\ L.bits \in Nat \ {0}
        BY ONLY <2>4
      <3>2. L.swapped \in BOOLEAN /\ L.two \in BOOLEAN /\ L.flipped \in BOOLEAN
        BY ONLY <2>5, Zenon
      <3> QED BY ONLY <3>1, <3>2, Zenon DEF IsLayout
    <2>7. AllOf(L.width, L.group, L.two) = 256
      BY ONLY <2>3, <2>9, <2>10, Zenon
    <2>8. FitsBlock(L, format)
      BY ONLY <2>2, <2>4, <2>7 DEF FitsBlock
    <2> QED BY ONLY <2>1, <2>6, <2>8
  <1>3. CASE format = "hq51k"
    <2> DEFINE L == Layout(48, 64, 4, 8, TRUE, TRUE, 320, 5, FALSE)
    <2>1. LayoutOf(format) = L
      BY <1>3 DEF LayoutOf
    <2>2. Blocks[format] = <<200, 8, 5>>
      BY <1>3 DEF Blocks
    <2>3. AllOf(4, 8, TRUE) = 256
      BY DEF AllOf
    <2>4. L.base = 48 /\ L.scales = 64 /\ L.width = 4 /\ L.group = 8 /\ L.codes = 320 /\ L.bits = 5
      BY DEF Layout
    <2>5. L.swapped = TRUE /\ L.two = TRUE /\ L.flipped = FALSE
      BY Zenon DEF Layout
    <2>9. L.width = 4 /\ L.group = 8
      BY <2>4
    <2>10. L.two = TRUE
      BY <2>5
    <2> HIDE DEF L
    <2>6. IsLayout(L)
      <3>1. L.base \in {16, 32, 48} /\ L.scales \in Nat /\ L.width \in {4, 5, 8} /\ L.group \in {8, 16, 32} /\ L.codes \in Nat /\ L.bits \in Nat \ {0}
        BY ONLY <2>4
      <3>2. L.swapped \in BOOLEAN /\ L.two \in BOOLEAN /\ L.flipped \in BOOLEAN
        BY ONLY <2>5, Zenon
      <3> QED BY ONLY <3>1, <3>2, Zenon DEF IsLayout
    <2>7. AllOf(L.width, L.group, L.two) = 256
      BY ONLY <2>3, <2>9, <2>10, Zenon
    <2>8. FitsBlock(L, format)
      BY ONLY <2>2, <2>4, <2>7 DEF FitsBlock
    <2> QED BY ONLY <2>1, <2>6, <2>8
  <1>4. CASE format = "hq62k"
    <2> DEFINE L == Layout(48, 64, 8, 8, FALSE, TRUE, 576, 6, FALSE)
    <2>1. LayoutOf(format) = L
      BY <1>4 DEF LayoutOf
    <2>2. Blocks[format] = <<264, 8, 6>>
      BY <1>4 DEF Blocks
    <2>3. AllOf(8, 8, TRUE) = 512
      BY DEF AllOf
    <2>4. L.base = 48 /\ L.scales = 64 /\ L.width = 8 /\ L.group = 8 /\ L.codes = 576 /\ L.bits = 6
      BY DEF Layout
    <2>5. L.swapped = FALSE /\ L.two = TRUE /\ L.flipped = FALSE
      BY Zenon DEF Layout
    <2>9. L.width = 8 /\ L.group = 8
      BY <2>4
    <2>10. L.two = TRUE
      BY <2>5
    <2> HIDE DEF L
    <2>6. IsLayout(L)
      <3>1. L.base \in {16, 32, 48} /\ L.scales \in Nat /\ L.width \in {4, 5, 8} /\ L.group \in {8, 16, 32} /\ L.codes \in Nat /\ L.bits \in Nat \ {0}
        BY ONLY <2>4
      <3>2. L.swapped \in BOOLEAN /\ L.two \in BOOLEAN /\ L.flipped \in BOOLEAN
        BY ONLY <2>5, Zenon
      <3> QED BY ONLY <3>1, <3>2, Zenon DEF IsLayout
    <2>7. AllOf(L.width, L.group, L.two) = 512
      BY ONLY <2>3, <2>9, <2>10, Zenon
    <2>8. FitsBlock(L, format)
      BY ONLY <2>2, <2>4, <2>7 DEF FitsBlock
    <2> QED BY ONLY <2>1, <2>6, <2>8
  <1>5. CASE format = "hq42k"
    <2> DEFINE L == Layout(16, 32, 5, 8, FALSE, FALSE, 192, 4, TRUE)
    <2>1. LayoutOf(format) = L
      BY <1>5 DEF LayoutOf
    <2>2. Blocks[format] = <<152, 8, 4>>
      BY <1>5 DEF Blocks
    <2>3. AllOf(5, 8, FALSE) = 160
      BY DEF AllOf
    <2>4. L.base = 16 /\ L.scales = 32 /\ L.width = 5 /\ L.group = 8 /\ L.codes = 192 /\ L.bits = 4
      BY DEF Layout
    <2>5. L.swapped = FALSE /\ L.two = FALSE /\ L.flipped = TRUE
      BY Zenon DEF Layout
    <2>9. L.width = 5 /\ L.group = 8
      BY <2>4
    <2>10. L.two = FALSE
      BY <2>5
    <2> HIDE DEF L
    <2>6. IsLayout(L)
      <3>1. L.base \in {16, 32, 48} /\ L.scales \in Nat /\ L.width \in {4, 5, 8} /\ L.group \in {8, 16, 32} /\ L.codes \in Nat /\ L.bits \in Nat \ {0}
        BY ONLY <2>4
      <3>2. L.swapped \in BOOLEAN /\ L.two \in BOOLEAN /\ L.flipped \in BOOLEAN
        BY ONLY <2>5, Zenon
      <3> QED BY ONLY <3>1, <3>2, Zenon DEF IsLayout
    <2>7. AllOf(L.width, L.group, L.two) = 160
      BY ONLY <2>3, <2>9, <2>10, Zenon
    <2>8. FitsBlock(L, format)
      BY ONLY <2>2, <2>4, <2>7 DEF FitsBlock
    <2> QED BY ONLY <2>1, <2>6, <2>8
  <1>6. CASE format = "hq52k"
    <2> DEFINE L == Layout(16, 32, 5, 8, FALSE, FALSE, 192, 5, FALSE)
    <2>1. LayoutOf(format) = L
      BY <1>6 DEF LayoutOf
    <2>2. Blocks[format] = <<184, 8, 5>>
      BY <1>6 DEF Blocks
    <2>3. AllOf(5, 8, FALSE) = 160
      BY DEF AllOf
    <2>4. L.base = 16 /\ L.scales = 32 /\ L.width = 5 /\ L.group = 8 /\ L.codes = 192 /\ L.bits = 5
      BY DEF Layout
    <2>5. L.swapped = FALSE /\ L.two = FALSE /\ L.flipped = FALSE
      BY Zenon DEF Layout
    <2>9. L.width = 5 /\ L.group = 8
      BY <2>4
    <2>10. L.two = FALSE
      BY <2>5
    <2> HIDE DEF L
    <2>6. IsLayout(L)
      <3>1. L.base \in {16, 32, 48} /\ L.scales \in Nat /\ L.width \in {4, 5, 8} /\ L.group \in {8, 16, 32} /\ L.codes \in Nat /\ L.bits \in Nat \ {0}
        BY ONLY <2>4
      <3>2. L.swapped \in BOOLEAN /\ L.two \in BOOLEAN /\ L.flipped \in BOOLEAN
        BY ONLY <2>5, Zenon
      <3> QED BY ONLY <3>1, <3>2, Zenon DEF IsLayout
    <2>7. AllOf(L.width, L.group, L.two) = 160
      BY ONLY <2>3, <2>9, <2>10, Zenon
    <2>8. FitsBlock(L, format)
      BY ONLY <2>2, <2>4, <2>7 DEF FitsBlock
    <2> QED BY ONLY <2>1, <2>6, <2>8
  <1>7. CASE format = "hq33k_g16"
    <2> DEFINE L == Layout(16, 16, 5, 16, FALSE, FALSE, 96, 3, FALSE)
    <2>1. LayoutOf(format) = L
      BY <1>7 DEF LayoutOf
    <2>2. Blocks[format] = <<108, 16, 3>>
      BY <1>7 DEF Blocks
    <2>3. AllOf(5, 16, FALSE) = 80
      BY DEF AllOf
    <2>4. L.base = 16 /\ L.scales = 16 /\ L.width = 5 /\ L.group = 16 /\ L.codes = 96 /\ L.bits = 3
      BY DEF Layout
    <2>5. L.swapped = FALSE /\ L.two = FALSE /\ L.flipped = FALSE
      BY Zenon DEF Layout
    <2>9. L.width = 5 /\ L.group = 16
      BY <2>4
    <2>10. L.two = FALSE
      BY <2>5
    <2> HIDE DEF L
    <2>6. IsLayout(L)
      <3>1. L.base \in {16, 32, 48} /\ L.scales \in Nat /\ L.width \in {4, 5, 8} /\ L.group \in {8, 16, 32} /\ L.codes \in Nat /\ L.bits \in Nat \ {0}
        BY ONLY <2>4
      <3>2. L.swapped \in BOOLEAN /\ L.two \in BOOLEAN /\ L.flipped \in BOOLEAN
        BY ONLY <2>5, Zenon
      <3> QED BY ONLY <3>1, <3>2, Zenon DEF IsLayout
    <2>7. AllOf(L.width, L.group, L.two) = 80
      BY ONLY <2>3, <2>9, <2>10, Zenon
    <2>8. FitsBlock(L, format)
      BY ONLY <2>2, <2>4, <2>7 DEF FitsBlock
    <2> QED BY ONLY <2>1, <2>6, <2>8
  <1>8. CASE format = "hq33k_g32"
    <2> DEFINE L == Layout(16, 16, 5, 32, FALSE, FALSE, 64, 3, FALSE)
    <2>1. LayoutOf(format) = L
      BY <1>8 DEF LayoutOf
    <2>2. Blocks[format] = <<104, 32, 3>>
      BY <1>8 DEF Blocks
    <2>3. AllOf(5, 32, FALSE) = 40
      BY DEF AllOf
    <2>4. L.base = 16 /\ L.scales = 16 /\ L.width = 5 /\ L.group = 32 /\ L.codes = 64 /\ L.bits = 3
      BY DEF Layout
    <2>5. L.swapped = FALSE /\ L.two = FALSE /\ L.flipped = FALSE
      BY Zenon DEF Layout
    <2>9. L.width = 5 /\ L.group = 32
      BY <2>4
    <2>10. L.two = FALSE
      BY <2>5
    <2> HIDE DEF L
    <2>6. IsLayout(L)
      <3>1. L.base \in {16, 32, 48} /\ L.scales \in Nat /\ L.width \in {4, 5, 8} /\ L.group \in {8, 16, 32} /\ L.codes \in Nat /\ L.bits \in Nat \ {0}
        BY ONLY <2>4
      <3>2. L.swapped \in BOOLEAN /\ L.two \in BOOLEAN /\ L.flipped \in BOOLEAN
        BY ONLY <2>5, Zenon
      <3> QED BY ONLY <3>1, <3>2, Zenon DEF IsLayout
    <2>7. AllOf(L.width, L.group, L.two) = 40
      BY ONLY <2>3, <2>9, <2>10, Zenon
    <2>8. FitsBlock(L, format)
      BY ONLY <2>2, <2>4, <2>7 DEF FitsBlock
    <2> QED BY ONLY <2>1, <2>6, <2>8
  <1>9. CASE format = "hq43k_g16"
    <2> DEFINE L == Layout(16, 16, 5, 16, FALSE, FALSE, 96, 4, TRUE)
    <2>1. LayoutOf(format) = L
      BY <1>9 DEF LayoutOf
    <2>2. Blocks[format] = <<140, 16, 4>>
      BY <1>9 DEF Blocks
    <2>3. AllOf(5, 16, FALSE) = 80
      BY DEF AllOf
    <2>4. L.base = 16 /\ L.scales = 16 /\ L.width = 5 /\ L.group = 16 /\ L.codes = 96 /\ L.bits = 4
      BY DEF Layout
    <2>5. L.swapped = FALSE /\ L.two = FALSE /\ L.flipped = TRUE
      BY Zenon DEF Layout
    <2>9. L.width = 5 /\ L.group = 16
      BY <2>4
    <2>10. L.two = FALSE
      BY <2>5
    <2> HIDE DEF L
    <2>6. IsLayout(L)
      <3>1. L.base \in {16, 32, 48} /\ L.scales \in Nat /\ L.width \in {4, 5, 8} /\ L.group \in {8, 16, 32} /\ L.codes \in Nat /\ L.bits \in Nat \ {0}
        BY ONLY <2>4
      <3>2. L.swapped \in BOOLEAN /\ L.two \in BOOLEAN /\ L.flipped \in BOOLEAN
        BY ONLY <2>5, Zenon
      <3> QED BY ONLY <3>1, <3>2, Zenon DEF IsLayout
    <2>7. AllOf(L.width, L.group, L.two) = 80
      BY ONLY <2>3, <2>9, <2>10, Zenon
    <2>8. FitsBlock(L, format)
      BY ONLY <2>2, <2>4, <2>7 DEF FitsBlock
    <2> QED BY ONLY <2>1, <2>6, <2>8
  <1>10. CASE format = "hq43k_g32"
    <2> DEFINE L == Layout(16, 16, 5, 32, FALSE, FALSE, 64, 4, TRUE)
    <2>1. LayoutOf(format) = L
      BY <1>10 DEF LayoutOf
    <2>2. Blocks[format] = <<136, 32, 4>>
      BY <1>10 DEF Blocks
    <2>3. AllOf(5, 32, FALSE) = 40
      BY DEF AllOf
    <2>4. L.base = 16 /\ L.scales = 16 /\ L.width = 5 /\ L.group = 32 /\ L.codes = 64 /\ L.bits = 4
      BY DEF Layout
    <2>5. L.swapped = FALSE /\ L.two = FALSE /\ L.flipped = TRUE
      BY Zenon DEF Layout
    <2>9. L.width = 5 /\ L.group = 32
      BY <2>4
    <2>10. L.two = FALSE
      BY <2>5
    <2> HIDE DEF L
    <2>6. IsLayout(L)
      <3>1. L.base \in {16, 32, 48} /\ L.scales \in Nat /\ L.width \in {4, 5, 8} /\ L.group \in {8, 16, 32} /\ L.codes \in Nat /\ L.bits \in Nat \ {0}
        BY ONLY <2>4
      <3>2. L.swapped \in BOOLEAN /\ L.two \in BOOLEAN /\ L.flipped \in BOOLEAN
        BY ONLY <2>5, Zenon
      <3> QED BY ONLY <3>1, <3>2, Zenon DEF IsLayout
    <2>7. AllOf(L.width, L.group, L.two) = 40
      BY ONLY <2>3, <2>9, <2>10, Zenon
    <2>8. FitsBlock(L, format)
      BY ONLY <2>2, <2>4, <2>7 DEF FitsBlock
    <2> QED BY ONLY <2>1, <2>6, <2>8
  <1>11. CASE format = "hq53k_g16"
    <2> DEFINE L == Layout(16, 16, 5, 16, FALSE, FALSE, 96, 5, FALSE)
    <2>1. LayoutOf(format) = L
      BY <1>11 DEF LayoutOf
    <2>2. Blocks[format] = <<172, 16, 5>>
      BY <1>11 DEF Blocks
    <2>3. AllOf(5, 16, FALSE) = 80
      BY DEF AllOf
    <2>4. L.base = 16 /\ L.scales = 16 /\ L.width = 5 /\ L.group = 16 /\ L.codes = 96 /\ L.bits = 5
      BY DEF Layout
    <2>5. L.swapped = FALSE /\ L.two = FALSE /\ L.flipped = FALSE
      BY Zenon DEF Layout
    <2>9. L.width = 5 /\ L.group = 16
      BY <2>4
    <2>10. L.two = FALSE
      BY <2>5
    <2> HIDE DEF L
    <2>6. IsLayout(L)
      <3>1. L.base \in {16, 32, 48} /\ L.scales \in Nat /\ L.width \in {4, 5, 8} /\ L.group \in {8, 16, 32} /\ L.codes \in Nat /\ L.bits \in Nat \ {0}
        BY ONLY <2>4
      <3>2. L.swapped \in BOOLEAN /\ L.two \in BOOLEAN /\ L.flipped \in BOOLEAN
        BY ONLY <2>5, Zenon
      <3> QED BY ONLY <3>1, <3>2, Zenon DEF IsLayout
    <2>7. AllOf(L.width, L.group, L.two) = 80
      BY ONLY <2>3, <2>9, <2>10, Zenon
    <2>8. FitsBlock(L, format)
      BY ONLY <2>2, <2>4, <2>7 DEF FitsBlock
    <2> QED BY ONLY <2>1, <2>6, <2>8
  <1>12. CASE format = "hq53k_g32"
    <2> DEFINE L == Layout(16, 16, 5, 32, FALSE, FALSE, 64, 5, FALSE)
    <2>1. LayoutOf(format) = L
      BY <1>12 DEF LayoutOf
    <2>2. Blocks[format] = <<168, 32, 5>>
      BY <1>12 DEF Blocks
    <2>3. AllOf(5, 32, FALSE) = 40
      BY DEF AllOf
    <2>4. L.base = 16 /\ L.scales = 16 /\ L.width = 5 /\ L.group = 32 /\ L.codes = 64 /\ L.bits = 5
      BY DEF Layout
    <2>5. L.swapped = FALSE /\ L.two = FALSE /\ L.flipped = FALSE
      BY Zenon DEF Layout
    <2>9. L.width = 5 /\ L.group = 32
      BY <2>4
    <2>10. L.two = FALSE
      BY <2>5
    <2> HIDE DEF L
    <2>6. IsLayout(L)
      <3>1. L.base \in {16, 32, 48} /\ L.scales \in Nat /\ L.width \in {4, 5, 8} /\ L.group \in {8, 16, 32} /\ L.codes \in Nat /\ L.bits \in Nat \ {0}
        BY ONLY <2>4
      <3>2. L.swapped \in BOOLEAN /\ L.two \in BOOLEAN /\ L.flipped \in BOOLEAN
        BY ONLY <2>5, Zenon
      <3> QED BY ONLY <3>1, <3>2, Zenon DEF IsLayout
    <2>7. AllOf(L.width, L.group, L.two) = 40
      BY ONLY <2>3, <2>9, <2>10, Zenon
    <2>8. FitsBlock(L, format)
      BY ONLY <2>2, <2>4, <2>7 DEF FitsBlock
    <2> QED BY ONLY <2>1, <2>6, <2>8
  <1>13. CASE format = "hq44k"
    <2> DEFINE L == Layout(32, 32, 5, 16, FALSE, TRUE, 192, 4, FALSE)
    <2>1. LayoutOf(format) = L
      BY <1>13 DEF LayoutOf
    <2>2. Blocks[format] = <<152, 16, 4>>
      BY <1>13 DEF Blocks
    <2>3. AllOf(5, 16, TRUE) = 160
      BY DEF AllOf
    <2>4. L.base = 32 /\ L.scales = 32 /\ L.width = 5 /\ L.group = 16 /\ L.codes = 192 /\ L.bits = 4
      BY DEF Layout
    <2>5. L.swapped = FALSE /\ L.two = TRUE /\ L.flipped = FALSE
      BY Zenon DEF Layout
    <2>9. L.width = 5 /\ L.group = 16
      BY <2>4
    <2>10. L.two = TRUE
      BY <2>5
    <2> HIDE DEF L
    <2>6. IsLayout(L)
      <3>1. L.base \in {16, 32, 48} /\ L.scales \in Nat /\ L.width \in {4, 5, 8} /\ L.group \in {8, 16, 32} /\ L.codes \in Nat /\ L.bits \in Nat \ {0}
        BY ONLY <2>4
      <3>2. L.swapped \in BOOLEAN /\ L.two \in BOOLEAN /\ L.flipped \in BOOLEAN
        BY ONLY <2>5, Zenon
      <3> QED BY ONLY <3>1, <3>2, Zenon DEF IsLayout
    <2>7. AllOf(L.width, L.group, L.two) = 160
      BY ONLY <2>3, <2>9, <2>10, Zenon
    <2>8. FitsBlock(L, format)
      BY ONLY <2>2, <2>4, <2>7 DEF FitsBlock
    <2> QED BY ONLY <2>1, <2>6, <2>8
  <1>14. CASE format = "hq8k"
    <2> DEFINE L == Layout(16, 16, 8, 32, FALSE, FALSE, 128, 8, FALSE)
    <2>1. LayoutOf(format) = L
      BY <1>14 DEF LayoutOf
    <2>2. Blocks[format] = <<272, 32, 8>>
      BY <1>14 DEF Blocks
    <2>3. AllOf(8, 32, FALSE) = 64
      BY DEF AllOf
    <2>4. L.base = 16 /\ L.scales = 16 /\ L.width = 8 /\ L.group = 32 /\ L.codes = 128 /\ L.bits = 8
      BY DEF Layout
    <2>5. L.swapped = FALSE /\ L.two = FALSE /\ L.flipped = FALSE
      BY Zenon DEF Layout
    <2>9. L.width = 8 /\ L.group = 32
      BY <2>4
    <2>10. L.two = FALSE
      BY <2>5
    <2> HIDE DEF L
    <2>6. IsLayout(L)
      <3>1. L.base \in {16, 32, 48} /\ L.scales \in Nat /\ L.width \in {4, 5, 8} /\ L.group \in {8, 16, 32} /\ L.codes \in Nat /\ L.bits \in Nat \ {0}
        BY ONLY <2>4
      <3>2. L.swapped \in BOOLEAN /\ L.two \in BOOLEAN /\ L.flipped \in BOOLEAN
        BY ONLY <2>5, Zenon
      <3> QED BY ONLY <3>1, <3>2, Zenon DEF IsLayout
    <2>7. AllOf(L.width, L.group, L.two) = 64
      BY ONLY <2>3, <2>9, <2>10, Zenon
    <2>8. FitsBlock(L, format)
      BY ONLY <2>2, <2>4, <2>7 DEF FitsBlock
    <2> QED BY ONLY <2>1, <2>6, <2>8
  <1> QED BY <1>1, <1>2, <1>3, <1>4, <1>5, <1>6, <1>7, <1>8, <1>9, <1>10, <1>11, <1>12, <1>13, <1>14 DEF Formats

\* Every weight is read by the layout of its format.
LEMMA ReadByLayout ==
  ASSUME NEW format \in Formats, NEW k \in 0 .. 255
  PROVE  SeenBy(format, k) = ReadBy(LayoutOf(format), k)
  <1>1. CASE format = "hq31k"
    <2> DEFINE L == Layout(48, 64, 4, 8, TRUE, TRUE, 320, 3, FALSE)
    <2>1. LayoutOf(format) = L
      BY <1>1 DEF LayoutOf
    <2>2. ReadBy(L, k) = Weight(Halves(48), Run(64 + 4 * (Flip(k \div 8)), 4), Run(192 + 4 * (Flip(k \div 8)), 4), Run(320 + 3 * k, 3))
      BY DEF ReadBy, ScaleAt, MinAt, GroupOf, InOrder, Layout
    <2>3. SeenBy(format, k) = Weight(Halves(48), Run(64 + 4 * (Flip(k \div 8)), 4), Run(192 + 4 * (Flip(k \div 8)), 4), Run(320 + 3 * k, 3))
      BY <1>1 DEF SeenBy, Halves, Seen31, CompactView, CompactScale, CompactMin
    <2> QED BY <2>1, <2>2, <2>3
  <1>2. CASE format = "hq41k"
    <2> DEFINE L == Layout(48, 64, 4, 8, TRUE, TRUE, 320, 4, TRUE)
    <2>1. LayoutOf(format) = L
      BY <1>2 DEF LayoutOf
    <2>2. ReadBy(L, k) = Weight(Halves(48), Run(64 + 4 * (Flip(k \div 8)), 4), Run(192 + 4 * (Flip(k \div 8)), 4), Run(320 + 4 * Flip(k), 4))
      BY DEF ReadBy, ScaleAt, MinAt, GroupOf, InOrder, Layout
    <2>3. SeenBy(format, k) = Weight(Halves(48), Run(64 + 4 * (Flip(k \div 8)), 4), Run(192 + 4 * (Flip(k \div 8)), 4), Run(320 + 4 * Flip(k), 4))
      BY <1>2 DEF SeenBy, Halves, Seen41, CompactView, CompactScale, CompactMin
    <2> QED BY <2>1, <2>2, <2>3
  <1>3. CASE format = "hq51k"
    <2> DEFINE L == Layout(48, 64, 4, 8, TRUE, TRUE, 320, 5, FALSE)
    <2>1. LayoutOf(format) = L
      BY <1>3 DEF LayoutOf
    <2>2. ReadBy(L, k) = Weight(Halves(48), Run(64 + 4 * (Flip(k \div 8)), 4), Run(192 + 4 * (Flip(k \div 8)), 4), Run(320 + 5 * k, 5))
      BY DEF ReadBy, ScaleAt, MinAt, GroupOf, InOrder, Layout
    <2>3. SeenBy(format, k) = Weight(Halves(48), Run(64 + 4 * (Flip(k \div 8)), 4), Run(192 + 4 * (Flip(k \div 8)), 4), Run(320 + 5 * k, 5))
      BY <1>3 DEF SeenBy, Halves, Seen51, CompactView, CompactScale, CompactMin
    <2> QED BY <2>1, <2>2, <2>3
  <1>4. CASE format = "hq62k"
    <2> DEFINE L == Layout(48, 64, 8, 8, FALSE, TRUE, 576, 6, FALSE)
    <2>1. LayoutOf(format) = L
      BY <1>4 DEF LayoutOf
    <2>2. ReadBy(L, k) = Weight(Halves(48), Run(64 + 8 * (k \div 8), 8), Run(320 + 8 * (k \div 8), 8), Run(576 + 6 * k, 6))
      BY DEF ReadBy, ScaleAt, MinAt, GroupOf, InOrder, Layout
    <2>3. SeenBy(format, k) = Weight(Halves(48), Run(64 + 8 * (k \div 8), 8), Run(320 + 8 * (k \div 8), 8), Run(576 + 6 * k, 6))
      BY <1>4 DEF SeenBy, Halves, Seen62
    <2> QED BY <2>1, <2>2, <2>3
  <1>5. CASE format = "hq42k"
    <2> DEFINE L == Layout(16, 32, 5, 8, FALSE, FALSE, 192, 4, TRUE)
    <2>1. LayoutOf(format) = L
      BY <1>5 DEF LayoutOf
    <2>2. ReadBy(L, k) = Weight(Halves(16), Run(32 + 5 * (k \div 8), 5), <<>>, Run(192 + 4 * Flip(k), 4))
      BY DEF ReadBy, ScaleAt, MinAt, GroupOf, InOrder, Layout
    <2>3. SeenBy(format, k) = Weight(Halves(16), Run(32 + 5 * (k \div 8), 5), <<>>, Run(192 + 4 * Flip(k), 4))
      BY <1>5 DEF SeenBy, Halves, SeenSymmetric
    <2> QED BY <2>1, <2>2, <2>3
  <1>6. CASE format = "hq52k"
    <2> DEFINE L == Layout(16, 32, 5, 8, FALSE, FALSE, 192, 5, FALSE)
    <2>1. LayoutOf(format) = L
      BY <1>6 DEF LayoutOf
    <2>2. ReadBy(L, k) = Weight(Halves(16), Run(32 + 5 * (k \div 8), 5), <<>>, Run(192 + 5 * k, 5))
      BY DEF ReadBy, ScaleAt, MinAt, GroupOf, InOrder, Layout
    <2>3. SeenBy(format, k) = Weight(Halves(16), Run(32 + 5 * (k \div 8), 5), <<>>, Run(192 + 5 * k, 5))
      BY <1>6 DEF SeenBy, Halves, SeenSymmetric
    <2> QED BY <2>1, <2>2, <2>3
  <1>7. CASE format = "hq33k_g16"
    <2> DEFINE L == Layout(16, 16, 5, 16, FALSE, FALSE, 96, 3, FALSE)
    <2>1. LayoutOf(format) = L
      BY <1>7 DEF LayoutOf
    <2>2. ReadBy(L, k) = Weight(Halves(16), Run(16 + 5 * (k \div 16), 5), <<>>, Run(96 + 3 * k, 3))
      BY DEF ReadBy, ScaleAt, MinAt, GroupOf, InOrder, Layout
    <2>3. SeenBy(format, k) = Weight(Halves(16), Run(16 + 5 * (k \div 16), 5), <<>>, Run(96 + 3 * k, 3))
      BY <1>7 DEF SeenBy, Halves, SeenV3, V3Header
    <2> QED BY <2>1, <2>2, <2>3
  <1>8. CASE format = "hq33k_g32"
    <2> DEFINE L == Layout(16, 16, 5, 32, FALSE, FALSE, 64, 3, FALSE)
    <2>1. LayoutOf(format) = L
      BY <1>8 DEF LayoutOf
    <2>2. ReadBy(L, k) = Weight(Halves(16), Run(16 + 5 * (k \div 32), 5), <<>>, Run(64 + 3 * k, 3))
      BY DEF ReadBy, ScaleAt, MinAt, GroupOf, InOrder, Layout
    <2>3. SeenBy(format, k) = Weight(Halves(16), Run(16 + 5 * (k \div 32), 5), <<>>, Run(64 + 3 * k, 3))
      BY <1>8 DEF SeenBy, Halves, SeenV3, V3Header
    <2> QED BY <2>1, <2>2, <2>3
  <1>9. CASE format = "hq43k_g16"
    <2> DEFINE L == Layout(16, 16, 5, 16, FALSE, FALSE, 96, 4, TRUE)
    <2>1. LayoutOf(format) = L
      BY <1>9 DEF LayoutOf
    <2>2. ReadBy(L, k) = Weight(Halves(16), Run(16 + 5 * (k \div 16), 5), <<>>, Run(96 + 4 * Flip(k), 4))
      BY DEF ReadBy, ScaleAt, MinAt, GroupOf, InOrder, Layout
    <2>3. SeenBy(format, k) = Weight(Halves(16), Run(16 + 5 * (k \div 16), 5), <<>>, Run(96 + 4 * Flip(k), 4))
      BY <1>9 DEF SeenBy, Halves, SeenV3, V3Header
    <2> QED BY <2>1, <2>2, <2>3
  <1>10. CASE format = "hq43k_g32"
    <2> DEFINE L == Layout(16, 16, 5, 32, FALSE, FALSE, 64, 4, TRUE)
    <2>1. LayoutOf(format) = L
      BY <1>10 DEF LayoutOf
    <2>2. ReadBy(L, k) = Weight(Halves(16), Run(16 + 5 * (k \div 32), 5), <<>>, Run(64 + 4 * Flip(k), 4))
      BY DEF ReadBy, ScaleAt, MinAt, GroupOf, InOrder, Layout
    <2>3. SeenBy(format, k) = Weight(Halves(16), Run(16 + 5 * (k \div 32), 5), <<>>, Run(64 + 4 * Flip(k), 4))
      BY <1>10 DEF SeenBy, Halves, SeenV3, V3Header
    <2> QED BY <2>1, <2>2, <2>3
  <1>11. CASE format = "hq53k_g16"
    <2> DEFINE L == Layout(16, 16, 5, 16, FALSE, FALSE, 96, 5, FALSE)
    <2>1. LayoutOf(format) = L
      BY <1>11 DEF LayoutOf
    <2>2. ReadBy(L, k) = Weight(Halves(16), Run(16 + 5 * (k \div 16), 5), <<>>, Run(96 + 5 * k, 5))
      BY DEF ReadBy, ScaleAt, MinAt, GroupOf, InOrder, Layout
    <2>3. SeenBy(format, k) = Weight(Halves(16), Run(16 + 5 * (k \div 16), 5), <<>>, Run(96 + 5 * k, 5))
      BY <1>11 DEF SeenBy, Halves, SeenV3, V3Header
    <2> QED BY <2>1, <2>2, <2>3
  <1>12. CASE format = "hq53k_g32"
    <2> DEFINE L == Layout(16, 16, 5, 32, FALSE, FALSE, 64, 5, FALSE)
    <2>1. LayoutOf(format) = L
      BY <1>12 DEF LayoutOf
    <2>2. ReadBy(L, k) = Weight(Halves(16), Run(16 + 5 * (k \div 32), 5), <<>>, Run(64 + 5 * k, 5))
      BY DEF ReadBy, ScaleAt, MinAt, GroupOf, InOrder, Layout
    <2>3. SeenBy(format, k) = Weight(Halves(16), Run(16 + 5 * (k \div 32), 5), <<>>, Run(64 + 5 * k, 5))
      BY <1>12 DEF SeenBy, Halves, SeenV3, V3Header
    <2> QED BY <2>1, <2>2, <2>3
  <1>13. CASE format = "hq44k"
    <2> DEFINE L == Layout(32, 32, 5, 16, FALSE, TRUE, 192, 4, FALSE)
    <2>1. LayoutOf(format) = L
      BY <1>13 DEF LayoutOf
    <2>2. ReadBy(L, k) = Weight(Halves(32), Run(32 + 5 * (k \div 16), 5), Run(112 + 5 * (k \div 16), 5), Run(192 + 4 * k, 4))
      BY DEF ReadBy, ScaleAt, MinAt, GroupOf, InOrder, Layout
    <2>3. SeenBy(format, k) = Weight(Halves(32), Run(32 + 5 * (k \div 16), 5), Run(112 + 5 * (k \div 16), 5), Run(192 + 4 * k, 4))
      BY <1>13 DEF SeenBy, Halves, Seen44
    <2> QED BY <2>1, <2>2, <2>3
  <1>14. CASE format = "hq8k"
    <2> DEFINE L == Layout(16, 16, 8, 32, FALSE, FALSE, 128, 8, FALSE)
    <2>1. LayoutOf(format) = L
      BY <1>14 DEF LayoutOf
    <2>2. ReadBy(L, k) = Weight(Halves(16), Run(16 + 8 * (k \div 32), 8), <<>>, Run(128 + 8 * k, 8))
      BY DEF ReadBy, ScaleAt, MinAt, GroupOf, InOrder, Layout
    <2>3. SeenBy(format, k) = Weight(Halves(16), Run(16 + 8 * (k \div 32), 8), <<>>, Run(128 + 8 * k, 8))
      BY <1>14 DEF SeenBy, Halves, Seen8
    <2> QED BY <2>1, <2>2, <2>3
  <1> QED BY <1>1, <1>2, <1>3, <1>4, <1>5, <1>6, <1>7, <1>8, <1>9, <1>10, <1>11, <1>12, <1>13, <1>14 DEF Formats

LaidOut(V, L) ==
  /\ \A k \in 0 .. 255 : BaseBits(V[k]) = 0 .. L.base - 1
  /\ ScalesLaid(V, L.scales, L.width, L.group, L.swapped, L.two) /\ CodesLaid(V, L.codes, L.bits, L.flipped)

\* What the layout reads are its bits.
LEMMA ReadByLaid ==
  ASSUME NEW L, IsLayout(L), NEW V, \A k \in 0 .. 255 : V[k] = ReadBy(L, k)
  PROVE  LaidOut(V, L)
  <1> DEFINE w == L.width
             b == L.bits
             n == 256 \div L.group
             z == n * w
             s == L.scales
             t == s + z
             c == L.codes
  <1>1. w \in Nat /\ b \in Nat /\ s \in Nat /\ c \in Nat /\ n \in Nat /\ z \in Nat /\ t \in Nat
    <2>1. n \in {8, 16, 32} /\ w \in {4, 5, 8} /\ b \in Nat /\ s \in Nat /\ c \in Nat
      BY DEF IsLayout
    <2> HIDE DEF n, w, b, s, c
    <2>2. z \in Nat
      BY <2>1
    <2> HIDE DEF z
    <2> QED BY <2>1, <2>2
  <1>2. ASSUME NEW a \in Nat, NEW d \in Nat, NEW q \in Nat PROVE BitsOf(Run(a + d * q, d)) = Stretch(a, d, q)
    <2> DEFINE e == a + d * q
    <2>1. e \in Int
      <3>1. \A x \in Nat, y \in Nat : x * y \in Nat
        OBVIOUS
      <3> DEFINE f == d * q
      <3>2. f \in Nat
        BY <3>1
      <3> HIDE DEF f
      <3>3. a + f \in Int
        BY <3>2
      <3> QED BY <3>3 DEF f
    <2>2. Stretch(a, d, q) = e .. e + d - 1
      BY DEF Stretch
    <2> HIDE DEF e
    <2>3. BitsOf(Run(e, d)) = e .. e + d - 1
      BY ONLY <2>1, d \in Nat, BitsOfRun
    <2> QED BY ONLY <2>2, <2>3 DEF e
  <1>3. BitsOf(<<>>) = {}
    BY DEF BitsOf
  <1> SUFFICES ASSUME NEW k \in 0 .. 255
               PROVE  /\ BaseBits(V[k]) = 0 .. L.base - 1
                      /\ GroupBits(V[k]) = ScaleBits(L.scales, L.width, L.group, L.swapped, L.two, k)
                      /\ Bits(V[k]) = Stretch(L.codes, L.bits, InOrder(k, L.flipped))
    BY Zenon DEF LaidOut, ScalesLaid, CodesLaid
  <1> DEFINE g == GroupOf(k, L.group, L.swapped)
             i == InOrder(k, L.flipped)
             base == Halves(L.base)
             scale == Run(s + w * g, w)
             min == IF L.two THEN Run(t + w * g, w) ELSE <<>>
             code == Run(c + b * i, b)
  <1>4. V[k] = Weight(base, scale, min, code)
    BY DEF ReadBy, ScaleAt, MinAt
  <1>5. g \in Nat /\ i \in Nat
    <2>1. Grouped(L.group, L.swapped)
      <3>1. L.group \in {8, 16, 32} /\ L.swapped \in BOOLEAN
        BY DEF IsLayout
      <3> QED BY ONLY <3>1, GroupsAre
    <2>2. g \in 0 .. (256 \div L.group) - 1
      BY ONLY <2>1, k \in 0 .. 255 DEF Grouped
    <2>3. i \in 0 .. 255
      <3>1. Flip(k) \in 0 .. 255
        BY LaneOf
      <3> QED BY ONLY <3>1, k \in 0 .. 255 DEF InOrder
    <2> QED BY <2>2, <2>3
  <1>6. ScaleBits(L.scales, L.width, L.group, L.swapped, L.two, k) = Stretch(s, w, g) \cup (IF L.two THEN Stretch(t, w, g) ELSE {})
    BY ONLY TRUE DEF ScaleBits
  <1>7. L.base \in {16, 32, 48}
    BY DEF IsLayout
  <1> HIDE DEF w, b, n, z, s, t, c, g, i
  <1>8. BitsOf(scale) = Stretch(s, w, g) /\ BitsOf(code) = Stretch(c, b, i) /\ BitsOf(Run(t + w * g, w)) = Stretch(t, w, g)
    BY ONLY <1>1, <1>2, <1>5
  <1>9. BitsOf(min) = IF L.two THEN Stretch(t, w, g) ELSE {}
    BY ONLY <1>3, <1>8
  <1>10. Bits(V[k]) = BitsOf(code) /\ GroupBits(V[k]) = BitsOf(scale) \cup BitsOf(min)
    BY ONLY <1>4, FactorsAre
  <1>11. BaseBits(V[k]) = 0 .. L.base - 1
    <2> HIDE DEF scale, min, code
    <2>1. CASE L.base = 16
      <3>1. base = <<Run(0, 16)>>
        BY ONLY <2>1 DEF Halves, OneHalf
      <3>2. BaseBits(Weight(base, scale, min, code)) = 0 .. 15
        BY ONLY <3>1, FactorsAre
      <3> QED BY ONLY <1>4, <2>1, <3>2
    <2>2. CASE L.base = 32
      <3>1. base = <<Run(0, 16), Run(16, 16)>>
        BY ONLY <2>2 DEF Halves, TwoHalves
      <3>2. BaseBits(Weight(base, scale, min, code)) = 0 .. 31
        BY ONLY <3>1, FactorsAre
      <3> QED BY ONLY <1>4, <2>2, <3>2
    <2>3. CASE L.base = 48
      <3>1. base = <<Run(0, 16), Run(16, 16), Run(32, 16)>>
        BY ONLY <2>3 DEF Halves, ThreeHalves
      <3>2. BaseBits(Weight(base, scale, min, code)) = 0 .. 47
        BY ONLY <3>1, FactorsAre
      <3> QED BY ONLY <1>4, <2>3, <3>2
    <2> QED BY ONLY <1>7, <2>1, <2>2, <2>3
  <1>12. GroupBits(V[k]) = ScaleBits(L.scales, L.width, L.group, L.swapped, L.two, k)
    BY ONLY <1>6, <1>8, <1>9, <1>10
  <1>13. Bits(V[k]) = Stretch(L.codes, L.bits, InOrder(k, L.flipped))
    BY ONLY <1>8, <1>10 DEF c, b, i
  <1> QED BY ONLY <1>11, <1>12, <1>13

\* Readers that see one block laid out so agree.
LEMMA LaidOutAgree ==
  ASSUME NEW format, NEW views, NEW V, NEW L, IsLayout(L), FitsBlock(L, format), LaidOut(V, L),
         \A k \in 0 .. 255 : views[k] = {V[k]}
  PROVE  ReadersAgree(format, views)
  <1> DEFINE nb == L.base
             s == L.scales
             w == L.width
             G == L.group
             swapped == L.swapped
             two == L.two
             c == L.codes
             bits == L.bits
             flipped == L.flipped
             z == 8 * Blocks[format][1]
             m == AllOf(w, G, two)
             n == 256 * bits
  <1>0. /\ nb \in Nat /\ s \in Nat /\ w \in {4, 5, 8} /\ G \in {8, 16, 32} /\ swapped \in BOOLEAN /\ two \in BOOLEAN
        /\ c \in Nat /\ bits \in Nat \ {0} /\ flipped \in BOOLEAN /\ z \in Nat
    BY ONLY IsLayout(L), FitsBlock(L, format) DEF IsLayout, FitsBlock
  <1>12. /\ Blocks[format][2] = G /\ Blocks[format][3] = bits /\ 8 * Blocks[format][1] = z
         /\ nb <= s /\ s + AllOf(w, G, two) <= c /\ c + 256 * bits <= z
    BY ONLY FitsBlock(L, format) DEF FitsBlock
  <1>13. (\A k \in 0 .. 255 : BaseBits(V[k]) = 0 .. nb - 1) /\ ScalesLaid(V, s, w, G, swapped, two) /\ CodesLaid(V, c, bits, flipped)
    BY ONLY LaidOut(V, L) DEF LaidOut
  <1> HIDE DEF nb, s, w, G, swapped, two, c, bits, flipped, z
  <1>1. m \in Nat
    <2>1. (256 \div G) \in {8, 16, 32}
      BY <1>0
    <2> QED BY <1>0, <2>1 DEF AllOf
  <1>2. n \in Nat /\ 256 * Blocks[format][3] = n
    BY <1>0, <1>12
  <1>3. CodesLaid(V, c, bits, flipped)
    BY ONLY <1>13
  <1>4. ScalesLaid(V, s, w, G, swapped, two)
    BY ONLY <1>13
  <1>10. \A k \in 0 .. 255 : GroupBits(V[k]) = ScaleBits(s, w, G, swapped, two, k)
    BY ONLY <1>4 DEF ScalesLaid
  <1>5. AllCodes(V) = c .. c + n - 1
    BY ONLY <1>0, <1>3, CodesFill
  <1>6. AllScales(V) = s .. s + m - 1
    BY ONLY <1>0, <1>4, ScalesFill
  <1>7. GroupsTimes(G, Cardinality(GroupBits(V[0]))) = m
    <2> DEFINE o == 0
    <2>1. o \in 0 .. 255
      OBVIOUS
    <2>4. \A k \in 0 .. 255 : ScaleTakes(s, w, G, swapped, two, k)
      <3>1. Widths(s, w, G, swapped, two)
        BY ONLY <1>0 DEF Widths
      <3> QED BY ONLY <3>1, ScaleBitsCount
    <2> HIDE DEF o
    <2>2. ScaleTakes(s, w, G, swapped, two, o)
      BY ONLY <2>1, <2>4
    <2>3. GroupBits(V[o]) = ScaleBits(s, w, G, swapped, two, o)
      BY <1>10, <2>1
    <2> QED BY ONLY <2>2, <2>3 DEF o, ScaleTakes
  <1>8. SeenAs(views, V, G, nb)
    <2>1. Grouped(G, swapped)
      BY ONLY <1>0, GroupsAre
    <2> SUFFICES ASSUME NEW k \in 0 .. 255
                 PROVE  /\ views[k] = {V[k]} /\ BaseBits(V[k]) = 0 .. nb - 1
                        /\ GroupBits(V[k]) = GroupBits(V[FirstOf(k, G)]) /\ FirstOf(k, G) \in 0 .. 255
      BY DEF SeenAs
    <2>2. FirstOf(k, G) \in 0 .. 255 /\ GroupOf(FirstOf(k, G), G, swapped) = GroupOf(k, G, swapped)
      BY ONLY <2>1, k \in 0 .. 255 DEF Grouped
    <2>3. ScaleBits(s, w, G, swapped, two, k) = ScaleBits(s, w, G, swapped, two, FirstOf(k, G))
      BY ONLY <2>2 DEF ScaleBits
    <2>4. GroupBits(V[k]) = GroupBits(V[FirstOf(k, G)])
      BY ONLY <1>10, <2>2, <2>3, k \in 0 .. 255
    <2>5. views[k] = {V[k]} /\ BaseBits(V[k]) = 0 .. nb - 1
      BY ONLY <1>13, k \in 0 .. 255, \A e \in 0 .. 255 : views[e] = {V[e]}
    <2> QED BY ONLY <2>2, <2>4, <2>5
  <1>9. nb <= s /\ s + m <= c /\ c + n <= z /\ Blocks[format][2] = G /\ 8 * Blocks[format][1] = z
    BY ONLY <1>12
  <1> HIDE DEF m, n
  <1>11. Fits(format, V, G, nb, s, m, c, n, z)
    BY ONLY <1>2, <1>5, <1>6, <1>7, <1>9 DEF Fits
  <1> QED BY ONLY <1>0, <1>1, <1>2, <1>8, <1>11, AgreeBy

\* The readers of every format agree.
LEMMA FormatsAgree ==
  ASSUME NEW format \in Formats
  PROVE  ReadersAgree(format, [k \in 0 .. 255 |-> Readers(format, k)])
  <1> DEFINE views == [k \in 0 .. 255 |-> Readers(format, k)]
             V == [k \in 0 .. 255 |-> SeenBy(format, k)]
             L == LayoutOf(format)
  <1>1. \A k \in 0 .. 255 : Readers(format, k) = {SeenBy(format, k)} /\ SeenBy(format, k) = ReadBy(L, k)
    BY ReadersSee, ReadByLayout
  <1>2. IsLayout(L) /\ FitsBlock(L, format)
    BY LayoutsFit
  <1> HIDE DEF L
  <1>3. \A k \in 0 .. 255 : views[k] = {V[k]} /\ V[k] = ReadBy(L, k)
    BY ONLY <1>1
  <1> HIDE DEF views, V
  <1>4. LaidOut(V, L)
    BY ONLY <1>2, <1>3, ReadByLaid
  <1>5. ReadersAgree(format, views)
    BY ONLY <1>2, <1>3, <1>4, LaidOutAgree
  <1> QED BY ONLY <1>5 DEF views

\* What was answered is as it should be, whichever request it was.
LEMMA ServedExactly ==
  ASSUME NEW d \in Devices, NEW r \in Requests, ServeProduct(d, r)
  PROVE  ProductIsExact'
  <1>1. SumsEachWeightOnce' /\ VariantsAgree'
    <2>1. ProductSums'
      BY ServedSums
    <2> QED BY <2>1 DEF ProductSums
  <1>2. ReadersSeeTheSame'
    <2>1. CASE DecodeBlock(r)
      <3>1. r.k = "decode" /\ asked' = [k |-> "decode", r |-> r, v |-> 0] /\ out' = [w \in 0 .. 255 |-> Readers(r.f, w)]
        BY <2>1 DEF DecodeBlock
      <3>2. r.f \in Formats
        BY <3>1, ProductsAssumption DEF ProductAssumption, ExpertsAssumption
      <3>3. ReadersAgree(r.f, out')
        BY <3>1, <3>2, FormatsAgree
      <3>4. asked'.r.f = r.f
        BY <3>1
      <3> QED BY <3>3, <3>4 DEF ReadersSeeTheSame
    <2>2. CASE ~DecodeBlock(r)
      <3>1. asked'.k # "decode"
        BY <2>2 DEF ServeProduct, Multiply, MultiplyDequantized, MultiplyExperts, Served
      <3> QED BY <3>1 DEF ReadersSeeTheSame
    <2> QED BY <2>1, <2>2
  <1> QED BY <1>1, <1>2 DEF ProductIsExact

\* Nothing is asked at first, and after a restart.
LEMMA NothingAsked ==
  ASSUME NoRequest = asked
  PROVE  ProductIsExact
  <1>1. asked.k = "none"
    BY DEF NoRequest
  <1> QED BY <1>1 DEF ProductIsExact, SumsEachWeightOnce, ReadersSeeTheSame, VariantsAgree

(* Whatever is asked of the products, they add each weight of a row once and  *)
(* with its own element, all the readers of a format see the same weights and, *)
(* where the formats promise it, a tuned variant changes the speed alone.      *)
THEOREM ProductsAreExact == ProductsSpec => []ProductIsExact
  <1>1. ProductsInit => ProductIsExact
    BY NothingAsked DEF ProductsInit
  <1>2. ASSUME ProductIsExact, [ProductsNext]_products PROVE ProductIsExact'
    <2>1. CASE \E d \in Devices, r \in Requests : ServeProduct(d, r)
      BY <2>1, ServedExactly
    <2>2. CASE \E nocache, removed \in BOOLEAN : Restart(nocache, removed)
      <3>1. asked' = NoRequest
        BY <2>2 DEF Restart
      <3>2. asked'.k = "none"
        BY <3>1 DEF NoRequest
      <3> QED BY <3>2 DEF ProductIsExact, SumsEachWeightOnce, ReadersSeeTheSame, VariantsAgree
    <2>3. CASE UNCHANGED products
      BY <1>2, <2>3 DEF products, ProductIsExact, SumsEachWeightOnce, ReadersSeeTheSame, VariantsAgree
    <2> QED BY <1>2, <2>1, <2>2, <2>3 DEF ProductsNext
  <1> QED BY <1>1, <1>2, PTL DEF ProductsSpec
=============================================================================
