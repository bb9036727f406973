-------------------------- MODULE Downloader_proof --------------------------
(***************************************************************************)
(* What the exit code of the downloader promises, for every image.         *)
(***************************************************************************)
EXTENDS Downloader, TLAPS

Shape ==
  /\ layers \in Seq(Seq(Entries))
  /\ \A l \in 1..Len(layers) : Len(layers[l]) <= MaxEntries
  /\ artifact \in {"context", "image"}
  /\ artifact = "image" => layers = <<>>

Position ==
  /\ layer \in 1..(Len(layers) + 1)
  /\ entry \in Nat \ {0}
  /\ layer <= Len(layers) => entry <= Len(layers[layer]) + 1
  /\ layer > Len(layers) => entry = 1
  /\ failed \subseteq 1..(layer - 1)

Kinds == {"absent", "dir", "file"}

DiskOK ==
  /\ disk \in [Paths -> [kind : Kinds, bytes : Seq(1..Len(layers))]]
  /\ \A p \in Paths :
       /\ Len(disk[p].bytes) <= MaxSize
       /\ disk[p].kind = "file" \/ disk[p] \in {Absent, Directory}
       /\ disk[p] # Absent => \A q \in Above[p] : disk[q] = Directory

Phases ==
  /\ phase \in {"resolve", "list", "unpack", "save", "chalk", "done"}
  /\ exit \in {"none", "ok", "error"} /\ (exit = "none" <=> phase # "done")
  /\ {tarball, chalk} \subseteq {"absent", "partial", "whole"}
  /\ phase \in {"list", "unpack"} => artifact = "context"
  /\ phase \in {"save", "chalk"} => artifact = "image"
  /\ phase = "chalk" => tarball = "whole"

\* Entry i of layer l has been written, or given up.
Processed(l, i) == l < layer \/ (l = layer /\ i < entry)

Later(k, j, l, i) == k > l \/ (k = l /\ j > i)

\* No file has been written at the path since.
OnTop(l, i) ==
  \A k \in 1..Len(layers) : \A j \in 1..Len(layers[k]) :
    Processed(k, j) /\ Later(k, j, l, i) => ~FileAt(layers[l][i].path, k, j)

Begins(bytes, l, i) ==
  Len(bytes) >= layers[l][i].size /\ \A b \in 1..layers[l][i].size : bytes[b] = l

(***************************************************************************)
(* As long as no layer failed, every file before the current entry has its *)
(* own bytes unless it was written over.                                   *)
(***************************************************************************)
Complete ==
  failed = {} =>
    \A l \in 1..Len(layers) : \A i \in 1..Len(layers[l]) :
      Processed(l, i) /\ layers[l][i].kind = "file" /\ OnTop(l, i) =>
        Begins(disk[layers[l][i].path].bytes, l, i)

\* HasFile and HasDir of the entries before the current one.
FileSoFar(p) ==
  \E l \in 1..Len(layers) : \E i \in 1..Len(layers[l]) : Processed(l, i) /\ FileAt(p, l, i)
DirSoFar(p) ==
  \E l \in 1..Len(layers) : \E i \in 1..Len(layers[l]) : Processed(l, i) /\ DirAt(p, l, i)

(***************************************************************************)
(* As long as no layer failed, the disk is the tree of the entries so far: *)
(* a file where there was a file entry, something wherever there was an    *)
(* entry that makes a file or a directory, and nothing else.               *)
(***************************************************************************)
Tree ==
  failed = {} =>
    \A p \in Paths :
      /\ disk[p].kind = "file" <=> FileSoFar(p)
      /\ disk[p].kind # "absent" <=> FileSoFar(p) \/ DirSoFar(p)

Ended ==
  exit = "ok" => failed = {} /\ layer > Len(layers) /\ (artifact = "image" => tarball = "whole")

IInv == Shape /\ Position /\ DiskOK /\ Phases /\ Complete /\ Tree /\ Ended

LEMMA ListType ==
  ASSUME NEW S, NEW n \in Nat, NEW s \in Lists(S, n)
  PROVE  s \in Seq(S) /\ Len(s) <= n
<1>1. PICK m \in 0..n : s \in [1..m -> S]
  BY DEF Lists
<1> QED
  BY <1>1

LEMMA InitHolds == Init => IInv
<1> SUFFICES ASSUME Init PROVE IInv
  OBVIOUS
<1> USE DownloaderAssumption DEF DownloaderAssumption
<1> DEFINE empty == <<>>
<1>1. empty \in Seq(Seq(Entries)) /\ Len(empty) = 0 /\ empty \in Seq(1..Len(layers))
  OBVIOUS
<1>2. Shape
  <2>1. CASE artifact = "context" /\ layers \in Lists(Layers, MaxLayers)
    <3>1. \A s \in Layers : s \in Seq(Entries) /\ Len(s) <= MaxEntries
      BY ListType DEF Layers
    <3>2. layers \in Seq(Layers)
      BY <2>1, ListType
    <3>3. layers \in Seq(Seq(Entries))
      BY <3>1, <3>2
    <3>4. \A l \in 1..Len(layers) : layers[l] \in Layers
      BY <3>2
    <3> QED
      BY <2>1, <3>1, <3>3, <3>4 DEF Shape
  <2>2. CASE artifact = "image" /\ layers = <<>>
    BY <1>1, <2>2 DEF Shape
  <2> QED
    BY <2>1, <2>2 DEF Init
<1>3. Len(layers) \in Nat /\ \A l \in 1..Len(layers) : Len(layers[l]) \in Nat
  BY <1>2 DEF Shape
<1>4. Position
  BY <1>3 DEF Init, Position
<1>5. DiskOK
  <2>1. disk = [p \in Paths |-> [kind |-> "absent", bytes |-> empty]]
    BY DEF Init, Absent
  <2> HIDE DEF empty
  <2>2. disk \in [Paths -> [kind : Kinds, bytes : Seq(1..Len(layers))]]
    BY <1>1, <2>1 DEF Kinds
  <2>3. \A p \in Paths : disk[p] = Absent /\ disk[p].bytes = empty
    BY <2>1 DEF Absent, empty
  <2> QED
    BY <1>1, <2>2, <2>3 DEF DiskOK
<1>6. Phases /\ Ended
  BY DEF Init, Phases, Ended
<1>7. \A l \in 1..Len(layers) : \A i \in 1..Len(layers[l]) : ~Processed(l, i)
  BY <1>3 DEF Init, Processed
<1>8. Complete
  BY <1>7 DEF Complete
<1>9. Tree
  <2>1. \A p \in Paths : disk[p].kind = "absent"
    BY DEF Init, Absent
  <2>2. \A p \in Paths : ~FileSoFar(p) /\ ~DirSoFar(p)
    BY <1>7 DEF FileSoFar, DirSoFar
  <2> QED
    BY <2>1, <2>2 DEF Tree
<1> QED
  BY <1>2, <1>4, <1>5, <1>6, <1>8, <1>9 DEF IInv

\* What is written of a file: the new bytes, then what was longer.
LEMMA OverwriteType ==
  ASSUME NEW S, NEW old \in Seq(S), NEW new \in Seq(S), NEW n \in Nat,
         Len(old) <= n, Len(new) <= n
  PROVE  /\ Overwrite(old, new) \in Seq(S)
         /\ Len(Overwrite(old, new)) <= n
         /\ Len(Overwrite(old, new)) >= Len(new)
         /\ \A b \in 1..Len(new) : Overwrite(old, new)[b] = new[b]
<1> DEFINE m == Longer(Len(old), Len(new))
<1>1. m \in Nat /\ m >= Len(old) /\ m >= Len(new) /\ m <= n /\ (m = Len(old) \/ m = Len(new))
  BY DEF Longer
<1>2. \A b \in 1..m : (IF b <= Len(new) THEN new[b] ELSE old[b]) \in S
  BY <1>1
<1>3. Overwrite(old, new) = [b \in 1..m |-> IF b <= Len(new) THEN new[b] ELSE old[b]]
  BY DEF Overwrite
<1> HIDE DEF m
<1>4. Overwrite(old, new) \in [1..m -> S]
  BY <1>2, <1>3
<1>5. Overwrite(old, new) \in Seq(S) /\ Len(Overwrite(old, new)) = m
  BY <1>1, <1>4
<1>6. \A b \in 1..Len(new) : Overwrite(old, new)[b] = new[b]
  BY <1>1, <1>3
<1> QED
  BY <1>1, <1>5, <1>6

\* What is at a path tells its kind.
LEMMA KindOf ==
  ASSUME DiskOK, NEW p \in Paths
  PROVE  /\ disk[p].kind = "absent" <=> disk[p] = Absent
         /\ disk[p].kind = "dir" <=> disk[p] = Directory
         /\ disk[p].kind \in Kinds
<1>1. disk[p].kind \in Kinds
  BY DEF DiskOK
<1>2. Absent.kind = "absent" /\ Directory.kind = "dir"
  BY DEF Absent, Directory
<1>3. disk[p].kind = "file" \/ disk[p] = Absent \/ disk[p] = Directory
  BY DEF DiskOK
<1> QED
  BY <1>1, <1>2, <1>3

\* A path that can be reached gets its directories; nothing else changes.
LEMMA MkdirKeeps ==
  ASSUME DiskOK, UNCHANGED layers, NEW p \in Paths, Reachable(p), disk' = MkdirAll(p)
  PROVE  /\ DiskOK'
         /\ \A q \in Paths :
              /\ disk'[q].bytes = disk[q].bytes
              /\ disk'[q].kind = "file" <=> disk[q].kind = "file"
              /\ disk'[q].kind # "absent" <=> disk[q].kind # "absent" \/ q \in Above[p] \union {p}
<1> DEFINE made(q) == q \in Above[p] \union {p} /\ disk[q] = Absent
           empty == <<>>
<1>1. /\ Absent.kind = "absent" /\ Absent.bytes = <<>>
      /\ Directory.kind = "dir" /\ Directory.bytes = <<>> /\ Directory # Absent
  BY DEF Absent, Directory
<1>2. \A q \in Paths : disk'[q] = IF made(q) THEN Directory ELSE disk[q]
  BY DEF MkdirAll
<1>3. Directory \in [kind : Kinds, bytes : Seq(1..Len(layers))]
  <2>1. empty \in Seq(1..Len(layers))
    OBVIOUS
  <2>2. Directory = [kind |-> "dir", bytes |-> empty]
    BY DEF Directory
  <2> HIDE DEF empty
  <2> QED
    BY <2>1, <2>2 DEF Kinds
<1>4. \A q \in Paths : disk[q] \in [kind : Kinds, bytes : Seq(1..Len(layers))]
  BY DEF DiskOK
<1>5. disk' \in [Paths -> [kind : Kinds, bytes : Seq(1..Len(layers))]]
  <2>1. disk' = [q \in Paths |-> IF made(q) THEN Directory ELSE disk[q]]
    BY DEF MkdirAll
  <2> HIDE DEF made
  <2> QED
    BY <1>3, <1>4, <2>1
<1>6. \A q \in Paths :
        /\ disk'[q].bytes = disk[q].bytes
        /\ disk'[q].kind = "file" <=> disk[q].kind = "file"
        /\ disk'[q].kind = "file" \/ disk'[q] \in {Absent, Directory}
        /\ Len(disk'[q].bytes) <= MaxSize
  BY <1>1, <1>2 DEF DiskOK
<1>7. \A q \in Paths : disk'[q].kind # "absent" <=> disk[q].kind # "absent" \/ q \in Above[p] \union {p}
  BY <1>1, <1>2, KindOf
<1>8. ASSUME NEW q \in Paths, disk'[q] # Absent, NEW a \in Above[q]
      PROVE  disk'[a] = Directory
  <2>1. Above[q] \subseteq Paths /\ Above[p] \subseteq Paths
    BY DownloaderAssumption DEF DownloaderAssumption
  <2>2. a \in Paths
    BY <2>1
  <2>3. CASE made(q)
    <3>1. a \in Above[p]
      BY <1>8, <2>3, DownloaderAssumption DEF DownloaderAssumption
    <3>2. disk[a].kind # "file"
      BY <3>1 DEF Reachable
    <3>3. disk[a] \in {Absent, Directory}
      BY <2>2, <3>2 DEF DiskOK
    <3> QED
      BY <1>2, <2>2, <3>1, <3>3
  <2>4. CASE ~made(q)
    <3>1. disk[q] # Absent
      BY <1>2, <1>8, <2>4
    <3>2. disk[a] = Directory
      BY <1>8, <3>1 DEF DiskOK
    <3> QED
      BY <1>1, <1>2, <2>2, <3>2
  <2> QED
    BY <2>3, <2>4
<1> HIDE DEF made
<1> QED
  BY <1>5, <1>6, <1>7, <1>8 DEF DiskOK

\* A file is given new contents where its directories are.
LEMMA PutKeeps ==
  ASSUME DiskOK, UNCHANGED layers, NEW p \in Paths, CanCreate(p),
         NEW bytes \in Seq(1..Len(layers)), Len(bytes) <= MaxSize,
         disk' = [disk EXCEPT ![p] = File(bytes)]
  PROVE  /\ DiskOK'
         /\ disk'[p].kind = "file" /\ disk'[p].bytes = bytes
         /\ \A q \in Paths \ {p} : disk'[q] = disk[q]
<1>1. File(bytes) \in [kind : Kinds, bytes : Seq(1..Len(layers))]
  BY DEF File, Kinds
<1>2. disk' \in [Paths -> [kind : Kinds, bytes : Seq(1..Len(layers))]]
  BY <1>1 DEF DiskOK
<1>3. disk'[p] = File(bytes) /\ \A q \in Paths \ {p} : disk'[q] = disk[q]
  BY DEF DiskOK
<1>4. File(bytes).kind = "file" /\ File(bytes).bytes = bytes
  BY DEF File
<1>5. \A q \in Paths : /\ Len(disk'[q].bytes) <= MaxSize
                       /\ disk'[q].kind = "file" \/ disk'[q] \in {Absent, Directory}
  BY <1>3, <1>4 DEF DiskOK
<1>6. ASSUME NEW q \in Paths, disk'[q] # Absent, NEW a \in Above[q]
      PROVE  disk'[a] = Directory
  <2>1. a \in Paths /\ (q = p => a # p)
    BY DownloaderAssumption DEF DownloaderAssumption
  <2>2. disk[a] = Directory
    <3>1. CASE q = p
      BY <1>6, <2>1, <3>1, KindOf DEF CanCreate
    <3>2. CASE q # p
      BY <1>3, <1>6, <3>2 DEF DiskOK
    <3> QED
      BY <3>1, <3>2
  <2>3. a # p
    BY <2>1, <2>2 DEF CanCreate, Directory
  <2> QED
    BY <1>3, <2>1, <2>2, <2>3
<1> QED
  BY <1>2, <1>3, <1>4, <1>5, <1>6 DEF DiskOK

LEMMA EntryType ==
  ASSUME Shape, NEW l \in 1..Len(layers), NEW i \in 1..Len(layers[l])
  PROVE  /\ layers[l][i].path \in Paths
         /\ layers[l][i].size \in 0..MaxSize
<1>1. layers[l] \in Seq(Entries)
  BY DEF Shape
<1>2. layers[l][i] \in Entries
  BY <1>1
<1> QED
  BY <1>2, DownloaderAssumption DEF Entries, DownloaderAssumption

LEMMA CurrentType ==
  ASSUME IInv, More
  PROVE  /\ layer \in 1..Len(layers) /\ Len(layers) \in Nat
         /\ entry \in 1..Len(layers[layer]) /\ Len(layers[layer]) \in Nat
         /\ Current.path \in Paths
         /\ Current.size \in 0..MaxSize
<1>1. layers \in Seq(Seq(Entries)) /\ layer \in DOMAIN layers /\ entry \in DOMAIN layers[layer]
  BY DEF IInv, Shape, More, Unpacking
<1>2. layer \in 1..Len(layers) /\ Len(layers) \in Nat /\ layers[layer] \in Seq(Entries)
  BY <1>1
<1>3. entry \in 1..Len(layers[layer]) /\ Len(layers[layer]) \in Nat
  BY <1>1, <1>2
<1> QED
  BY <1>2, <1>3, EntryType DEF Current, IInv

\* The next entry is done: exactly the current one joins those before it.
LEMMA EntryDone ==
  ASSUME IInv, More, NextEntry, UNCHANGED <<target, phase, tarball, chalk, failed, exit>>
  PROVE  /\ Shape' /\ Position' /\ Phases' /\ Ended'
         /\ \A l \in 1..Len(layers) : \A i \in 1..Len(layers[l]) :
              Processed(l, i)' <=> Processed(l, i) \/ (l = layer /\ i = entry)
         /\ \A p \in Paths : FileSoFar(p)' <=> FileSoFar(p) \/ FileAt(p, layer, entry)
         /\ \A p \in Paths : DirSoFar(p)' <=> DirSoFar(p) \/ DirAt(p, layer, entry)
<1>1. /\ layer \in 1..Len(layers) /\ Len(layers) \in Nat
      /\ entry \in 1..Len(layers[layer]) /\ Len(layers[layer]) \in Nat
  BY CurrentType
<1>2. UNCHANGED <<layers, artifact, phase, tarball, chalk, failed, exit, layer>> /\ entry' = entry + 1
  BY DEF target, NextEntry
<1>3. Position'
  BY <1>1, <1>2 DEF IInv, Position
<1>4. Shape' /\ Phases' /\ Ended'
  BY <1>2 DEF IInv, Shape, Phases, Ended
<1>5. \A l \in 1..Len(layers) : \A i \in 1..Len(layers[l]) :
        Processed(l, i)' <=> Processed(l, i) \/ (l = layer /\ i = entry)
  <2> SUFFICES ASSUME NEW l \in 1..Len(layers), NEW i \in 1..Len(layers[l])
               PROVE  (l < layer \/ (l = layer /\ i < entry + 1))
                        <=> (l < layer \/ (l = layer /\ i < entry)) \/ (l = layer /\ i = entry)
    BY <1>2 DEF Processed
  <2>1. i \in Nat /\ entry \in Nat
    BY <1>1
  <2> QED
    BY <2>1
<1>6. \A p \in Paths : FileSoFar(p)' <=> FileSoFar(p) \/ FileAt(p, layer, entry)
  <2> SUFFICES ASSUME NEW p \in Paths
               PROVE  (\E l \in 1..Len(layers) : \E i \in 1..Len(layers[l]) :
                         Processed(l, i)' /\ FileAt(p, l, i))
                        <=> FileSoFar(p) \/ FileAt(p, layer, entry)
    BY <1>2 DEF FileSoFar, FileAt
  <2>1. ASSUME NEW l \in 1..Len(layers), NEW i \in 1..Len(layers[l]), Processed(l, i)', FileAt(p, l, i)
        PROVE  FileSoFar(p) \/ FileAt(p, layer, entry)
    <3>1. CASE Processed(l, i)
      BY <2>1, <3>1 DEF FileSoFar
    <3>2. CASE l = layer /\ i = entry
      BY <2>1, <3>2
    <3> QED
      BY <1>5, <2>1, <3>1, <3>2
  <2>2. ASSUME NEW l \in 1..Len(layers), NEW i \in 1..Len(layers[l]), Processed(l, i), FileAt(p, l, i)
        PROVE  Processed(l, i)'
    BY <1>5, <2>2
  <2>3. \E l \in 1..Len(layers) : \E i \in 1..Len(layers[l]) :
          l = layer /\ i = entry /\ Processed(l, i)'
    BY <1>1, <1>5
  <2> QED
    BY <1>1, <2>1, <2>2, <2>3 DEF FileSoFar
<1>7. \A p \in Paths : DirSoFar(p)' <=> DirSoFar(p) \/ DirAt(p, layer, entry)
  <2> SUFFICES ASSUME NEW p \in Paths
               PROVE  (\E l \in 1..Len(layers) : \E i \in 1..Len(layers[l]) :
                         Processed(l, i)' /\ DirAt(p, l, i))
                        <=> DirSoFar(p) \/ DirAt(p, layer, entry)
    BY <1>2 DEF DirSoFar, DirAt
  <2>1. ASSUME NEW l \in 1..Len(layers), NEW i \in 1..Len(layers[l]), Processed(l, i)', DirAt(p, l, i)
        PROVE  DirSoFar(p) \/ DirAt(p, layer, entry)
    <3>1. CASE Processed(l, i)
      BY <2>1, <3>1 DEF DirSoFar
    <3>2. CASE l = layer /\ i = entry
      BY <2>1, <3>2
    <3> QED
      BY <1>5, <2>1, <3>1, <3>2
  <2>2. ASSUME NEW l \in 1..Len(layers), NEW i \in 1..Len(layers[l]), Processed(l, i), DirAt(p, l, i)
        PROVE  Processed(l, i)'
    BY <1>5, <2>2
  <2>3. \E l \in 1..Len(layers) : \E i \in 1..Len(layers[l]) :
          l = layer /\ i = entry /\ Processed(l, i)'
    BY <1>1, <1>5
  <2> QED
    BY <1>1, <2>1, <2>2, <2>3 DEF DirSoFar
<1> QED
  BY <1>3, <1>4, <1>5, <1>6, <1>7

\* The next entry changes no bytes, or it is a file that gets its own.
LEMMA BytesKept ==
  ASSUME IInv, More, NextEntry, UNCHANGED <<target, phase, tarball, chalk, failed, exit>>,
         \A p \in Paths : FileAt(p, layer, entry) \/ disk'[p].bytes = disk[p].bytes,
         Current.kind = "file" => Begins(disk'[Current.path].bytes, layer, entry)
  PROVE  Complete'
<1>1. /\ layer \in 1..Len(layers) /\ Len(layers) \in Nat
      /\ entry \in 1..Len(layers[layer]) /\ Len(layers[layer]) \in Nat
  BY CurrentType
<1>2. UNCHANGED <<layers, failed>>
  BY DEF target
<1>3. \A l \in 1..Len(layers) : \A i \in 1..Len(layers[l]) :
        Processed(l, i)' <=> Processed(l, i) \/ (l = layer /\ i = entry)
  BY EntryDone
<1> SUFFICES ASSUME failed = {}, NEW l \in 1..Len(layers), NEW i \in 1..Len(layers[l]),
                    Processed(l, i)', layers[l][i].kind = "file", OnTop(l, i)'
             PROVE  Begins(disk'[layers[l][i].path].bytes, l, i)
  BY <1>2 DEF Complete, Begins
<1>4. CASE l = layer /\ i = entry
  BY <1>4 DEF Current
<1>5. CASE ~(l = layer /\ i = entry)
  <2> DEFINE q == layers[l][i].path
  <2>1. Processed(l, i)
    BY <1>3, <1>5
  <2>2. q \in Paths
    BY EntryType DEF IInv
  <2>3. \A k \in 1..Len(layers) : \A j \in 1..Len(layers[k]) :
          Processed(k, j)' /\ Later(k, j, l, i) => ~FileAt(q, k, j)
    BY <1>2 DEF OnTop, Later, FileAt
  <2>4. OnTop(l, i)
    BY <1>3, <2>3 DEF OnTop
  <2>5. Later(layer, entry, l, i)
    <3>1. l \in Nat /\ i \in Nat
      BY <1>1
    <3> QED
      BY <1>1, <1>5, <2>1, <3>1 DEF Processed, Later
  <2>6. ~FileAt(q, layer, entry)
    BY <1>1, <1>3, <2>3, <2>5
  <2>7. Begins(disk[q].bytes, l, i)
    BY <2>1, <2>4 DEF IInv, Complete
  <2>8. disk'[q].bytes = disk[q].bytes
    BY <2>2, <2>6
  <2> QED
    BY <2>7, <2>8
<1> QED
  BY <1>4, <1>5

LEMMA WriteDirKeeps == ASSUME IInv, WriteDir PROVE IInv'
<1> DEFINE p == Current.path
<1>1. /\ More /\ Current.kind = "dir" /\ Reachable(p) /\ disk' = MkdirAll(p)
      /\ NextEntry /\ UNCHANGED <<target, phase, tarball, chalk, failed, exit>>
  BY DEF WriteDir
<1>2. p \in Paths /\ UNCHANGED <<layers, failed>>
  BY <1>1, CurrentType DEF target
<1>3. /\ Shape' /\ Position' /\ Phases' /\ Ended'
      /\ \A q \in Paths : FileSoFar(q)' <=> FileSoFar(q) \/ FileAt(q, layer, entry)
      /\ \A q \in Paths : DirSoFar(q)' <=> DirSoFar(q) \/ DirAt(q, layer, entry)
  BY <1>1, EntryDone
<1>4. /\ DiskOK'
      /\ \A q \in Paths :
           /\ disk'[q].bytes = disk[q].bytes
           /\ disk'[q].kind = "file" <=> disk[q].kind = "file"
           /\ disk'[q].kind # "absent" <=> disk[q].kind # "absent" \/ q \in Above[p] \union {p}
  BY <1>1, <1>2, MkdirKeeps DEF IInv
<1>5. \A q \in Paths : /\ ~FileAt(q, layer, entry)
                       /\ DirAt(q, layer, entry) <=> q \in Above[p] \union {p}
  BY <1>1 DEF FileAt, DirAt, Current
<1>6. Complete'
  BY <1>1, <1>4, BytesKept
<1>7. Tree'
  BY <1>2, <1>3, <1>4, <1>5 DEF IInv, Tree
<1> QED
  BY <1>3, <1>4, <1>6, <1>7 DEF IInv

LEMMA SkipEntryKeeps == ASSUME IInv, SkipEntry PROVE IInv'
<1>1. /\ More /\ Current.kind = "other" /\ UNCHANGED disk
      /\ NextEntry /\ UNCHANGED <<target, phase, tarball, chalk, failed, exit>>
  BY DEF SkipEntry, files
<1>2. UNCHANGED <<layers, failed>>
  BY <1>1 DEF target
<1>3. /\ Shape' /\ Position' /\ Phases' /\ Ended'
      /\ \A q \in Paths : FileSoFar(q)' <=> FileSoFar(q) \/ FileAt(q, layer, entry)
      /\ \A q \in Paths : DirSoFar(q)' <=> DirSoFar(q) \/ DirAt(q, layer, entry)
  BY <1>1, EntryDone
<1>4. \A q \in Paths : ~FileAt(q, layer, entry) /\ ~DirAt(q, layer, entry)
  BY <1>1 DEF FileAt, DirAt, Current
<1>5. Complete'
  BY <1>1, BytesKept
<1>6. Tree'
  BY <1>1, <1>2, <1>3, <1>4 DEF IInv, Tree
<1>7. DiskOK'
  BY <1>1, <1>2 DEF IInv, DiskOK
<1> QED
  BY <1>3, <1>5, <1>6, <1>7 DEF IInv

\* The bytes of the current file, whole or cut off.
LEMMA BytesType ==
  ASSUME IInv, More, NEW n \in 0..Current.size
  PROVE  LET new == SubSeq(Bytes, 1, n)
             all == Overwrite(disk[Current.path].bytes, new)
         IN  /\ all \in Seq(1..Len(layers))
             /\ Len(all) <= MaxSize
<1>1. /\ layer \in 1..Len(layers) /\ Current.size \in 0..MaxSize /\ Current.path \in Paths
      /\ MaxSize \in Nat
  BY CurrentType, DownloaderAssumption DEF DownloaderAssumption
<1>2. Bytes \in Seq(1..Len(layers)) /\ Len(Bytes) = Current.size
  BY <1>1 DEF Bytes
<1>3. SubSeq(Bytes, 1, n) \in Seq(1..Len(layers)) /\ Len(SubSeq(Bytes, 1, n)) = n
  <2>1. n \in Nat /\ n <= Len(Bytes)
    BY <1>1, <1>2
  <2> QED
    BY <1>2, <2>1
<1>4. /\ disk[Current.path].bytes \in Seq(1..Len(layers))
      /\ Len(disk[Current.path].bytes) <= MaxSize
  BY <1>1 DEF IInv, DiskOK
<1>5. Len(SubSeq(Bytes, 1, n)) <= MaxSize
  BY <1>1, <1>3
<1> QED
  BY <1>1, <1>3, <1>4, <1>5, OverwriteType

LEMMA WriteFileKeeps == ASSUME IInv, WriteFile PROVE IInv'
<1> DEFINE p == Current.path
           all == Overwrite(disk[p].bytes, Bytes)
<1>1. /\ More /\ Current.kind = "file" /\ CanCreate(p)
      /\ NextEntry /\ UNCHANGED <<target, phase, tarball, chalk, failed, exit>>
  BY DEF WriteFile
<1>2. /\ layer \in 1..Len(layers) /\ Current.size \in 0..MaxSize /\ p \in Paths
      /\ MaxSize \in Nat /\ UNCHANGED <<layers, failed>>
  BY <1>1, CurrentType, DownloaderAssumption DEF DownloaderAssumption, target
<1>3. disk' = [disk EXCEPT ![p] = File(all)]
  <2>1. disk' = [disk EXCEPT ![p] = File(Overwrite(@.bytes, Bytes))]
    BY DEF WriteFile
  <2> QED
    BY <2>1
<1>4. /\ Bytes \in Seq(1..Len(layers)) /\ Len(Bytes) = Current.size
      /\ \A b \in 1..Current.size : Bytes[b] = layer
  <2>1. Bytes = [b \in 1..Current.size |-> layer]
    BY DEF Bytes
  <2> HIDE DEF p
  <2> QED
    BY <1>2, <2>1
<1>5. disk[p].bytes \in Seq(1..Len(layers)) /\ Len(disk[p].bytes) <= MaxSize
  BY <1>2 DEF IInv, DiskOK
<1>6. /\ all \in Seq(1..Len(layers)) /\ Len(all) <= MaxSize /\ Len(all) >= Len(Bytes)
      /\ \A b \in 1..Len(Bytes) : all[b] = Bytes[b]
  BY <1>2, <1>4, <1>5, OverwriteType
<1> HIDE DEF all
<1>7. /\ DiskOK'
      /\ disk'[p].kind = "file" /\ disk'[p].bytes = all
      /\ \A q \in Paths \ {p} : disk'[q] = disk[q]
  BY <1>1, <1>2, <1>3, <1>6, PutKeeps DEF IInv
<1>8. /\ Shape' /\ Position' /\ Phases' /\ Ended'
      /\ \A q \in Paths : FileSoFar(q)' <=> FileSoFar(q) \/ FileAt(q, layer, entry)
      /\ \A q \in Paths : DirSoFar(q)' <=> DirSoFar(q) \/ DirAt(q, layer, entry)
  BY <1>1, EntryDone
<1>9. \A q \in Paths : (FileAt(q, layer, entry) <=> q = p) /\ ~DirAt(q, layer, entry)
  BY <1>1 DEF FileAt, DirAt, Current
<1>10. Begins(disk'[p].bytes, layer, entry)
  <2>1. /\ Len(disk'[p].bytes) >= Current.size
        /\ \A b \in 1..Current.size : disk'[p].bytes[b] = layer
    BY <1>4, <1>6, <1>7
  <2> QED
    BY <2>1 DEF Begins, Current
<1>11. Complete'
  BY <1>1, <1>7, <1>9, <1>10, BytesKept
<1>12. Tree'
  BY <1>2, <1>7, <1>8, <1>9 DEF IInv, Tree
<1> QED
  BY <1>7, <1>8, <1>11, <1>12 DEF IInv

\* The end of a layer: nothing more of it is processed.
LEMMA NextLayerKeeps ==
  ASSUME IInv, Unpacking, NextLayer, UNCHANGED layers, failed' \subseteq 1..layer
  PROVE  Position'
<1>1. layer \in 1..Len(layers) /\ Len(layers) \in Nat
  BY DEF IInv, Shape, Unpacking
<1>2. layer' = layer + 1 /\ entry' = 1
  BY DEF NextLayer
<1>3. \A l \in 1..Len(layers) : Len(layers[l]) \in Nat
  BY DEF IInv, Shape
<1>4. (layer + 1) - 1 = layer
  BY <1>1
<1> QED
  BY <1>1, <1>2, <1>3, <1>4 DEF Position

\* Nothing is written, and no entry is begun or given up.
LEMMA SameProcessed ==
  ASSUME IInv, UNCHANGED <<layers, disk, failed>>,
         \A l \in 1..Len(layers) : \A i \in 1..Len(layers[l]) : Processed(l, i)' <=> Processed(l, i)
  PROVE  Complete' /\ Tree'
<1>1. ASSUME NEW l \in 1..Len(layers), NEW i \in 1..Len(layers[l]), OnTop(l, i)'
      PROVE  OnTop(l, i)
  <2>1. \A k \in 1..Len(layers) : \A j \in 1..Len(layers[k]) :
          Processed(k, j)' /\ Later(k, j, l, i) => ~FileAt(layers[l][i].path, k, j)
    BY <1>1 DEF OnTop, Later, FileAt
  <2> QED
    BY <2>1 DEF OnTop
<1>2. Complete'
  BY <1>1 DEF IInv, Complete, Begins
<1>3. \A p \in Paths : FileSoFar(p)' <=> FileSoFar(p)
  BY DEF FileSoFar, FileAt
<1>4. \A p \in Paths : DirSoFar(p)' <=> DirSoFar(p)
  BY DEF DirSoFar, DirAt
<1>5. Tree'
  BY <1>3, <1>4 DEF IInv, Tree
<1> QED
  BY <1>2, <1>5

LEMMA LayerEndsKeeps == ASSUME IInv, LayerEnds PROVE IInv'
<1>1. /\ Unpacking /\ ~More /\ NextLayer
      /\ UNCHANGED <<layers, artifact, last, phase, disk, tarball, chalk, failed, exit>>
  BY DEF LayerEnds, target, files
<1>2. layer \in 1..Len(layers) /\ Len(layers) \in Nat /\ layers[layer] \in Seq(Entries)
  BY <1>1 DEF IInv, Shape, Unpacking
<1>3. failed \subseteq 1..layer
  BY <1>2 DEF IInv, Position
<1>4. Position'
  BY <1>1, <1>3, NextLayerKeeps
<1>5. entry = Len(layers[layer]) + 1 /\ Len(layers[layer]) \in Nat
  <2>1. entry \notin 1..Len(layers[layer]) /\ Len(layers[layer]) \in Nat
    BY <1>1, <1>2 DEF More
  <2> QED
    BY <1>2, <2>1 DEF IInv, Position
<1>6. \A l \in 1..Len(layers) : \A i \in 1..Len(layers[l]) : Processed(l, i)' <=> Processed(l, i)
  <2> SUFFICES ASSUME NEW l \in 1..Len(layers), NEW i \in 1..Len(layers[l])
               PROVE  (l < layer + 1 \/ (l = layer + 1 /\ i < 1)) <=> (l < layer \/ (l = layer /\ i < entry))
    BY <1>1 DEF NextLayer, Processed
  <2>1. Len(layers[l]) \in Nat
    BY DEF IInv, Shape
  <2> QED
    BY <1>2, <1>5, <2>1
<1>7. Complete' /\ Tree'
  BY <1>1, <1>6, SameProcessed
<1>8. Shape' /\ DiskOK' /\ Phases' /\ Ended'
  BY <1>1 DEF IInv, Shape, DiskOK, Phases, Ended, Unpacking
<1> QED
  BY <1>4, <1>7, <1>8 DEF IInv

LEMMA LayerFailsKeeps == ASSUME IInv, LayerFails PROVE IInv'
<1>1. /\ Unpacking /\ NextLayer
      /\ UNCHANGED <<layers, artifact, last, phase, tarball, chalk, exit>>
      /\ failed' = failed \union {layer}
  BY DEF LayerFails, Report, target
<1>2. layer \in 1..Len(layers) /\ Len(layers) \in Nat
  BY <1>1 DEF IInv, Shape, Unpacking
<1>3. failed' \subseteq 1..layer
  BY <1>1, <1>2 DEF IInv, Position
<1>4. Position'
  BY <1>1, <1>3, NextLayerKeeps
<1>5. DiskOK'
  <2>1. CASE UNCHANGED disk
    BY <1>1, <2>1 DEF IInv, DiskOK
  <2>2. CASE More /\ HalfDir
    <3>1. PICK q \in Above[Current.path] : disk' = MkdirAll(q)
      BY <2>2 DEF HalfDir
    <3>2. Current.path \in Paths
      BY <2>2, CurrentType
    <3>3. q \in Paths /\ Above[q] \subseteq Above[Current.path]
      BY <3>2, DownloaderAssumption DEF DownloaderAssumption
    <3>4. Reachable(q)
      BY <2>2, <3>3 DEF HalfDir, Reachable
    <3> QED
      BY <1>1, <3>1, <3>3, <3>4, MkdirKeeps DEF IInv
  <2>3. CASE More /\ HalfFile
    <3>1. PICK n \in 0..Current.size :
            disk' = [disk EXCEPT ![Current.path] =
                       File(Overwrite(disk[Current.path].bytes, SubSeq(Bytes, 1, n)))]
      <4>1. Current.path \in Paths
        BY <2>3, CurrentType
      <4> QED
        BY <2>3, <4>1 DEF HalfFile
    <3> DEFINE all == Overwrite(disk[Current.path].bytes, SubSeq(Bytes, 1, n))
    <3>2. all \in Seq(1..Len(layers)) /\ Len(all) <= MaxSize
      BY <2>3, BytesType
    <3>3. Current.path \in Paths /\ CanCreate(Current.path)
      BY <2>3, CurrentType DEF HalfFile
    <3>4. disk' = [disk EXCEPT ![Current.path] = File(all)]
      BY <3>1
    <3> HIDE DEF all
    <3> QED
      BY <1>1, <3>2, <3>3, <3>4, PutKeeps DEF IInv
  <2> QED
    BY <2>1, <2>2, <2>3 DEF LayerFails
<1>6. Shape' /\ Phases' /\ Complete' /\ Tree' /\ Ended'
  <2>1. failed' # {}
    BY <1>1
  <2> QED
    BY <1>1, <2>1 DEF IInv, Shape, Phases, Complete, Tree, Ended, Unpacking
<1> QED
  BY <1>4, <1>5, <1>6 DEF IInv

\* The steps that write no entry.
LEMMA OtherKeeps ==
  ASSUME IInv, UNCHANGED <<target, layer, entry, disk, failed>>, Phases', Ended'
  PROVE  IInv'
<1>1. UNCHANGED <<layers, artifact, layer, entry, disk, failed>>
  BY DEF target
<1>2. \A l \in 1..Len(layers) : \A i \in 1..Len(layers[l]) : Processed(l, i)' <=> Processed(l, i)
  BY <1>1 DEF Processed
<1>3. Complete' /\ Tree'
  BY <1>1, <1>2, SameProcessed
<1>4. Shape' /\ Position' /\ DiskOK'
  BY <1>1 DEF IInv, Shape, Position, DiskOK
<1> QED
  BY <1>3, <1>4 DEF IInv

LEMMA Inductive == Spec => []IInv
<1>1. IInv /\ [Next]_vars => IInv'
  <2> SUFFICES ASSUME IInv, [Next]_vars PROVE IInv'
    OBVIOUS
  <2> USE OtherKeeps
  <2>1. CASE ResolveFails \/ ListFails
    BY <2>1 DEF ResolveFails, ListFails, Exit, IInv, Phases, Ended, files, target
  <2>2. CASE Resolve \/ ListLayers
    BY <2>2 DEF Resolve, ListLayers, GoTo, IInv, Shape, Phases, Ended, files, target
  <2>3. CASE WriteDir
    BY <2>3, WriteDirKeeps
  <2>4. CASE WriteFile \/ SkipEntry
    BY <2>4, WriteFileKeeps, SkipEntryKeeps
  <2>5. CASE LayerEnds
    BY <2>5, LayerEndsKeeps
  <2>6. CASE LayerFails
    BY <2>6, LayerFailsKeeps
  <2>7. CASE ContextDone
    <3>1. layer > Len(layers)
      <4>1. layer \in 1..(Len(layers) + 1) /\ layer \notin 1..Len(layers) /\ Len(layers) \in Nat
        BY <2>7 DEF ContextDone, Unpacking, IInv, Shape, Position
      <4> QED
        BY <4>1
    <3> QED
      BY <2>7, <3>1 DEF ContextDone, Exit, IInv, Phases, Ended, files, target
  <2>8. CASE SaveImage \/ SaveFails
    BY <2>8 DEF SaveImage, SaveFails, GoTo, Exit, IInv, Phases, Ended, target
  <2>9. CASE ExtractChalk \/ NoChalk \/ MissingLayer
    <3>1. phase = "chalk"
      BY <2>9 DEF ExtractChalk, NoChalk, MissingLayer
    <3>2. layers = <<>> /\ tarball = "whole" /\ Len(layers) = 0
      BY <3>1 DEF IInv, Phases, Shape
    <3>3. layer > Len(layers) /\ failed = {}
      <4>1. layer = 1
        BY <3>2 DEF IInv, Position
      <4> QED
        BY <3>2, <4>1 DEF IInv, Position
    <3>4. /\ phase' = "done" /\ exit' \in {"ok", "error"}
          /\ UNCHANGED <<target, layer, entry, disk, failed, tarball>>
          /\ chalk' \in {"absent", "partial", "whole"}
      BY <2>9 DEF ExtractChalk, NoChalk, MissingLayer, Exit, files, IInv, Phases
    <3> QED
      BY <3>2, <3>3, <3>4 DEF IInv, Phases, Ended, target
  <2>10. CASE UNCHANGED vars
    BY <2>10 DEF vars, files, target, IInv, Phases, Ended
  <2> QED
    BY <2>1, <2>2, <2>3, <2>4, <2>5, <2>6, <2>7, <2>8, <2>9, <2>10 DEF Next
<1> QED
  BY InitHolds, <1>1, PTL DEF Spec

-----------------------------------------------------------------------------
\* The position in the context and the bytes of the files.
THEOREM TypeCorrect == Spec => []TypeOK
<1>1. IInv => TypeOK
  <2> SUFFICES ASSUME IInv PROVE TypeOK
    OBVIOUS
  <2>1. entry \in 1..(MaxEntries + 1)
    <3>1. MaxEntries \in Nat
      BY DownloaderAssumption DEF DownloaderAssumption
    <3>2. CASE layer <= Len(layers)
      <4>1. layer \in 1..Len(layers) /\ layers[layer] \in Seq(Entries)
        BY <3>2 DEF IInv, Shape, Position
      <4>2. Len(layers[layer]) <= MaxEntries /\ Len(layers[layer]) \in Nat
        BY <4>1 DEF IInv, Shape
      <4> QED
        BY <3>1, <3>2, <4>2 DEF IInv, Position
    <3>3. CASE ~(layer <= Len(layers))
      <4>1. entry = 1
        BY <3>3 DEF IInv, Shape, Position
      <4> QED
        BY <3>1, <4>1
    <3> QED
      BY <3>2, <3>3
  <2>2. /\ DOMAIN disk = Paths
        /\ \A p \in Paths : disk[p].bytes \in Seq(1..Len(layers))
    BY DEF IInv, DiskOK
  <2> QED
    BY <2>1, <2>2 DEF IInv, Phases, Position, DiskOK, TypeOK
<1> QED
  BY <1>1, Inductive, PTL

\* Exit code 0 means that the target is the whole tree of the directories and
\* regular files of the image, whatever entries came in whatever order (merr
\* in DownloadBuildContext, the switch of writeTar).
THEOREM ExitIsHonest == Spec => []ExitMeansWritten
<1>1. IInv => ExitMeansWritten
  <2> SUFFICES ASSUME IInv, exit = "ok", NEW p \in Paths
               PROVE  disk[p].kind = IF HasFile(p) THEN "file" ELSE IF HasDir(p) THEN "dir" ELSE "absent"
    BY DEF ExitMeansWritten, IInv, Ended
  <2>1. /\ DOMAIN layers = 1..Len(layers) /\ layer > Len(layers) /\ failed = {}
        /\ layer \in 1..(Len(layers) + 1) /\ Len(layers) \in Nat
        /\ \A l \in 1..Len(layers) : DOMAIN layers[l] = 1..Len(layers[l])
    BY DEF IInv, Shape, Position, Ended
  <2>2. \A l \in 1..Len(layers) : \A i \in 1..Len(layers[l]) : Processed(l, i)
    BY <2>1 DEF Processed
  <2>3. FileSoFar(p) <=> HasFile(p)
    BY <2>1, <2>2 DEF FileSoFar, HasFile
  <2>4. DirSoFar(p) <=> HasDir(p)
    BY <2>1, <2>2 DEF DirSoFar, HasDir
  <2>5. disk[p].kind \in Kinds
    BY KindOf DEF IInv
  <2> QED
    BY <2>1, <2>3, <2>4, <2>5 DEF IInv, Tree, Kinds
<1> QED
  BY <1>1, Inductive, PTL

\* A file begins with the bytes of its last entry (writeTar).
THEOREM LastLayerWins == Spec => []LastLayerOnTop
<1>1. IInv => LastLayerOnTop
  <2> SUFFICES ASSUME IInv, exit = "ok", NEW l \in DOMAIN layers, NEW i \in DOMAIN layers[l],
                      IsLastFile(l, i), NEW b \in 1..layers[l][i].size
               PROVE  disk[layers[l][i].path].bytes[b] = l
    BY DEF LastLayerOnTop
  <2>1. /\ l \in 1..Len(layers) /\ i \in 1..Len(layers[l]) /\ l < layer /\ failed = {}
        /\ Len(layers) \in Nat
    BY DEF IInv, Shape, Position, Ended
  <2>2. OnTop(l, i)
    <3> SUFFICES ASSUME NEW k \in 1..Len(layers), NEW j \in 1..Len(layers[k]), Later(k, j, l, i)
                 PROVE  ~FileAt(layers[l][i].path, k, j)
      BY DEF OnTop
    <3>1. layers[k] \in Seq(Entries) /\ DOMAIN layers[k] = 1..Len(layers[k]) /\ Len(layers[k]) \in Nat
      BY DEF IInv, Shape
    <3>2. CASE k > l
      <4>1. k \in (l + 1)..Len(layers)
        BY <2>1, <3>2
      <4> QED
        BY <3>1, <4>1 DEF IsLastFile
    <3>3. CASE k = l /\ j > i
      <4>1. j \in (i + 1)..Len(layers[l])
        BY <2>1, <3>1, <3>3
      <4> QED
        BY <3>3, <4>1 DEF IsLastFile
    <3> QED
      BY <3>2, <3>3 DEF Later
  <2>3. Processed(l, i) /\ layers[l][i].kind = "file"
    BY <2>1 DEF Processed, IsLastFile
  <2>4. Begins(disk[layers[l][i].path].bytes, l, i)
    BY <2>1, <2>2, <2>3 DEF IInv, Complete
  <2> QED
    BY <2>4 DEF Begins
<1> QED
  BY <1>1, Inductive, PTL
=============================================================================
