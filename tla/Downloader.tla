----------------------------- MODULE Downloader -----------------------------
(***************************************************************************)
(* The downloader of a pipeline, a program that runs once and tells with   *)
(* its exit code whether the target is there.  The layers of a build       *)
(* context are unpacked one over the other into the target directory; any  *)
(* other image is saved as a tarball, and the chalk mark of its last layer *)
(* as the metadata.                                                        *)
(*                                                                         *)
(* External: the registry, and the file system, where a path is absent, a  *)
(* directory, or a file whose bytes are the numbers of the layers they     *)
(* come from.  The target directory itself is there from the start and is  *)
(* not among the paths.                                                    *)
(***************************************************************************)
EXTENDS Naturals, Sequences

CONSTANTS
  Paths,      \* paths below the target directory
  Above,      \* Above[p]: the paths that have to be directories to reach p
  MaxLayers,  \* bound: layers of the image
  MaxEntries, \* bound: entries of one layer
  MaxSize     \* bound: size of one file

ASSUME DownloaderAssumption ==
  /\ Above \in [Paths -> SUBSET Paths]
  /\ \A p \in Paths : p \notin Above[p] /\ \A q \in Above[p] : Above[q] \subseteq Above[p]
  /\ MaxLayers \in Nat
  /\ MaxEntries \in Nat
  /\ MaxSize \in Nat

\* The entries of a tar, of any kind at any path; "other" are symbolic and
\* hard links and everything else that is neither directory nor regular file.
Entries == [kind : {"dir", "other"}, path : Paths, size : {0}]
             \union [kind : {"file"}, path : Paths, size : 0..MaxSize]

Lists(S, n) == UNION {[1..m -> S] : m \in 0..n}

Layers == Lists(Entries, MaxEntries)

\* What the last layer of an image is to the extraction of the chalk mark: a
\* tar that begins with chalk.json, anything without one, or nil.
LastLayers == {"chalk", "other", "nil"}

VARIABLES
  artifact,  \* the artifact type of the manifest: context, or any other
  last,      \* the last layer of an image, "none" of a context
  layers,    \* the entries of each layer of a context, <<>> of an image
  phase,     \* resolve, list, unpack, save, chalk or done
  layer,     \* the layer being unpacked
  entry,     \* its next entry
  disk,      \* disk[p]: what is at path p, and the bytes of a file
  failed,    \* layers that were reported (merr)
  tarball,   \* the saved image: absent, partial or whole
  chalk,     \* the metadata: absent, partial or whole
  exit       \* the exit code: none yet, ok or error

target == <<artifact, last, layers>>
files == <<disk, tarball, chalk>>
vars == <<target, phase, layer, entry, files, failed, exit>>

Absent == [kind |-> "absent", bytes |-> <<>>]
Directory == [kind |-> "dir", bytes |-> <<>>]
File(bytes) == [kind |-> "file", bytes |-> bytes]

Unpacking == phase = "unpack" /\ layer \in DOMAIN layers
More == Unpacking /\ entry \in DOMAIN layers[layer]
Current == layers[layer][entry]

-----------------------------------------------------------------------------
Init ==
  /\ \/ artifact = "context" /\ last = "none" /\ layers \in Lists(Layers, MaxLayers)
     \/ artifact = "image" /\ last \in LastLayers /\ layers = <<>>
  /\ phase = "resolve"
  /\ layer = 1
  /\ entry = 1
  /\ disk = [p \in Paths |-> Absent]
  /\ failed = {}
  /\ tarball = "absent"
  /\ chalk = "absent"
  /\ exit = "none"

Exit(code) ==
  /\ phase' = "done"
  /\ exit' = code
  /\ UNCHANGED <<target, layer, entry, failed>>

GoTo(p) == phase' = p /\ UNCHANGED <<target, layer, entry, failed, exit>>

\* The reference, the image, its manifest or the media type is refused.
ResolveFails == phase = "resolve" /\ Exit("error") /\ UNCHANGED files

Resolve ==
  /\ phase = "resolve"
  /\ GoTo(IF artifact = "context" THEN "list" ELSE "save")
  /\ UNCHANGED files

-----------------------------------------------------------------------------
\* A build context.
ListFails == phase = "list" /\ Exit("error") /\ UNCHANGED files

ListLayers == phase = "list" /\ GoTo("unpack") /\ UNCHANGED files

NextEntry == entry' = entry + 1 /\ UNCHANGED layer
NextLayer == layer' = layer + 1 /\ entry' = 1

\* Variant: Mkdir, which makes the last directory of the path only.
MkdirOnly(p) == [disk EXCEPT ![p] = IF @ = Absent THEN Directory ELSE @]

MkdirAll(p) ==
  [q \in Paths |->
     IF q \in Above[p] \union {p} /\ disk[q] = Absent THEN Directory ELSE disk[q]]

\* Neither os.Stat nor os.MkdirAll gets through a path below a file.
Reachable(p) == \A q \in Above[p] : disk[q].kind # "file"

\* What exists at the path is left as it is, also when it is a file.
WriteDir ==
  /\ More
  /\ Current.kind = "dir"
  /\ Reachable(Current.path)
  /\ disk' = MkdirAll(Current.path)
  /\ NextEntry
  /\ UNCHANGED <<target, phase, tarball, chalk, failed, exit>>

Longer(m, n) == IF m >= n THEN m ELSE n

\* Variant: what is there already is not written over.
KeepOld(old, new) == old \o SubSeq(new, Len(old) + 1, Len(new))

\* The file is opened without O_TRUNC: what was longer stays.
Overwrite(old, new) ==
  [b \in 1..Longer(Len(old), Len(new)) |-> IF b <= Len(new) THEN new[b] ELSE old[b]]

Bytes == [i \in 1..Current.size |-> layer]

\* A file is opened or created in a directory that exists, never made for it.
CanCreate(p) == disk[p].kind # "dir" /\ \A q \in Above[p] : disk[q].kind = "dir"

WriteFile ==
  /\ More
  /\ Current.kind = "file"
  /\ CanCreate(Current.path)
  /\ disk' = [disk EXCEPT ![Current.path] = File(Overwrite(@.bytes, Bytes))]
  /\ NextEntry
  /\ UNCHANGED <<target, phase, tarball, chalk, failed, exit>>

\* The switch of writeTar has no case for it and no default.
SkipEntry ==
  /\ More
  /\ Current.kind = "other"
  /\ NextEntry
  /\ UNCHANGED <<target, phase, files, failed, exit>>

LayerEnds ==
  /\ Unpacking
  /\ ~More
  /\ NextLayer
  /\ UNCHANGED <<target, phase, files, failed, exit>>

\* Variant: the error of a layer is only logged.
LogOnly == failed' = failed

Report == failed' = failed \union {layer}

\* What a failed entry may leave: the upper directories of its path, or the
\* beginning of the file.
HalfDir ==
  /\ Current.kind = "dir"
  /\ Reachable(Current.path)
  /\ \E q \in Above[Current.path] : disk' = MkdirAll(q)

HalfFile ==
  /\ Current.kind = "file"
  /\ CanCreate(Current.path)
  /\ \E n \in 0..Current.size :
       disk' = [disk EXCEPT ![Current.path] =
                  File(Overwrite(@.bytes, SubSeq(Bytes, 1, n)))]

\* The layer cannot be read (any more), or an entry not be written: the rest
\* of the layer is given up, and the next layer is still unpacked.
LayerFails ==
  /\ Unpacking
  /\ UNCHANGED disk \/ (More /\ (HalfDir \/ HalfFile))
  /\ Report
  /\ NextLayer
  /\ UNCHANGED <<target, phase, tarball, chalk, exit>>

ContextDone ==
  /\ phase = "unpack"
  /\ ~Unpacking
  /\ Exit(IF failed = {} THEN "ok" ELSE "error")
  /\ UNCHANGED files

-----------------------------------------------------------------------------
\* Any other image.
SaveImage ==
  /\ phase = "save"
  /\ tarball' = "whole"
  /\ GoTo("chalk")
  /\ UNCHANGED <<disk, chalk>>

SaveFails ==
  /\ phase = "save"
  /\ tarball' \in {"absent", "partial"}
  /\ Exit("error")
  /\ UNCHANGED <<disk, chalk>>

ExtractChalk ==
  /\ phase = "chalk"
  /\ last = "chalk"
  /\ chalk' = "whole"
  /\ Exit("ok")
  /\ UNCHANGED <<disk, tarball>>

\* Whatever else goes wrong, before or while the metadata is written, is only
\* logged, and so is a last layer without a chalk mark.
NoChalk ==
  /\ phase = "chalk"
  /\ last # "nil"
  /\ chalk' \in IF last = "chalk" THEN {"absent", "partial"} ELSE {"absent"}
  /\ Exit("ok")
  /\ UNCHANGED <<disk, tarball>>

MissingLayer ==
  /\ phase = "chalk"
  /\ last = "nil"
  /\ Exit("error")
  /\ UNCHANGED files

Next ==
  \/ ResolveFails
  \/ Resolve
  \/ ListFails
  \/ ListLayers
  \/ WriteDir
  \/ WriteFile
  \/ SkipEntry
  \/ LayerEnds
  \/ LayerFails
  \/ ContextDone
  \/ SaveImage
  \/ SaveFails
  \/ ExtractChalk
  \/ NoChalk
  \/ MissingLayer

Spec == Init /\ [][Next]_vars

-----------------------------------------------------------------------------
TypeOK ==
  /\ phase \in {"resolve", "list", "unpack", "save", "chalk", "done"}
  /\ exit \in {"none", "ok", "error"} /\ (exit = "none" <=> phase # "done")
  /\ layer \in 1..Len(layers) + 1
  /\ entry \in 1..MaxEntries + 1
  /\ failed \subseteq 1..(layer - 1)
  /\ DOMAIN disk = Paths
  /\ \A p \in Paths :
       /\ disk[p].bytes \in Seq(1..Len(layers)) /\ Len(disk[p].bytes) <= MaxSize
       /\ disk[p].kind = "file" \/ disk[p] \in {Absent, Directory}
       /\ disk[p] # Absent => \A q \in Above[p] : disk[q] = Directory
  /\ {tarball, chalk} \subseteq {"absent", "partial", "whole"}

\* Entry i of layer l is a file at p, or a directory at p or below it.
FileAt(p, l, i) == layers[l][i].kind = "file" /\ layers[l][i].path = p
DirAt(p, l, i) ==
  /\ layers[l][i].kind = "dir"
  /\ p = layers[l][i].path \/ p \in Above[layers[l][i].path]

HasFile(p) == \E l \in DOMAIN layers : \E i \in DOMAIN layers[l] : FileAt(p, l, i)
HasDir(p) == \E l \in DOMAIN layers : \E i \in DOMAIN layers[l] : DirAt(p, l, i)

\* The pipeline goes on to scan the target when the downloader exits with 0.
\* Then, although the layers after a failed one are still unpacked (merr in
\* DownloadBuildContext), the target directory is the tree of the directories
\* and regular files of all layers: none of them is missing, and a directory
\* entry has not replaced a file.  It is no more than that tree: links and
\* other entries (writeTar has no case for them) are not there, and nothing tells.
ExitMeansWritten ==
  exit = "ok" =>
    /\ artifact = "image" => tarball = "whole"
    /\ \A p \in Paths :
         disk[p].kind = IF HasFile(p) THEN "file" ELSE IF HasDir(p) THEN "dir" ELSE "absent"

\* Entry i of layer l is the last file at its path.
IsLastFile(l, i) ==
  /\ layers[l][i].kind = "file"
  /\ \A j \in (i + 1)..Len(layers[l]) : ~FileAt(layers[l][i].path, l, j)
  /\ \A k \in (l + 1)..Len(layers) : \A j \in DOMAIN layers[k] : ~FileAt(layers[l][i].path, k, j)

\* Files of later layers cover those of earlier ones, byte for byte, and no
\* later directory or link at the path takes them away.
LastLayerOnTop ==
  exit = "ok" =>
    \A l \in DOMAIN layers : \A i \in DOMAIN layers[l] :
      IsLastFile(l, i) =>
        \A b \in 1..layers[l][i].size : disk[layers[l][i].path].bytes[b] = l

\* "Writes build context to target directory": each file has the contents of
\* its last entry, and no others.
FilesAreExact ==
  exit = "ok" =>
    \A l \in DOMAIN layers : \A i \in DOMAIN layers[l] :
      IsLastFile(l, i) => Len(disk[layers[l][i].path].bytes) = layers[l][i].size
=============================================================================
