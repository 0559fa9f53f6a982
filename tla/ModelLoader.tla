---------------------------- MODULE ModelLoader ----------------------------
(***************************************************************************)
(* The way of a model from its files to the devices: the placement of its  *)
(* modules, the reading of the files into host chunks (Model::ToHost), the *)
(* device layout (sllm_store/utils.py), the copies (Model::DispatchToGpu)  *)
(* and the tensors the process gets back (RestoreTensors), which are views *)
(* of device memory that is still being filled until the store confirms.   *)
(*                                                                         *)
(* The reader threads of ToHost do not share anything they write and are   *)
(* run one after the other here (CheckpointStore has them interleaved);    *)
(* the devices' copies interleave with each other and with the process.    *)
(***************************************************************************)
EXTENDS CheckpointWriter, DevicePlacement

CONSTANTS
    ModuleNames,    \* the modules that are not split, in the order of the model
    Module,         \* Module[name]: the module a tensor is in
    Prefixed,       \* Prefixed[m]: the tensors whose name starts with m
    Memories,       \* the memories of the devices, sequences of numbers
    Requests,       \* [strategy, use]: what is asked of a load
    ChunkSize, NumThreads,
    MaxCopyFailures \* bound on the copies to a device that fail

ASSUME LoaderAssumption == {ChunkSize, NumThreads} \subseteq Nat \ {0}

VARIABLES
    memory,     \* max_memory, one of Memories
    request,    \* the request
    pc,         \* what the process does next
    device_map, \* the placement
    host,       \* the chunks that were read
    reader,     \* [part, at] of the thread that reads
    host_failed,
    copies,     \* mem_copy_chunks: [device, src, size, dst] asked of the store
    copied,     \* copied[d]: chunks device d has the data of
    gpu,        \* gpu[d]: the bytes of the device's memory
    gpu_failed, \* the devices whose copy task gave up
    model       \* model[name]: the bytes a tensor was given, or where it is

lvars == <<memory, request, pc, device_map, host, reader, host_failed, copies,
           copied, gpu, gpu_failed, model>>
vars == <<wvars, lvars>>

Init ==
    /\ WInit
    /\ memory \in Memories /\ request \in Requests
    /\ pc = "save" /\ device_map = <<>> /\ host = <<>>
    /\ reader = [part |-> 1, at |-> 0] /\ host_failed = FALSE
    /\ copies = {} /\ copied = <<>> /\ gpu = <<>> /\ gpu_failed = {} /\ model = <<>>

Write == pc = "save" /\ WNext /\ UNCHANGED lvars

-----------------------------------------------------------------------------
(* What save_model leaves for the placement.                               *)

\* A module's size counts a storage once.
no_split_modules ==
    [names |-> ModuleNames,
     size |-> [m \in Range(ModuleNames) |->
         LET views == {data[n] : n \in {x \in Names : Module[x] = m}} IN
         MapThenSumSet(LAMBDA s : s.size, views)]]

\* The modules with views of one storage, and the storage's size.
tied_no_split_modules ==
    LET shared == {p \in Pointers : \E a, b \in Names : a # b /\ data[a].ptr = p /\ data[b].ptr = p}
        views(p) == {n \in Names : data[n].ptr = p}
    IN SetToSeq({[group |-> {Module[n] : n \in views(p)},
                  shared |-> data[CHOOSE n \in views(p) : TRUE].size] : p \in shared})

\* fully_parallel_load computes the placement from what save_model left;
\* load_lora puts every tensor on the first device ("one").  Files that a
\* failed write left incomplete are not followed any further.
Place ==
    /\ pc = "save" /\ saved /\ failures = 0 /\ request.strategy # "best_effort"
    /\ LET placement ==
             IF request.strategy = "one"
             THEN [i \in DOMAIN ModuleNames |-> [module |-> ModuleNames[i], device |-> 1]]
             ELSE FastPlacement(no_split_modules, tied_no_split_modules, memory,
                                request.strategy)
       IN  IF placement = Raised
           THEN pc' = "raised" /\ UNCHANGED device_map
           ELSE pc' = "layout" /\ device_map' = placement
    /\ UNCHANGED <<wvars, memory, request, host, reader, host_failed, copied, gpu,
                   gpu_failed, model, copies>>

\* best_effort_load leaves the placement to accelerate, which fills the devices
\* in order and keeps tied modules on one device.
BestEffortPlace ==
    /\ pc = "save" /\ saved /\ failures = 0 /\ request.strategy = "best_effort"
    /\ \E device \in [DOMAIN ModuleNames -> DOMAIN memory] :
          /\ \A i, j \in DOMAIN ModuleNames : \A t \in Range(tied_no_split_modules) :
                {ModuleNames[i], ModuleNames[j]} \subseteq t.group => device[i] = device[j]
          /\ \A i, j \in DOMAIN ModuleNames : i < j /\ device[i] > device[j] =>
                \E t \in Range(tied_no_split_modules) : ModuleNames[j] \in t.group
          /\ device_map' = [i \in DOMAIN ModuleNames |->
                               [module |-> ModuleNames[i], device |-> device[i]]]
    /\ pc' = "layout"
    /\ UNCHANGED <<wvars, memory, request, host, reader, host_failed, copied, gpu,
                   gpu_failed, model, copies>>

-----------------------------------------------------------------------------
(* Reading the files.                                                      *)

ModelSize == Len(Stored)
NumChunks == (ModelSize + ChunkSize - 1) \div ChunkSize
ChunkPerThread == (NumChunks + NumThreads - 1) \div NumThreads

\* Where a thread starts: the partition sizes before its first byte are
\* taken off one by one.
Start(at) ==
    LET before(p) == SumOver([f \in 1 .. p - 1 |-> Len(files[f])], 1 .. p - 1)
        part == Min({Len(files) + 1} \cup
                    {p \in DOMAIN files : at < before(p) + Len(files[p])})
    IN [part |-> part, at |-> at - before(part)]

Pread(p, at, size) == SubSeq(files[p], at + 1, Lesser(at + size, Len(files[p])))

\* Mutant of ReadChunk: the next partition is read from where the last one ended.
ReadChunkNoRewind ==
    LET idx == Len(host)
        from == IF idx % ChunkPerThread = 0 THEN Start(idx * ChunkSize) ELSE reader
        size == Lesser(ChunkSize, ModelSize - idx * ChunkSize)
        head == Pread(from.part, from.at, size)
        rest == IF Len(head) < size /\ from.part < Len(files)
                THEN Pread(from.part + 1, 0, size - Len(head)) ELSE <<>>
    IN
    /\ pc \in {"layout", "use", "confirm"} /\ ~host_failed /\ idx < NumChunks
    /\ IF Len(head) + Len(rest) = size
       THEN /\ host' = Append(host, head \o rest)
            /\ reader' = [part |-> IF rest = <<>> THEN from.part ELSE from.part + 1,
                          at |-> from.at + size]
            /\ UNCHANGED host_failed
       ELSE host_failed' = TRUE /\ UNCHANGED <<host, reader>>
    /\ UNCHANGED <<wvars, memory, request, pc, device_map, copied, gpu, gpu_failed, model, copies>>
\* A turn of the reading loop.  A chunk ends in the next partition at most:
\* one that would need a third is an error, and the load fails.
ReadChunk ==
    LET idx == Len(host)
        from == IF idx % ChunkPerThread = 0 THEN Start(idx * ChunkSize) ELSE reader
        size == Lesser(ChunkSize, ModelSize - idx * ChunkSize)
        head == Pread(from.part, from.at, size)
        rest == IF Len(head) < size /\ from.part < Len(files)
                THEN Pread(from.part + 1, 0, size - Len(head)) ELSE <<>>
    IN
    /\ pc \in {"layout", "use", "confirm"} /\ ~host_failed /\ idx < NumChunks
    /\ IF Len(head) + Len(rest) = size
       THEN /\ host' = Append(host, head \o rest)
            /\ reader' = IF rest = <<>>
                         THEN [part |-> from.part, at |-> from.at + size]
                         ELSE [part |-> from.part + 1, at |-> Len(rest)]
            /\ UNCHANGED host_failed
       ELSE host_failed' = TRUE /\ UNCHANGED <<host, reader>>
    /\ UNCHANGED <<wvars, memory, request, pc, device_map, copied, gpu, gpu_failed, model, copies>>

-----------------------------------------------------------------------------
(* The layout on the devices.                                              *)

\* _expand_tensor_name: the tensors in the order they get their device; a
\* name that several modules are a prefix of has the device of the last one.
Expanded ==
    LET enter(map, entry) ==
            FoldLeft(LAMBDA mp, n :
                IF n \notin Prefixed[entry.module] THEN mp
                ELSE IF \E i \in DOMAIN mp : mp[i].name = n
                THEN [i \in DOMAIN mp |-> IF mp[i].name = n
                         THEN [mp[i] EXCEPT !.device = entry.device] ELSE mp[i]]
                ELSE Append(mp, [name |-> n, device |-> entry.device]),
              map, TensorNames)
    IN FoldLeft(enter, <<>>, device_map)

Devices == {Expanded[i].device : i \in DOMAIN Expanded}

\* calculate_device_memory and calculate_tensor_device_offsets: the tensors
\* of a device one after the other, and the copies that fill them.  Tensors
\* with the same bytes in the file are laid out once, wherever they are: the
\* offset recorded is that of the first one's device.
Layout ==
    LET add(l, e) ==
            LET key == <<TensorOffset(e.name), data[e.name].size>>
                known == {r \in l.record : r.key = key}
                end == l.end[e.device]
            IN IF known # {}
               THEN [l EXCEPT !.at = @ \cup {[name |-> e.name, device |-> e.device,
                                              at |-> (CHOOSE r \in known : TRUE).at]}]
               ELSE [at |-> l.at \cup {[name |-> e.name, device |-> e.device, at |-> end]},
                     record |-> l.record \cup {[key |-> key, at |-> end]},
                     copies |-> l.copies \cup {[device |-> e.device, src |-> key[1],
                                                size |-> key[2], dst |-> end]},
                     end |-> [l.end EXCEPT ![e.device] = @ + key[2]]]
    IN FoldLeft(add, [at |-> {}, record |-> {}, copies |-> {},
                      end |-> [d \in Devices |-> 0]], Expanded)

\* Mutant of Pieces: the chunks after the first are not cut at its offset.
PiecesAligned(copy) ==
    {[chunk |-> c, from |-> 0, size |-> Lesser(ChunkSize, copy.size),
      dst |-> copy.dst + (c - (copy.src \div ChunkSize)) * ChunkSize] :
        c \in {k \in 0 .. NumChunks - 1 : k >= copy.src \div ChunkSize
                                     /\ k * ChunkSize < copy.src + copy.size}}
\* MapDataToChunks: the parts of a copy that lie in each chunk.
Pieces(copy) ==
    {[chunk |-> c,
      from |-> Larger(copy.src - c * ChunkSize, 0),
      size |-> Lesser(copy.src + copy.size, (c + 1) * ChunkSize) - Larger(copy.src, c * ChunkSize),
      dst |-> copy.dst + Larger(c * ChunkSize - copy.src, 0)] :
        c \in {k \in 0 .. NumChunks - 1 : (k + 1) * ChunkSize > copy.src
                                     /\ k * ChunkSize < copy.src + copy.size}}

\* load_dict_non_blocking: device memory is allocated, the copies are asked
\* for, and the tensors are views of the memory.
StartLoad ==
    /\ pc = "layout"
    /\ LET layout == Layout IN
       /\ gpu' = [d \in Devices |-> Gaps(layout.end[d])]
       /\ copies' = layout.copies
       /\ copied' = [d \in Devices |-> 0]
       /\ model' = layout.at
    /\ pc' = IF request.use = "quantize" THEN "confirm" ELSE "use"
    /\ UNCHANGED <<wvars, memory, request, device_map, host, reader, host_failed,
                   gpu_failed>>

\* The device's task copies what it needs of the next chunk.
Copy(d) ==
    LET c == copied[d]
        pieces == {p \in UNION {Pieces(x) : x \in {y \in copies : y.device = d}} :
                      p.chunk = c}
        byte(i) == LET hit == {p \in pieces : i \in p.dst + 1 .. p.dst + p.size} IN
                   IF hit = {} THEN gpu[d][i]
                   ELSE LET p == CHOOSE x \in hit : TRUE IN host[c + 1][p.from + i - p.dst]
    IN
    /\ pc \in {"use", "confirm"} /\ d \notin gpu_failed
    /\ c < Len(host)
    /\ gpu' = [gpu EXCEPT ![d] = [i \in DOMAIN @ |-> byte(i)]]
    /\ copied' = [copied EXCEPT ![d] = c + 1]
    /\ UNCHANGED <<wvars, memory, request, pc, device_map, host, reader,
                   host_failed, gpu_failed, model, copies>>

CopyFails(d) ==
    /\ pc \in {"use", "confirm"} /\ d \notin gpu_failed
    /\ copied[d] < NumChunks /\ Cardinality(gpu_failed) < MaxCopyFailures
    /\ gpu_failed' = gpu_failed \cup {d}
    /\ UNCHANGED <<wvars, memory, request, pc, device_map, host, reader,
                   host_failed, copied, gpu, model, copies>>

View(v) == SubSeq(gpu[v.device], v.at + 1, v.at + data[v.name].size)

Copied(v) == [name |-> v.name, bytes |-> View(v)]

\* The tensors become the model's as they are: views of the device memory.
UseViews ==
    /\ pc = "use" /\ request.use = "view"
    /\ pc' = "confirm"
    /\ UNCHANGED <<wvars, memory, request, device_map, host, reader, host_failed,
                   copied, gpu, gpu_failed, model, copies>>

\* load_lora copies the bytes that are there now into the adapter's parameters
\* (as set_module_tensor_to_device does for another torch_dtype), and
\* confirms afterwards.
CopyTensors ==
    /\ pc = "use" /\ request.use = "copy"
    /\ model' = {Copied(v) : v \in model}
    /\ pc' = "confirm"
    /\ UNCHANGED <<wvars, memory, request, device_map, host, reader, host_failed,
                   copied, gpu, gpu_failed, copies>>

\* quantize converts the tensors after its confirm_model_loaded; the caller's
\* own confirm_model_loaded finds the replica loaded.
Quantize ==
    /\ pc = "use" /\ request.use = "quantize"
    /\ model' = {Copied(v) : v \in model}
    /\ pc' = "done"
    /\ UNCHANGED <<wvars, memory, request, device_map, host, reader, host_failed,
                   copied, gpu, gpu_failed, copies>>

\* ToGpu waits for the dispatcher, which waits for every chunk, and then for
\* the devices.
Ended == Len(host) = NumChunks
         /\ \A d \in DOMAIN copied : copied[d] = NumChunks \/ d \in gpu_failed

\* confirm_model_loaded returns when the store is done with the replica; no
\* caller looks at whether it succeeded.
ConfirmLoad ==
    /\ pc = "confirm" /\ Ended
    /\ pc' = IF request.use = "quantize" THEN "use" ELSE "done"
    /\ UNCHANGED <<wvars, memory, request, device_map, host, reader, host_failed,
                   copied, gpu, gpu_failed, model, copies>>

Terminating == /\ pc \in {"raised", "done"} \/ (pc = "save" /\ saved /\ failures > 0)
               /\ UNCHANGED vars

Next ==
    \/ Write \/ Place \/ BestEffortPlace \/ ReadChunk \/ StartLoad
    \/ UseViews \/ CopyTensors \/ Quantize \/ ConfirmLoad
    \/ \E d \in DOMAIN copied : Copy(d) \/ CopyFails(d)
    \/ Terminating

Spec == Init /\ [][Next]_vars

-----------------------------------------------------------------------------
(* Properties of a load. *)

TypeOK ==
    /\ WTypeOK
    /\ pc \in {"save", "layout", "use", "confirm", "done", "raised"}
    /\ \A i \in DOMAIN device_map : /\ device_map[i].module \in Range(ModuleNames)
                                      /\ device_map[i].device \in DOMAIN memory
    /\ \A d \in DOMAIN copied : copied[d] \in 0 .. Len(host)
    /\ gpu_failed \subseteq DOMAIN copied

\* Every chunk of files that were written without an error can be read: none
\* needs more than two partitions, and a thread starts where it should.
EveryChunkIsRead == ~host_failed

DisjointTies ==
    LET ties == Range(tied_no_split_modules) IN
    \A s, t \in ties : s # t => s.group \cap t.group = {}
DevicesOf(p) == {Expanded[i].device : i \in {j \in DOMAIN Expanded : data[Expanded[j].name].ptr = p}}
TiesTogether == \A p \in Pointers : Cardinality(DevicesOf(p)) <= 1

\* A placement that is not empty gives every tensor a device, and tensors
\* with one storage the same: the offsets on the devices (utils.py) count on
\* it.  Ties with a module in common can be torn apart, or have a module that
\* is put nowhere, and are left out.
TiesStayTogether ==
    pc = "layout" /\ device_map # <<>> /\ DisjointTies =>
        {Expanded[i].name : i \in DOMAIN Expanded} = Names /\ TiesTogether

\* A tensor that the model holds when load_model returns has the bytes that
\* were saved, in a layout over several devices and copied by several tasks,
\* when nothing failed, it was not copied too early and ties are together.
LoadedIsSaved ==
    pc = "done" /\ gpu_failed = {} /\ request.use # "copy" /\ TiesTogether =>
        \A v \in model :
            (IF request.use = "view" THEN View(v) ELSE v.bytes) = BytesOf(v.name)

\* What is read in chunks, copied by the layout and restored at its offsets is
\* what was saved.
ReadBack == TypeOK /\ EveryChunkIsRead /\ LoadedIsSaved

Merged == FoldLeft(Merge, no_split_modules, tied_no_split_modules)
\* The bytes a device gets in a balanced placement fit its memory, tied
\* modules moved to their device included.
BalancedFits ==
    pc = "layout" /\ request.strategy = "balanced" /\ DisjointTies =>
        \A d \in Devices : Layout.end[d] <= memory[d]

\* On two devices the split is one with the smallest gap, and there is one
\* whenever some split fits ("balanced" means that the gap between the sums
\* of the partitions is minimized, device_map_utils.py:230).
TwoWaySplitIsBest ==
    pc = "layout" /\ request.strategy = "balanced" /\ Len(memory) = 2 =>
        LET splits == Splits(Merged, memory)
            sizes == {SumOver(Merged.size, {m \in Range(Merged.names) : DeviceOf(device_map, m) = d}) : d \in 1 .. 2}
        IN IF splits = {} THEN device_map = <<>>
           ELSE DisjointTies => \A c \in splits : Max(sizes) - Min(sizes) <= SplitGap(Merged, memory, c)

\* The device maps keep together what must be, and use the memory they are given.
PlacementIsRight == TiesStayTogether /\ BalancedFits /\ TwoWaySplitIsBest

\* A model that load_model or load_lora returned has the bytes of its files
\* when the load did not fail ("# synchronize", transformers.py:490).
CopiedIsSaved ==
    pc = "done" /\ gpu_failed = {} /\ request.use = "copy" /\ TiesTogether =>
        \A v \in model : v.bytes = BytesOf(v.name)
=============================================================================
