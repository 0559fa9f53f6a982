------------------------- MODULE CheckpointWriter -------------------------
(***************************************************************************)
(* Saving a state dict: save_dict (sllm_store/torch.py) hands the tensors  *)
(* to SaveTensors (csrc/checkpoint/checkpoint.cpp), which writes one       *)
(* record for each storage through a TensorWriter and its AlignedBuffer    *)
(* into the files tensor.data_0, tensor.data_1, ...                        *)
(*                                                                         *)
(* A byte is <<p, i>>, the i-th of the storage at address p; Gap stands    *)
(* for a byte nobody chose (padding, a hole).  The loop of writeData is    *)
(* one action for each turn.  A pwrite can fail (full disk; a tail that    *)
(* O_DIRECT refuses because it is not aligned): it then writes nothing.    *)
(***************************************************************************)
EXTENDS Integers, Sequences, SequencesExt, FiniteSets

CONSTANTS
    TensorNames,        \* the keys of the state dict, in its order
    Pointers,           \* addresses of storages
    Sizes,              \* sizes of storages, in bytes
    Word,               \* records start at a multiple of this (8)
    kAlignment, kBufferSize, kPartitionMaxSize,
    Gap,                \* a byte that was not chosen
    MaxFailures         \* bound on the writes that fail

ASSUME WordAssumption == Word \in Nat \ {0}
ASSUME AlignmentAssumption == kAlignment \in Nat \ {0} /\ kAlignment % Word = 0
ASSUME BufferAssumption == kBufferSize \in Nat \ {0} /\ kBufferSize % kAlignment = 0
ASSUME PartitionAssumption == kPartitionMaxSize \in Nat
ASSUME StorageAssumption == Sizes \subseteq Nat
ASSUME NamesAssumption == TensorNames \in Seq(Range(TensorNames)) /\ IsInjective(TensorNames)
ASSUME GapAssumption == Gap \notin Pointers \X Nat
ASSUME FailureAssumption == MaxFailures \in Nat

VARIABLES
    data,           \* the state dict: data[name] is [ptr, size] of its storage
    files,          \* the bytes of the partitions on disk
    buffer,         \* buffer_ up to buf_pos_
    file_offset,    \* file_offset_ of the open partition
    partition_size, \* partition_size_
    offset,         \* offset_: where the next record starts
    count,          \* tensors of TensorNames that have their offset
    written,        \* bytes of the current record taken; -1 between records
    tensor_offsets, \* the offsets SaveTensors returns
    saved,          \* save_dict wrote tensor_index.json
    failures        \* writes that failed

wvars == <<data, files, buffer, file_offset, partition_size, offset, count,
           written, tensor_offsets, saved, failures>>

Names == Range(TensorNames)

\* The storages: tensors with the same address are views of one storage.
StateDicts == {d \in [Names -> [ptr : Pointers, size : Sizes]] :
                  \A a, b \in Names : d[a].ptr = d[b].ptr => d[a] = d[b]}

WInit ==
    /\ data \in StateDicts
    /\ files = <<>> /\ buffer = <<>> /\ file_offset = 0
    /\ partition_size = 0 /\ offset = 0 /\ count = 0 /\ written = -1
    /\ tensor_offsets = <<>> /\ saved = FALSE /\ failures = 0

Current == data[TensorNames[count + 1]]
More    == count < Len(TensorNames)
Gaps(n) == [i \in 1..n |-> Gap]
\* Bytes lo + 1 to hi of the current record.
Bytes(lo, hi) == [i \in 1..(hi - lo) |-> <<Current.ptr, lo + i>>]

\* pwrite: a write past the end of the file leaves a hole.
Pwrite(file, at, bytes) ==
    [i \in 1..(IF bytes = <<>> \/ at + Len(bytes) < Len(file) THEN Len(file) ELSE at + Len(bytes)) |->
        IF i \in at + 1 .. at + Len(bytes) THEN bytes[i - at]
        ELSE IF i <= Len(file) THEN file[i] ELSE Gap]

Put(bytes) == [files EXCEPT ![Len(files)] = Pwrite(@, file_offset, bytes)]

\* ~AlignedBuffer: what is left in the buffer goes to the file, and whether
\* it got there is not looked at.
Closed(ok) == IF files = <<>> \/ ~ok THEN files ELSE Put(buffer)

\* Mutant of Shared: a name is shared only with the one before it.
SharedAdjacent == IF count = 0 THEN {} ELSE {TensorNames[count]} \cap
                  {n \in Names : data[n].ptr = Current.ptr}
\* The tensors written before with the data of the current one.
Shared == {TensorNames[i] : i \in {j \in 1..count : data[TensorNames[j]].ptr = Current.ptr}}

\* The record of this storage exists: its offset is used again.
ShareRecord ==
    /\ More /\ written = -1 /\ Shared # {}
    /\ \E n \in Shared : tensor_offsets' = Append(tensor_offsets,
            tensor_offsets[CHOOSE i \in 1..count : TensorNames[i] = n])
    /\ count' = count + 1
    /\ UNCHANGED <<data, files, buffer, file_offset, partition_size, offset,
                   written, saved, failures>>

\* Mutant of NeedsPartition: only what is in the partition is compared.
NeedsPartitionLate == files = <<>> \/ partition_size > kPartitionMaxSize
NeedsPartition == files = <<>> \/ partition_size + Current.size > kPartitionMaxSize

\* writeRecord starts: a record that does not fit opens a new partition.
BeginRecord(ok) ==
    /\ More /\ written = -1 /\ Shared = {}
    /\ ok \/ (NeedsPartition /\ buffer # <<>> /\ failures < MaxFailures)
    /\ failures' = IF ok THEN failures ELSE failures + 1
    /\ written' = 0
    /\ IF NeedsPartition
       THEN /\ files' = Append(Closed(ok), <<>>)
            /\ buffer' = <<>> /\ file_offset' = 0 /\ partition_size' = 0
       ELSE UNCHANGED <<files, buffer, file_offset, partition_size>>
    /\ UNCHANGED <<data, offset, count, tensor_offsets, saved>>

Left == Current.size - written
Direct == Left > kBufferSize /\ buffer = <<>>
\* The direct write takes whole multiples of the alignment.
DirectSize == (Left \div kAlignment) * kAlignment

\* The large part of a record bypasses an empty buffer.
WriteDirect ==
    /\ written >= 0 /\ Direct
    /\ files' = Put(Bytes(written, written + DirectSize))
    /\ file_offset' = file_offset + DirectSize
    /\ written' = written + DirectSize
    /\ UNCHANGED <<data, buffer, partition_size, offset, count, tensor_offsets,
                   saved, failures>>

Smaller(a, b) == IF a < b THEN a ELSE b
\* What the buffer takes at once.  Once it is past its end (see Finish) the
\* difference wraps around and the whole rest is copied behind it: undefined,
\* the process may end here and the model keeps the bytes.
Taken == IF Len(buffer) > kBufferSize THEN Left
         ELSE Smaller(Left, kBufferSize - Len(buffer))

\* Mutant of FillBuffer: a full buffer is written over the one before.
FillBufferInPlace ==
    LET n == Taken
        buf == buffer \o Bytes(written, written + n)
    IN  /\ written >= 0 /\ Left > 0 /\ ~Direct
        /\ written' = written + n
        /\ IF Len(buf) = kBufferSize THEN files' = Put(buf) /\ buffer' = <<>>
                                     ELSE files' = files /\ buffer' = buf
        /\ UNCHANGED <<data, partition_size, offset, count, tensor_offsets,
                       saved, failures, file_offset>>
\* The rest goes through the buffer, which is written when it is full.
FillBuffer ==
    LET n == Taken
        buf == buffer \o Bytes(written, written + n)
        full == Len(buf) = kBufferSize
    IN  /\ written >= 0 /\ Left > 0 /\ ~Direct
        /\ written' = written + n
        /\ files' = IF full THEN Put(buf) ELSE files
        /\ file_offset' = IF full THEN file_offset + kBufferSize ELSE file_offset
        /\ buffer' = IF full THEN <<>> ELSE buf
        /\ UNCHANGED <<data, partition_size, offset, count, tensor_offsets,
                       saved, failures>>

Padding == IF Current.size % Word = 0 THEN 0 ELSE Word - (Current.size % Word)

\* writeRecord ends after n bytes of the record: padding, and the counters.
\* The pwrite of writePadding is not checked either: ok is FALSE if it fails.
Finish(n, buf, ok) ==
    LET padded == buf \o Gaps(Padding)
        stuck  == Len(padded) > kBufferSize
        full   == Padding > 0 /\ Len(padded) = kBufferSize
        total  == IF Padding > 0 /\ ~stuck THEN n + Padding ELSE n
    IN  /\ ok \/ full
        /\ files' = IF full /\ ok THEN Put(padded) ELSE files
        /\ file_offset' = IF full THEN file_offset + kBufferSize ELSE file_offset
        /\ buffer' = IF full THEN <<>> ELSE padded
        /\ tensor_offsets' = Append(tensor_offsets, offset)
        /\ offset' = offset + total
        /\ partition_size' = partition_size + total
        /\ count' = count + 1 /\ written' = -1

EndRecord(ok) ==
    /\ written >= 0 /\ Left = 0
    /\ ok \/ failures < MaxFailures
    /\ Finish(written, buffer, ok)
    /\ failures' = IF ok THEN failures ELSE failures + 1
    /\ UNCHANGED <<data, saved>>

\* A pwrite of writeData fails: what was taken so far is the size of the
\* record, and SaveTensors goes on with the next tensor.  A buffer that could
\* not be written stays full.
WriteFails ==
    /\ written >= 0 /\ Left > 0 /\ failures < MaxFailures
    /\ LET n == Taken
           buf == buffer \o Bytes(written, written + n)
       IN  \/ /\ Direct /\ Finish(written, buffer, TRUE)
           \/ /\ ~Direct /\ Len(buf) = kBufferSize
              /\ Finish(written + n, buf, TRUE)
    /\ failures' = failures + 1
    /\ UNCHANGED <<data, saved>>

\* All tensors have their offset: the last partition is closed and save_dict
\* writes tensor_index.json.
WriteIndex(ok) ==
    /\ ~More /\ ~saved
    /\ ok \/ (buffer # <<>> /\ failures < MaxFailures)
    /\ failures' = IF ok THEN failures ELSE failures + 1
    /\ files' = Closed(ok) /\ buffer' = <<>>
    /\ saved' = TRUE
    /\ UNCHANGED <<data, file_offset, partition_size, offset, count, written,
                   tensor_offsets>>

WNext ==
    \/ ShareRecord \/ WriteDirect \/ FillBuffer \/ WriteFails
    \/ \E ok \in BOOLEAN : BeginRecord(ok) \/ EndRecord(ok) \/ WriteIndex(ok)

WSpec == WInit /\ [][WNext]_wvars

-----------------------------------------------------------------------------
(* Properties of a save. *)

WTypeOK ==
    /\ data \in StateDicts
    /\ \A f \in DOMAIN files : \A i \in DOMAIN files[f] :
          files[f][i] = Gap \/ files[f][i] \in Pointers \X Nat
    /\ {file_offset, partition_size, offset} \subseteq Nat
    /\ count \in 0 .. Len(TensorNames) /\ Len(tensor_offsets) = count
    /\ written = -1 \/ (written \in Nat /\ More)
    /\ saved \in BOOLEAN /\ failures \in 0 .. MaxFailures

Stored == FlattenSeq(files)
TensorOffset(n) == tensor_offsets[CHOOSE i \in DOMAIN TensorNames : TensorNames[i] = n]
BytesOf(n) == [i \in 1 .. data[n].size |-> <<data[n].ptr, i>>]

\* When save_dict is done and no write failed, the bytes of every tensor are
\* where its offset says in the files read one after the other, at a multiple
\* of Word, whatever way they took (directly, through the buffer, over the
\* end of a partition).
RecordsAreInPlace ==
    saved /\ failures = 0 => \A n \in Names :
        /\ TensorOffset(n) % Word = 0
        /\ SubSeq(Stored, TensorOffset(n) + 1, TensorOffset(n) + data[n].size) = BytesOf(n)

\* A storage is written once, however many tensors are views of it.
OneRecordPerStorage ==
    failures = 0 => \A p \in Pointers :
        Cardinality({i \in DOMAIN Stored : Stored[i] = <<p, 1>>}) <= 1

\* A partition is not larger than kPartitionMaxSize and one padding, unless
\* one record alone is: the reader counts on large partitions (see ReadChunk).
PartitionsAreBounded ==
    failures = 0 => \A f \in DOMAIN files :
        \/ Len(files[f]) < kPartitionMaxSize + Word
        \/ \E p \in Pointers : \A i \in DOMAIN files[f] :
              files[f][i] = Gap \/ files[f][i][1] = p

\* What save_tensors leaves on the disk can be read by its index.
WrittenIsRight == RecordsAreInPlace /\ OneRecordPerStorage /\ PartitionsAreBounded
=============================================================================
