-------------------------- MODULE ActivationOffload --------------------------
(***************************************************************************)
(* AsyncDoubleBufferGroupOffloadHandler (verl/utils/activation_offload.py) *)
(* keeps the activations that a layer saves for its backward pass, a group *)
(* per layer, in host memory.  The host only enqueues: kernels on the      *)
(* compute stream, copies to the host on d2h_stream and back on            *)
(* h2d_stream.  Streams run in their own time, and wait for each other     *)
(* only where the handler says so.                                         *)
(*                                                                         *)
(* A group has a block of device memory of the compute stream ("gpu"), one *)
(* of h2d_stream once it is reloaded ("back") and a copy ("cpu").  The     *)
(* caching allocator may give what was released to the next operation that *)
(* the stream it belongs to allocates for, which then writes "over" it.    *)
(***************************************************************************)
EXTENDS Integers, Sequences, FiniteSets

CONSTANTS
    NumLayers,      \* num_model_group
    NumOffload,     \* num_offload_group
    Passes          \* micro-batches

OffloadAssumption ==
    /\ NumLayers \in Nat \ {0} /\ NumOffload \in 1..NumLayers
    /\ Passes \in Nat \ {0}

Groups == 0..(NumLayers - 1)
Streams == {"compute", "d2h", "h2d"}
Blocks == {"gpu", "back", "cpu"} \X Groups

\* layer_window_map: the commit that ends the window of each offloaded group.
Window ==
    [i \in 0..(NumOffload - 1) |->
        LET extra == NumLayers % NumOffload
        IN (NumLayers \div NumOffload) * (i + 1) - 1 + IF i < extra THEN i + 1 ELSE extra]

VARIABLES
    host,           \* what the host does next
    pass,
    current_group,
    offloaded_group_count,
    tag_to_state,   \* of a group's tensors: none, saved, tuple (on the host), loaded
    tag_to_buf,     \* the groups whose tensors the buffer still refers to
    group_offload_mapping,
    released,       \* the blocks nothing refers to since they were last allocated
    work,           \* per stream: how much was enqueued, and what of it is pending
    memory          \* the pass whose activations a block holds, 0 if none

offloadVars == <<host, pass, current_group, offloaded_group_count, tag_to_state, tag_to_buf,
                 group_offload_mapping, released, work, memory>>

Put(w, s, op) ==
    [w EXCEPT ![s].issued = @ + 1, ![s].pending = Append(@, op)]

\* s.wait_stream(other)
WaitStream(w, s, other) ==
    Put(w, s, [kind |-> "wait", on |-> other, until |-> w[other].issued])

BothOneWay(w, s) == WaitStream(w, "compute", s)

Both(w, s) == WaitStream(WaitStream(w, s, "compute"), "compute", s)

\* A block belongs to the stream that was current when it was allocated.
Pool(s) == released \intersect ({IF s = "compute" THEN "gpu" ELSE "back"} \X Groups)

Do(w, s, kind, block) ==
    Put(w, s, [kind |-> kind, block |-> block, value |-> pass,
               over |-> IF s = "d2h" THEN {} ELSE Pool(s)])

Raise ==
    /\ host' = "raised"
    /\ UNCHANGED <<pass, current_group, offloaded_group_count, tag_to_state, tag_to_buf,
                   group_offload_mapping, released, work, memory>>

OffloadInit ==
    /\ host = "forward" /\ pass = 1
    /\ current_group = 0 /\ offloaded_group_count = 0
    /\ tag_to_state = [g \in Groups |-> "none"]
    /\ tag_to_buf = {} /\ group_offload_mapping = {} /\ released = {}
    /\ work = [s \in Streams |-> [issued |-> 0, pending |-> <<>>]]
    /\ memory = [b \in Blocks |-> 0]

-----------------------------------------------------------------------------
\* A layer runs forward, and tensor_push sees each tensor it saves.
LayerForward ==
    /\ host = "forward"
    /\ IF tag_to_state[current_group] # "none" THEN Raise ELSE
       /\ host' = "commit forward"
       /\ tag_to_state' = [tag_to_state EXCEPT ![current_group] = "saved"]
       /\ tag_to_buf' =
            IF current_group < NumOffload THEN tag_to_buf \union {current_group} ELSE tag_to_buf
       /\ work' = Do(work, "compute", "forward", <<"gpu", current_group>>)
       /\ released' = released \ Pool("compute")
       /\ UNCHANGED <<pass, current_group, offloaded_group_count, group_offload_mapping, memory>>

\* bulk_offload_group: what the handler holds of a group is now the copy.
Offloaded(states, g) ==
    IF states[g] = "saved" THEN [states EXCEPT ![g] = "tuple"] ELSE states

BulkOffload(w, states, g) ==
    IF states[g] = "saved" THEN Do(w, "d2h", "offload", <<"gpu", g>>) ELSE w

\* on_group_commit_forward, after each layer.  The first group starts its copy; the
\* end of a window waits for the copy of the group before, releases it, and
\* starts the next.
CommitForward ==
    /\ host = "commit forward"
    /\ LET g == current_group
           n == offloaded_group_count
           starts == g = 0
           states == IF starts THEN Offloaded(tag_to_state, 0) ELSE tag_to_state
           begun == IF starts THEN BulkOffload(WaitStream(work, "d2h", "compute"), tag_to_state, 0)
                    ELSE work
           ends == Window[n] = g
           more == ends /\ n < NumOffload - 1
           waited == IF ends THEN Both(begun, "d2h") ELSE begun
           free == ends /\ n \in tag_to_buf /\ states[n] = "tuple"
       IN IF n \notin DOMAIN Window THEN Raise ELSE
          IF more /\ states[n + 1] = "tuple" THEN Raise ELSE
          /\ work' = IF more THEN BulkOffload(waited, states, n + 1) ELSE waited
          /\ released' = released \union IF free THEN {<<"gpu", n>>} ELSE {}
          /\ tag_to_state' = IF more THEN Offloaded(states, n + 1) ELSE states
          /\ tag_to_buf' = IF ends THEN tag_to_buf \ {n} ELSE tag_to_buf
          /\ group_offload_mapping' = group_offload_mapping
                \union (IF starts THEN {0} ELSE {}) \union (IF more THEN {n + 1} ELSE {})
          /\ offloaded_group_count' = IF ends THEN n + 1 ELSE n
          /\ current_group' = g + 1
          /\ host' = IF g + 1 = NumLayers THEN "commit backward" ELSE "forward"
          /\ UNCHANGED <<pass, memory>>

\* on_group_commit_backward, before each layer: the beginning of a window waits
\* for the reload under way and starts the next, and the first layer waits for all.
CommitBackward ==
    /\ host = "commit backward"
    /\ LET g == current_group - 1
           n == offloaded_group_count - 1
           begins == Window[n] = g
           waited == IF begins THEN Both(work, "h2d") ELSE work
           moves == begins /\ tag_to_state[n] = "tuple"
           reloaded == IF moves THEN Do(waited, "h2d", "reload", <<"back", n>>) ELSE waited
       IN IF g < 0 \/ n \notin DOMAIN Window THEN Raise ELSE
          IF begins /\ n \notin group_offload_mapping THEN Raise ELSE
          /\ work' = IF g = 0 THEN WaitStream(reloaded, "compute", "h2d") ELSE reloaded
          /\ released' = released \ IF moves THEN Pool("h2d") ELSE {}
          /\ tag_to_state' =
                IF moves THEN [tag_to_state EXCEPT ![n] = "loaded"] ELSE tag_to_state
          /\ group_offload_mapping' =
                IF begins THEN group_offload_mapping \ {n} ELSE group_offload_mapping
          /\ offloaded_group_count' = IF g = 0 THEN 0 ELSE IF begins /\ n > 0 THEN n ELSE n + 1
          /\ current_group' = g
          /\ host' = "backward"
          /\ UNCHANGED <<pass, tag_to_buf, memory>>

Block(g) == <<IF tag_to_state[g] = "loaded" THEN "back" ELSE "gpu", g>>

\* A layer runs backward: tensor_pop hands out what the layer saved, which nothing
\* refers to once its kernels are enqueued.
LayerBackward ==
    /\ host = "backward"
    /\ LET g == current_group
       IN IF tag_to_state[g] \notin {"saved", "loaded"} THEN Raise ELSE
          /\ work' = Do(work, "compute", "backward", Block(g))
          /\ released' = (released \ Pool("compute")) \union {Block(g)}
          /\ tag_to_state' = [tag_to_state EXCEPT ![g] = "none"]
          /\ tag_to_buf' = tag_to_buf \ {g}
          /\ pass' = IF g = 0 /\ pass < Passes THEN pass + 1 ELSE pass
          /\ host' = CASE g > 0 -> "commit backward"
                       [] g = 0 /\ pass < Passes -> "forward"
                       [] OTHER -> "done"
          /\ UNCHANGED <<current_group, offloaded_group_count, group_offload_mapping, memory>>

Host == LayerForward \/ CommitForward \/ CommitBackward \/ LayerBackward

-----------------------------------------------------------------------------
Executed(s) == work[s].issued - Len(work[s].pending)

Copy(block) == <<"cpu", block[2]>>

Written(op) ==
    LET junk == [b \in Blocks |-> IF b \in op.over THEN 0 ELSE memory[b]]
    IN CASE op.kind = "forward" -> [junk EXCEPT ![op.block] = op.value]
         [] op.kind = "offload" -> [junk EXCEPT ![Copy(op.block)] = memory[op.block]]
         [] op.kind = "reload" -> [junk EXCEPT ![op.block] = memory[Copy(op.block)]]
         [] op.kind = "backward" -> junk

\* A stream executes what was enqueued on it, in that order.
Execute(s) ==
    /\ work[s].pending # <<>>
    /\ LET op == Head(work[s].pending)
       IN \/ op.kind = "wait" /\ Executed(op.on) >= op.until /\ UNCHANGED memory
          \/ op.kind # "wait" /\ memory' = Written(op)
    /\ work' = [work EXCEPT ![s].pending = Tail(@)]
    /\ UNCHANGED <<host, pass, current_group, offloaded_group_count, tag_to_state, tag_to_buf,
                   group_offload_mapping, released>>

OffloadNext == Host \/ \E s \in Streams : Execute(s)

Fairness == WF_offloadVars(Host) /\ \A s \in Streams : WF_offloadVars(Execute(s))

OffloadSpec == OffloadInit /\ [][OffloadNext]_offloadVars /\ Fairness

-----------------------------------------------------------------------------
OffloadTypeOK ==
    /\ host \in {"forward", "commit forward", "commit backward", "backward", "done", "raised"}
    /\ pass \in 1..Passes
    /\ current_group \in 0..NumLayers /\ offloaded_group_count \in 0..NumOffload
    /\ tag_to_state \in [Groups -> {"none", "saved", "tuple", "loaded"}]
    /\ tag_to_buf \subseteq Groups /\ group_offload_mapping \subseteq Groups
    /\ released \subseteq Blocks
    /\ memory \in [Blocks -> 0..Passes]

\* However far the streams lag behind the host and each other, the backward
\* kernels of a layer read the activations its forward kernels wrote in the same
\* pass: no copy is early, no block is given away while it is read.
ReadsWhatWasSaved ==
    LET pending == work["compute"].pending
    IN pending # <<>> /\ Head(pending).kind = "backward" =>
         memory[Head(pending).block] = Head(pending).value

\* The windows end where they should: no assertion of the handler fails, nothing
\* is looked up that is not there, and between two micro-batches the handler is
\* as it was at first.
HandlerIsReset ==
    /\ host # "raised"
    /\ host \in {"forward", "done"} /\ current_group = 0 =>
         /\ offloaded_group_count = 0 /\ tag_to_buf = {} /\ group_offload_mapping = {}
         /\ \A g \in Groups : tag_to_state[g] = "none"

OnDevice == tag_to_buf \union {g \in Groups : tag_to_state[g] \in {"saved", "loaded"}}

\* enable_activation_offloading: "there are at most two activation groups in GPU
\* memory".  That is while it offloads all groups but the last.
TwoGroupsOnDevice == NumOffload = NumLayers - 1 => Cardinality(OnDevice) <= 2

\* The streams never wait for each other in a circle.
PassesEnd == <>(host = "done" /\ \A s \in Streams : work[s].pending = <<>>)
=============================================================================
