# On-Policy-Distill in TLA+

Specifications, model-checking runs and proofs for the parts of this repository
whose correctness depends on concurrency, failure, order, or arithmetic that is
easy to get wrong: the teacher RPC client of on-policy distillation (OPD), what a
teacher with another tokenizer is asked and how its log-probabilities are aligned
with the student's tokens, the OPD loss, the pipelines that overlap or repeat
generation (`recipe/gkd`, `recipe/one_step_off_policy`, `recipe/dapo`,
`recipe/vla`, `recipe/fully_async_policy` down to its interrupted requests), the PPO step over
worker groups and over the transfer queue, the agent loops and the servers they
call, checkpoints, and what happens to a batch between rollout and optimizer step.

## The system

The repository is a fork of verl with OPD added. A training step generates
responses with the student (rollout), has a teacher score them, turns the
teacher's log-probabilities into an advantage per token, and updates the actor.

| part | state it keeps | operations | hard behaviour |
|---|---|---|---|
| Teacher client (`verl/workers/reward_manager/opd.py`, `TeacherClient`) | task queue, futures, one REQ socket per thread | `submit`, `bg_task`, `get_teacher_knowledge` with its retry loop | receive timeouts, late replies, retries that leave old futures in flight, sockets that must alternate send and receive |
| Teacher server (`recipe/gkd/teacher/proxy.py`, `worker.py`) | requests in flight | route, score, reply with an error | a worker that dies with its requests |
| Asking a teacher (`opd.py`, `retokenize_batch`, the bridges, the first part of `handle_futures`) | text, token ids, response boundaries | rewrite chat templates, re-encode, cut off, find the response again | tokens that span a boundary, log-probabilities shifted by one, end tokens of different tokenizers |
| Alignment (`opd.py`, `_align_chunks` and its caller) | pointers into two responses, chunk per token, statistics | walk over shared offsets, clip, skip, fill the row | unstable, repeated and backward boundaries, large chunks, clipping inside a chunk, truncated teachers |
| GKD pipeline (`recipe/gkd/ray_trainer.py`, `teacher_utils.py`) | generation futures, shared padded buffer, steps, checkpoint | two schedulers (generators), `fit`, save and load | overlap of rollout, scoring and training; failed teachers; restart |
| One-step-off recipe (`recipe/one_step_off_policy/ray_trainer.py`) | the batch being generated, reward tasks | synchronise, generate ahead, balance, reward behind, train, save | the first and last batch, an error, a restart; scores joined by position |
| DAPO recipe (`recipe/dapo/dapo_ray_trainer.py`) | groups collected so far, counters of steps and of generation batches | generate, filter groups, cut, train, save | counts of prompts and responses; the end of the data |
| PPO step (`verl/trainer/ppo/ray_trainer.py`, `single_controller`, `protocol.py`) | the batch, calls behind the driver, meshes of ranks | dispatch, collect, pad, balance, union | replicas and pipeline stages that answer too; a reward computed behind |
| Transfer queue recipe (`recipe/transfer_queue/ray_trainer.py`, `transferqueue_utils.py`) | columns of rows kept elsewhere, which tasks used them | put, get by readiness, reorder metadata | calls by worker that overlap the driver; rows consumed once per task |
| Rollouter (`recipe/fully_async_policy/fully_async_rollouter.py`) | pending queue, active tasks, cancel queue, staleness counter, pause flags, a lock with a condition | feed, processor, streaming tasks, monitor, `pause`, `update_param_version`, `resume` | coroutines that interleave at every await; decisions made before a lock is obtained |
| Message queue (`message_queue.py`) | bounded queue | put (drops the oldest), get | overflow, the end marker |
| Synchronizer and Trainer (`param_sync.py`, `fully_async_trainer.py`, `fully_async_main.py`) | versions, local step | collect, train, synchronize, finish | synchronization while the Rollouter is running; end of data |
| Partial loops and server (`fully_async_policy/agent_loop`, `vllm_rollout`) | cancel event and output per request, pause flag, a conversation saved in its output | `generate_for_partial`, `cancel`, `resume`, `run` with a restored state | a cancel that races with a completion; what is saved and restored |
| Tool agent loop (`verl/experimental/agent_loop/tool_agent_loop.py`) | state, parallel lists of ids, mask and log-probabilities, turns | pending, generate, tools, user | limits tested in different states, truncation |
| SGLang rollout (`workers/rollout/sglang_rollout`, `workers/rollout/schemas.py`) | requests as conversations and as ids, masks | tools, users, limits, cancelling what is over the target | requests that end, raise or hang while others are cancelled; ids and messages that must agree |
| Simulator loop (`recipe/vla`) | calls and answers of env workers and ranks, trajectories per stage | reset, act, observe, collate, mask and flatten | stages that overlap on shared workers; two orders of rows; a simulator that raises |
| Server manager (`agent_loop.py`) | heap of counters, LRU of requests | choose, generate | bounded memory of routed requests, several workers |
| Rate limiter (`verl/experimental/reward/reward_loop/limited.py`) | two token buckets, semaphore | acquire, score with timeout | coroutines sharing buckets, threads that cannot be stopped |
| Code sandbox (`verl/utils/reward_score/sandbox_fusion/utils.py`) | a thread per test case, a shared semaphore, results in the order of the cases | call, retry, collect as completed, mark what follows a compile error | threads that end in any order, gateways that time out while a permit is held |
| Hybrid engine (`fsdp_workers.py`, `vllm_async_server.py`) | where parameters, rollout weights and cache are; two random streams | `rollout_mode`, `trainer_mode`, `wake_up`, `sleep` | order of moves within one device, first synchronisation |
| Checkpoints (`ray_trainer.py`, `sft_trainer.py`, `utils/checkpoint`) | folders, tracker, dataloader states | save, rotate, finalise, load | crashes between any two writes, ranks that write in parallel, writes behind |
| Micro-batches (`seqlen_balancing.py`) | partitions of a heap | partition, agree on a count, reorder, restore | collectives that must pair up, two permutations |
| Activation offload (`utils/activation_offload.py`) | buffers on two devices, three streams with events | offload and reload windows of layers | copies that race with the layer that needs or frees them |
| Actor update (`dp_actor.py`, `engine_workers.py`, `losses.py`) | accumulated gradient, mini-batches | split, accumulate, step | weights that must not depend on the split, 0/0 |
| Advantages and losses (`core_algos.py`) | none | GAE, REINFORCE++, group baselines, OPD credit | holes in masks, sentinels, singleton groups |
| Engines, models, other recipes, tools | | | sequential, numeric, or a wrapper of an external system |

Interactions. The reward manager's driver thread calls the teacher client, whose
background threads talk to the proxy, which shares out requests to the workers.
The GKD driver pulls from a scheduler, which issues Ray calls that return futures
at once, and hands finished generations to its own teacher client. In the
asynchronous recipe the Rollouter pushes finished samples to the message queue,
the Trainer pulls them, and after every `trigger_parameter_sync_step` steps asks
the synchronizer to pause the Rollouter, broadcast the weights, and start
`update_param_version` and then `resume` without waiting for them.

An agent loop worker runs one tool loop per sample, which sends each turn to the
server the manager chose; the trainer wakes the servers before and puts them to
sleep after a batch, and the same processes hold the actor. A batch then gets its
rewards, its advantages, is balanced over ranks, split into mini- and
micro-batches and trained on, and from time to time saved.

The properties that make each part correct are stated in its module, next to the
hazard they are for; `PROJECT.json` lists the hazards with the lines where they
bite.

## Modules

**TeacherRPC.** The driver of `get_teacher_knowledge` (`StartCall`, `CollectRow`,
`SeeFailure`, `Retry`, `FillRows`), one background thread per microbatch
(`TakeTasks`, `PrepareFails`, `Send`, `SendRefused`, `Recv`, `Timeout`), the proxy
and the workers (`Forward`, `Serve`, `WorkerRestart`). A future is named by the
call and attempt that submitted it and by its position; an answer carries the
future whose prompts were scored, so that a mix-up is a state and not a
convention. `WorkerRestart` stands for anything that loses a request. The REQ
socket is external: it must alternate send and receive, and nothing in the client
relaxes or resets that.

A module `XProofs` holds the proofs about module `X` (below); `AlignChunksProofs` those
about `SandboxScore` and `SglangRollout` too, `TrainingProofs` those about `MicroBatches`, `Checkpoints` and
`ActivationOffload`, `RolloutsProofs` those about `ToolAgentLoop`, `PartialToolAgentLoop`
and `HybridEngine`, `ServicesProofs` those about `RateLimiter`, `ServerRouter` and
`PartialServer`.

**Retokenize.** A text is a sequence of symbols (template markers, newlines, roles,
words), a token the one or two symbols it spells, a log-probability the position
and token it is of; so "the wrong token's log-probability" and "the wrong text" are
states. `Retokenize` is `retokenize_batch` with the five ways of asking (chat
templates of four families, raw prompts, two bridges, one tokenizer), `Answer` the
teacher, `FindResponse` and `FillSame` the first part of `handle_futures`. What the
tokenizers merge is chosen in the initial state. AlignChunks takes it from there.

**GkdPipeline.** A scheduler is a generator; each iteration of its loop is a
*script* of operations (`sync`, `gen`, `teach`, `get`, `yield`), and the driver
works off the script one operation at a time. `one_step_off` and `two_step_off`
differ only in their scripts, read off the branches on `i`. Generations and
teacher requests complete behind the driver. `log` is the history of the weights
(which batch, generated by which version, trained at which, with whose scores);
a checkpoint remembers it together with the dataloader's position, so that what a
restart loses or repeats can be stated.

**OneStepOff.** `fit` of the recipe: `SyncAndGenerate` starts the next batch,
training goes on meanwhile, and the reward of a batch is a task behind the driver.
A batch carries the version it was generated with, a row the response it is of, so
that staleness and a score on the wrong row are both states. A failed generation
ends the job, a restart loads the newest checkpoint.

**DynamicSampling.** DAPO's loop: groups of responses are kept or dropped by their
scores, collected over generation batches, cut to the training size. The step
counter and the counter of generation batches are the code's, as is their use after
the data has ended.

**StepDataflow, PpoStep, TransferQueue, StepRows.** StepDataflow is the abstract step:
which column of a row may be computed from which others, once, and what the actor
is finally trained on. PpoStep is the driver's loop over worker groups: calls run
behind it on meshes of ranks (replicas and pipeline stages included), rows are
balanced, padded, chunked, collected and joined by position. TransferQueue is the
same step when the rows stay in a storage and only metadata travels; a task reads
whatever is ready and marks it consumed. Both implement StepDataflow. StepRows holds
the operators of DataProto that both use.

**FullyAsync.** The Rollouter's coroutines share one event loop, so one action is
the code between two awaits that can suspend, and `busy` keeps the processor's
turn together. `lockQ` is the lock with its waiters, first come first served; a
coroutine enters it when it reaches `async with self.lock`. The processor's
program counter `proc` names where it stands; `Locked` is its turns with the
lock. The monitor decides in `MonitorWakes` and acts in `MonitorRecovers`, with
the lock between the two. `pause` is `PauseBegins`/`PauseEnds`, the broadcast is
`WeightsMove`, `update_param_version` is `UpdateBegins`/`UpdateEnds` (it awaits
the queue's size between reading its counts and storing their sum). The parameters
of a job are the record `config`, chosen in the initial state from the constant
`Configs`, so one run and one theorem speak of many jobs. `active_tasks` is `gen`, the
samples still generating, and `spent`, how many finished or cancelled tasks it still
holds. The case in which the drain loop finds every task gone before its first wait
and then reads an unbound `done_tasks` is left out. `from` and `tag` record the weights a sample was started with and the version it reports.
`Save` is the Trainer's checkpoint together with the Rollouter's dataloader, `Restart`
the loading of both: samples fed, held, active or queued are in memory only, and
`skipped` counts them.

**AlignChunks.** A decoded response is its text and, for each number of tokens,
where the prefix of that many tokens ends in the text (or that it is unstable).
This is all `_align_chunks` ever learns from a tokenizer, so any two tokenizers
are covered by ranging over all pairs of such decodings. `Start`, `Match`,
`Skip`, `EndWalk` are the walk; `Clip` and `Fill` are the caller's steps after it.

**OpdLoss.** `compute_policy_loss_opd` row by row and chunk by chunk, on rows as
the reward manager fills them (aligned, or token by token). Log-probabilities are
small integers and a share is a number of `Unit`s that every chunk length divides,
so that sharing a budget out is exact.

**ToolAgentLoop.** One action per handler; a token is its kind (the model's, an
opening or closing of a tool call, the environment's), a turn any sequence of
them, an answer its length. `Built` is the cut into prompt and response.

**PartialToolAgentLoop.** Extends it with the recipe's handler that can stop in
the middle of a turn (`Interrupted`), the agent loop worker's event, the server's
pause, and the Rollouter that cancels, synchronizes and resumes. It implements
ToolAgentLoop (`Uninterrupted`, `Implements`): the mapping takes
the pieces of an unfinished turn back (`Settled`) and hides events and versions, so
every interruption is a stutter and the step that completes a turn is
`Generating`. `WholeTurn` says whether the abstract loop searches all of a turn for
tool calls or may search its last part only, which is what the code does, so
`Uninterrupted` has it FALSE.

**SglangRollout.** The rollout that talks to SGLang itself: a request is a
conversation and, beside it, ids, a mask and their lengths; a coroutine per request
runs `_async_rollout_a_request`, the driver waits for the target count and cancels
the rest. Tools may say something when they are created, answers have any length,
and a request may hang or, wherever a tool or an interaction is called, raise; the engine
is taken to answer.

**PartialServer.** One request per id: `Register` registers under the lock,
`GenerateStep` extends the output, `WaitEnds` is `asyncio.wait`, `Collect` the code
after it. `Cancel`, `Resume`, `ResetBegins`/`ResetEnds` are the server's calls;
`Ask` and `Reply` the single-turn loop that joins the pieces.

**EnvLoop.** The rollout of `recipe/vla`. Env workers and model ranks serve queues of
calls; the driver goes through the stages, first handing actions to simulators and
then observations to the model. An observation names its environment and moment and
an action the observation it was computed from, so an action for the wrong environment
and a row pieced together from two are states. The trainer's response mask, scores and
flattened rows are operators of what `run` returns.

**ServerRouter.** Workers with a heap of counters and an LRU each. What matters of
a heap is that its top is a least element; `Choose` takes any least server.

**RateLimiter.** The bucket counts in units of time; a coroutine between two awaits
is one action, and time passes (`Tick`) only when no coroutine can run. The model is of
one process: the buckets are attributes of a class, so every process of reward workers has
its own, and the limits say nothing of what several processes send together, whatever
`limited.py:304` logs ("All limiters are shared globally across all workers"). `threads`
are scorers in the default executor, which outlive their request. `granted` is a reference
bucket beside each real one: it is charged when a request goes on, not when it pays.

**SandboxScore.** A thread per test case: it acquires, calls, is perhaps told to retry,
sleeps with the permit in its hand, and ends; the main thread takes results as they
come. What the sandbox says of a case is drawn once (`says`); failures and time-outs are
free. `others` are the threads of other responses. A result is the code's number
(`True` and `False` are 1 and 0); of the statuses only those are told apart that belong
to different numbers.

**HybridEngine.** Ranks change mode independently between two calls of the
trainer. How the job is configured (offloading, freeing the cache, the sleep level, an
adapter, a base loaded at the start) is the record `setup`, chosen in the initial
state. The actor's version is its number of updates; `base` and `adapter` say
which version a rollout holds; `params`, `weights` and `kv` where memory is taken.
A random state is the stream it belongs to.

**Checkpoints.** A file on disk is the life of the job that wrote it, so shards of
two lives in one folder can be told apart. Every write is a step, `Crash` may come
between any two, ranks write in parallel, and Megatron's asynchronous save
completes behind (`WriteBehind`, `Finalized`). What a job is set up with (PPO or SFT,
FSDP or Megatron, its ranks, epochs, how often it saves and how many folders it keeps)
is the record `job`, chosen in the initial state from the constant `Jobs`, so one run
and one theorem speak of all of them.

**ActivationOffload.** The host issues layers, copies and events; three streams work
behind it. A block has a place and contents, so reading a copy before it is
complete, or a block freed too early, is a state. The window of layers is a
parameter, although `enable_activation_offloading` only ever offloads all but the
last.

**MicroBatches.** Karmarkar-Karp as the code has it (states of k partial sums,
merged largest with smallest), the count agreed by an all-reduce, the reordering,
the forward passes as collectives, and the way back. `Partitions`/`EqualSize`
select the trainer's own use of it in `_balance_batch`.

**ActorUpdate.** A micro-batch contributes a *weight* to each token it holds, as a
fraction over a common denominator; the gradient is the bag of these weights. So
the question whether the update depends on how rows are split is a comparison of
weights. `Path` is `dp_actor.py` ("legacy") or the engine workers ("engine").

**TokenReturns, GroupAdvantages.** GAE and REINFORCE++ backwards along a row with
holes in its mask; GRPO, pass@k, RLOO, OPO and GPG over the rows of a batch, one
row per step because the code overwrites the scores in place. Scores are multiples
of 5040, so means are exact; `\gamma` and `\lambda` are powers of one half in units.

**MCFullyAsync, Pipelines, Advantages, Training, Rollouts, Services.** The
modules TLC runs. Each chooses one of several *settings* in its initial state and
then takes the steps of that module instance; what is not chosen stands still. So
one run asks one question of several configurations, and its properties conjoin,
setting by setting, the statements of the component modules (where each is stated
and explained). A setting is left out of a statement where the code does not keep
it; "What the runs show" says which and why.

## Runs

| run | what it asks | settings and bounds |
|---|---|---|
| `teacher_rpc` | Can answers be mixed up, futures be resolved twice, rows be lost or repeated, a call hang? | 2 threads, 2 calls, 1 retry, 1 worker. Two calls are what a late answer of the first needs to meet the second; one retry leaves futures of a failed attempt behind; with two threads one can be lost while the other works. |
| `teacher_overflow` | Does a context overflow abort the step? It does (finding). | 1 thread, 1 call |
| `pipelines` | Are staleness, order, coverage and losses bounded, is every step what the data flow promises, does `fit` end? | GKD: either scheduler, 7 batches (two iterations of the steady state and what follows the loop), a checkpoint every second step, 2 restarts, any teacher failure. One step off: 4 batches of 3 responses, 2 restarts, 1 error; with rewards: 3 batches, 2 epochs, 2 critic steps first. DAPO: 4 batches, generating 3 and training 2 prompts, at most 2 generation batches; and 5 batches, 2 and 3 prompts, no limit. PPO, with bypassed log-probabilities, and over the queue, with a reward function or a reward model: 2 prompts of 2 responses, 2 steps, meshes of 2 ranks, of 4 with replicas and of 4 with pipeline stages |
| `one_step_rewards` | Does every row keep its own score? It does not (finding). | 4 batches of 2 responses, rewards behind, balanced rows |
| `dapo_last_step` | Is the last step saved? It is not (finding). | 3 batches, the data ends before the last step |
| `fully_async` | How far ahead, how late, how many dropped, is anything else lost, what does on-policy mean, do both sides end? | five configurations, one chosen in the initial state. `Stale`, with and without partial rollout: 6 samples, batches of 2, threshold 0.5, two slots, a feeder one ahead, so that the limit, the pauses, the overflow and the end all occur. `OnPolicyPipeline`, with and without partial rollout: threshold 0, 8 samples, two steps per version, two versions and the final synchronization. `Restarted`: 5 samples, batches of 1, threshold 0, a checkpoint every version, 2 restarts |
| `fully_async_starves` | Does training always go on? It does not (finding). | the smallest instance; `PromptFairSpec` |
| `advantages` | Is a teacher asked about, and its answer taken for, the same response; is the alignment exact, the finest there is, and consistent with the row and what is reported; is credit shared fairly, do skipped tokens, masked rows or tool tokens leak into it? | asking: 17 pairs of student and teacher, conversations of up to two turns, responses of up to two symbols, each tokenizer merging some pairs, texts 0 to 2 tokens too long. Alignment: all pairs of decodings of at most 3 characters over 2 letters and 3 tokens, chunks of 3 tokens being large, clipping after 1 token: boundaries repeat, vanish and run backwards, and a clip can fall inside a chunk. OPD loss: 1 row of 3 tokens, 2 rows of 2 clamped, 2 rows token by token; GAE: rows of 4 tokens, every mask; REINFORCE++: 5 tokens, one turn; groups: 4 rows grouped in every way, up to 3 scores, for GRPO, GPG, RLOO, OPO, pass@k |
| `training` | Does a split lose, repeat or unbalance rows, does the update depend on it, do ranks wait for ever, does the backward pass read its own activations, can what the tracker names be loaded after any crash and does a restart go on from it? | micro-batches: 2 ranks of 3 rows, 1 rank of 5, balancing of 8 over 2; the actor: 2 ranks of 2 to 4 rows of 2 tokens, 1 or 2 epochs, four combinations of path, loss mode and micro-batches; offload: 5 layers, all but the last or 2 of them, two passes; checkpoints: PPO with FSDP, critic and 2 ranks and a save at any step; PPO and SFT with saves never between epochs; SFT that saves after each of 3 epochs; Megatron with and without asynchronous saves; 4 to 9 steps, 2 crashes, 2 folders kept (asynchronous: all) |
| `rollouts` | Is what a rollout returns sound, is an interrupted loop one that could have run uninterrupted, does it end; does generation use the trained weights, fresh prefixes and its own random numbers, and is there room? | interrupted: 2 turns of 3 tokens, answers of 1 or 2, 5 tokens of response, 2 versions; uninterrupted with tools, or with a user; SGLang: 1 request with tools and a user, every limit hit first in some behaviour; 3 requests of which 2 are wanted and 1 may hang; simulators: 2 workers, 2 stages, 2 ranks, 3 interactions of 2 actions, a success that comes and goes, a simulator that may raise. Hybrid engine: 2 ranks, 2 updates, 1 restart, and every setup in which the actor is offloaded exactly when the cache is freed: weights destroyed at each sleep, kept on the CPU, or never leaving the GPU; the whole model or a LoRA adapter; the base loaded at the start or not |
| `env_rows` | Do the rows of a rollout with simulators come in the order of its prompts? They do not (finding). | 2 workers, 2 stages, 2 interactions |
| `services` | Do the router, the partial server, the rate limiter and the code sandbox keep what they promise? | router: 1 worker, 3 batches of 2 conversations of 2 turns, a cache of 2; 2 workers of 2 conversations; server: 2 samples, 2 runs and 2 cancels, 2 tokens; limiter: 3 requests, a request costs a full bucket or more, 1 permit and coroutines, or 2 permits and one thread; sandbox: 3 cases, 2 permits, 2 attempts, one other call |

Deadlock checking is off in all runs: the driver, `fit`, the loops and the jobs
return, and the bounds stop the rest. That nothing stops too early is what
`EveryCallEnds`, `EveryFitEnds`, `BothEnd`, `UpdateEnds`, `RestartsGoOn`,
`LoopsEnd` and `RequestsReturn` say.

Every property of a passing run has a mutant: a plausible slip in one mapped
definition under which TLC finds the property violated.

### What the runs show

* Teacher client. Lockstep on the sockets protects the answers, at a price: a
  thread that once timed out never scores again (`TimedOutThreadIsLost`); it keeps
  taking tasks and failing them. Every call ends, because every path of `bg_task`
  resolves what it took. A context overflow aborts the call although a comment says
  it must not (finding).
* GKD. Staleness is at most two updates for *both* schedulers: two for
  `two_step_off` by design, and two for `one_step_off` because its second
  generation skips the synchronization after the first batch was trained. A restart
  loses the batches in flight, one or two. The padded buffer of `teacher_utils` is
  safe only because it is written in `get()` by the driver, immediately before the
  batch is yielded.
* One step off. A batch is trained by the weights that generated it or one update
  later; within an epoch batches are trained in order, none twice, and a restart skips
  the batch that was generated ahead, so the run ends a step short without its last
  checkpoint. Validation measures weights one update old, two after the last step. With `launch_reward_fn_async` and balanced rows the
  scores are joined to the wrong rows (finding).
* DAPO. Groups stay whole, a step trains exactly its number of prompts, and each
  prompt at most once. When the data ends, the counter stands one past the last step
  and the test for an existing checkpoint misses it (finding).
* PPO step. On every mesh each row gets the columns computed from its own row, once,
  in the order of the data flow, and validation scores the outputs of its own
  inputs. Any order of balanced rows is allowed; MicroBatches says which it is.
  `DataProto.padding` pads the driver's own object in place, and what a call that
  does not block returns is not unpadded: `fit` waits for its padded calls.
* Transfer queue. The same holds over the storage with `balance_batch` on; without it
  the code reads `attention_mask_meta` before it is bound. `update_actor` asks for
  `ref_log_prob` even without a reference policy and would wait for ever,
  and `launch_reward_fn_async` fails where its result is taken; these settings are left
  out. After a resume the loop over epochs starts at 0 again.
* Fully asynchronous recipe. At threshold 0 it is on-policy, quiet during a
  broadcast, and drops nothing. Above it, the Rollouter is ahead by at most one
  sample more than the README's bound (the sample in the processor's hand is not
  counted), at most one sample is dropped per version, and no sample is trained
  more than `LagBound` versions after the one it reports: the number of updates in
  which the Trainer consumes `max_required_samples`, and one more for what it takes
  between a broadcast and the reset of the counter. Without partial rollout both sides
  always end; with it, counting a cancelled task twice can stop training for good
  (finding), and samples interrupted after the end signal stay in `cancel_queue`,
  where `SamplesAccounted` finds them. A restart skips what was in flight: at threshold
  0 at most what one parameter update consumes, a full pending queue and the sample
  waiting to be put (`RestartSkipsBounded`); what was trained is never trained again.
* Asking a teacher. The teacher reads the student's conversation in its own format and
  the part taken for the response spells the response, shifted log-probabilities and
  all. Left out of the statements, each as the code has it: a token that spans the
  beginning of a response is lost with its first characters (only `R1_ZERO_MODE`
  recovers it, and it refuses a response of one symbol first); the rules for DeepSeek
  and OLMo teachers drop the end marker of earlier answers; Qwen's endoftext becomes
  LLaMA's end_of_text, which a teacher that ends in eot_id does not take off; a prompt
  that ends in "Assistant:" swallows a leading newline; and when the length limit cuts
  off exactly the end token, its log-probability is taken from the token the teacher
  generated instead (`EosIsTheTeachers` is stated of texts that fit).
* Alignment. The walk tiles both responses, resynchronises equal texts, finds
  every shared boundary, and clipping keeps chunks whole and the student's
  statistics in step with the row. The teacher's count is not reduced by a clip.
* Advantages. Shares add up to the teacher's budget, tokens of a chunk are pushed the
  same way, EOS is only ever encouraged. GAE skips observations; REINFORCE++ starts
  over at them, so its statement is made of single turns. The vectorised GRPO is the
  plain one; a prompt with one response keeps its score in plain RLOO and gets 0 in
  the vectorised one, so the two are not compared.
* Batches. Partition, agreement and restoring are exact. A micro-batch may hold more
  than `max_token_len`, which only fixes their number, and `min_num_micro_batch`
  above the number of rows is refused, not padded. The engine path's update is
  independent of the split with token-mean and sequence-means; the older path is not
  with token-mean, and a micro-batch without a trainable token costs it the step, so
  its settings use sequence losses and rows with a trainable token.
  seq-mean-token-sum-norm is not multiplied by the number of ranks and has no
  setting.
* Activation offload. The backward pass of every layer reads what its forward pass
  wrote, in every order of the streams, and the host never waits for ever.
* Checkpoints. The tracked checkpoint is whole whatever happens, if the job is one of
  those `ModelsKept` describes: more than one folder is kept (a single one is removed
  before its successor is written), an asynchronous save rotates nothing, and Megatron
  saves no critic (its actor's manager moves the tracker before the critic is written).
  Its dataloader state is there under `DataKept`, which leaves out Megatron's own
  tracker (it moves before that state is written) and SFT on several ranks (all but the
  first write theirs while the tracker moves). A crash between truncating and writing
  the tracker leaves PPO a file that cannot be read, so `AlwaysLoads` is claimed of SFT
  and of asynchronous saves alone; and folders of earlier lives are never rotated, so
  their number is bounded for each life. A job ends in spite of crashes, with every step
  trained where no checkpoint but the last falls on the end of an epoch. Where one may
  (`SavesAtEpochEnd`: SFT's `after_each_epoch`, `sft_trainer.py:131`, a `save_freq` that
  divides an epoch, or a save at any step), a job that has crashed may end one epoch short,
  never more (`EnoughTrained`): such a checkpoint holds an exhausted dataloader, `fit`
  computes its first epoch from the step (`sft_trainer.py:260`, PPO's `current_epoch`,
  `ray_trainer.py:1627`), finds nothing left to read for it and goes on to the next, though
  the comment at `sft_trainer.py:249` says "we don't need to manually calculate epochs and
  steps". `SftEpochJob` and `PpoJob` reach this case. It rests on what torchdata's
  `StatefulDataLoader` does with a state taken after the last batch and before the end of
  the pass is noticed, which is not under `src/`, so it is stated in the property and is
  not a finding.
* Hybrid engine. Weights are current whenever something is generated, with one
  exception that `RunsOn` spells out: with a LoRA adapter and `load_format: dummy`, the
  default (`verl/workers/config/rollout.py:199`), `base_sync_done` is false at the first
  rollout after construction or a restart, the base alone is sent, and the batch is
  generated without the adapter (`fsdp_workers.py:641` and `701`). The LoRA examples set
  `load_format: safetensors`. The random streams stay apart in an engine that stays on
  the GPU; the sleep that follows construction in the others stores each rank's
  training state as its generation state.
* Tool loops. The lists stay aligned whatever interrupts them, and interruption is
  invisible but for one thing: the parser sees the last piece of a turn only, so a
  tool call begun before a pause can be lost. The uninterrupted loop it implements
  (`Implements`) may therefore overlook the beginning of a turn. A user's answer is appended without a
  test for room (`RoomToGenerate` is stated of tools alone).
* SGLang. Masks mark exactly the assistant's tokens, limits hold, and a batch returns
  with enough genuine rows although what it does not need hangs. The row reads as the
  conversation did when creating a tool says nothing; when it says something, the
  generation prompt is cut off the ids and the response begins inside the tool's
  message. A cancelled request's tools are never released, and
  `rollout_log_probs[-len(response_ids):]` counts rows, not tokens, of a 2-D tensor.
* Simulators. Every environment gets the actions computed from what it showed, a row is
  one environment's trajectory, and it is trained on up to its first success with one
  reward per chunk. The rows come stage by stage while state ids, uids and padding are
  in the order of the prompts, worker by worker (finding). A simulator that raises ends
  the run.
* Services. A least-requests heap with a bounded LRU balances within one and keeps
  conversations on their server while `max_cache_size` is at least a worker's chunk of a
  batch or, where batches overlap, all that the worker is ever given (`RoomForAll`); with
  less room the LRU may forget a conversation that is running. Pieces of a cancelled
  response join, and what a request cancelled before its first output leaves behind
  is empty. The buckets bound *grants*: paid requests wait for the semaphore and may
  then start together. Timed-out functions keep their thread, so only coroutines are
  bounded by the semaphore. Nobody is forgotten. Test cases keep their places and
  permits are never lost; a compile error of one case overrides every later result, and
  a retry sleeps with its permit, so slow gateways also hold up other responses.

### Fairness

* TeacherRPC: the driver and each thread run (threads of the operating system,
  and a receive returns because RCVTIMEO is set). Nothing is assumed of the proxy
  and the workers.
* GkdPipeline: the driver runs, and generations and teacher requests end (the
  client's receives time out).
* OneStepOff, DynamicSampling, PpoStep, TransferQueue: the driver runs, and what runs
  behind it (generation, ranks, rewards, storage) ends. SglangRollout: the driver and
  the coroutines that do not hang run. EnvLoop: the driver runs, and each worker and
  rank serves its calls. ActivationOffload: the host and each stream run.
* FullyAsync: the event loop runs each ready coroutine, generations end, Ray
  completes calls. The synchronizer's calls have strong fairness: `busy` blocks
  them only within a turn of the processor, but cancelled samples may keep the
  processor busy again and again during a broadcast. `PromptFairSpec` adds that a
  coroutine that is ready runs before anything that takes longer than a turn
  (generation, training, the broadcast, Ray calls, the monitor's sleep): the run that
  shows a disagreement uses it, so its trace does not rest on an event loop that lags.
* RateLimiter, PartialServer, PartialToolAgentLoop: the event loop runs what is
  ready, and time passes. A scorer need not answer: the timeout does. The server's
  lock has strong fairness, because resets may take it first again and again.
* ToolAgentLoop: the engine and the tools answer. SandboxScore: requests return or time
  out, and the threads run.
* HybridEngine, MicroBatches: ranks run; a collective completes when all have
  entered it. Checkpoints: a job that is up goes on; crashes are bounded, not fair.

## Proofs

`TeacherRPCProofs` proves, for any number of threads, microbatches per request,
workers, calls and retries, `Spec => []` of `TypeOK` (`TypeCorrect`), `AnswersMatch`
(`AnswersAreMatched`), `RowsFollowBatch` (`RowsAreInOrder`) and `ReturnIsComplete`
(`ReturnsAreComplete`), from the assumptions on the constants in TeacherRPC.

None of them is inductive alone. An answer is right because of what the sockets
guarantee: `WireInv` says that a thread has at most one message in flight, that
its socket then owes a receive, and that while the thread waits, the message
carries exactly the futures it holds. A timeout leaves the message behind but
also the debt, so the thread can never wait again while an old answer can arrive;
this is where the proof would fail if the socket were reopened. `RowsInv` says
that collected rows come from futures that did not fail and that the driver
sleeps only with a retry left. `IInv` is the conjunction of these with the type
invariant and the two properties; `DriverStep`, `ThreadStep` and `NetworkStep`
show that each action preserves it, one step per action.

The action properties `ResolvedOnce` (`FuturesResolveOnce`) and `TimedOutThreadIsLost`
(`TimedOutStaysLost`) are about who owns a future, which `QueueInv` states: a queued
future is pending and queued once, what a thread
holds is pending, not queued and not shared, and attempts not yet begun are
untouched. So the only step that resolves a future is its owner's, a retry submits
futures nobody has seen, and what a lost thread holds is changed by nobody else.
`SubmitOnce`, `TakeOnce` and `ResolveOnce` are the three ways ownership changes.

`AlignChunksProofs` proves `AlignmentIsExact` (`AlignmentExact`) and `RowIsSound`
(`RowSound`) for texts, tokens and vocabularies of any size and for decodings that do
anything to a prefix, from the assumptions that the bounds are naturals. The walk always
stands at a shared offset, at the last token on both sides that ends there
(`WalkStands`; `Boundary` is a maximum, which exists by `Least` and its dual), each
chunk begins where the one before it ended (`ChunksLink`), and an offset that is not
yet visited is only dropped when a pointer would run backwards, which monotone
decodings exclude (`NothingIsLost`). That the chunks tile and agree follows from how each links to the one before it. Of the row, a chunk that supervises one of its
tokens supervises all of them and nothing else (`SupervisedWhole`); clipping keeps that
because its tail begins where the chunk it would cut begins (`TailStart`).

Its second part is about SandboxScore, for any number of cases, attempts, permits and calls
of others: `PermitsConserved` and `ResultsAreOfTheirCases` (`SandboxResultsAreOwn`), the other
half of `PiecesMakeWhole`. What was collected of a case is what its thread came to
(`CollectedInv`), and the index that `check_correctness` keeps while futures end in any order
is the least of the cases that are collected and did not compile (`FirstInv`); that is enough
because `PostProcess` only runs when all are.

Its last part is about SglangRollout, for any number of requests, any lengths and limits,
whatever tools and users say or raise and whoever is cancelled. `SglangRowsAreSound` states
its type correctness, `MaskMarksAssistant`, `BatchIsWhole`, `NothingElseRaises` and
`TurnsBounded`, which the run checks in `OutputIsSound` on two instances. A request carries
`Marked` (ids and mask are as long as each other and agree on the assistant's tokens, also
where a generation prompt is taken off both) through every step of its
coroutine, and `Going`: it leaves the loop only with a reason that `finalize` knows, or at
its last turn, where `FinishReason` puts one in place of "tool_calls"; what raises is a
tool that is created, called, scored or released, or an interaction that is started or
answers (`CallRaises`). `Returned` ties what
was returned to the request it is of, and `DriverInv` counts: the order of those that
ended has each once, and while nothing raised all that were counted are genuine. For
`RowIsConversation` (`SglangRowsReadAsConversations`) there is a second invariant: prompt and
what the engine was shown last are prefixes of the ids (`InFront`), and strictly shorter
wherever a tool's message may take a token away. It needs the assumption that no tool speaks
when it is created: such a message takes the generation prompt out of the ids, and not out
of the prompt that the row puts in front of them.

`GkdPipelineProofs` proves type correctness (`TypeCorrect`), `StepsMatch`
(`StepsBelongTogether`), `DataIsUsedOnce` (`DataOnce`), and that a scheduler raises
only after a restart (`RaisesAfterRestart`), for any number of batches, checkpoints
and restarts. The script still to do determines what is in flight: `Position` lists,
for each place in the two generators, how many generations were issued, which is at the
teacher, and which the driver has. `due` is the next one to be trained; that a held
result has its own scores in the shared buffer is `HeldIsScored`, how old the weights of
a generation may be is `GeneratedFresh` and, where the scheduler has no
synchronization before its next generation, `NextIsFresh`. What a restart loses is
counted against the number of processes so far (`LossBounded`).

`FullyAsyncProofs` proves, for every set of configurations, `BacklogBounded`
(`BacklogStaysBounded`), `SamplesAccounted` (`NothingLost`) and `StrictlyOnPolicy`
(`OnPolicyAtZero`). Its invariant first says who holds or waits for the lock, where each
coroutine and call stands relative to the others, and that no sample is in two places
(`LockInv` to `OneplaceInv`). `AccountInv` is the conservation law: samples taken are
trained, in the batch, dropped or outstanding. `BacklogInv` says that
`staleness_samples` misses at most one outstanding sample, and that a miss is
paid for by a version in which nothing was dropped yet; `LagInv` bounds
what is consumed and outstanding by what the Trainer may consume before the next
reset. At threshold 0 the counter is exact except while the Trainer has met the limit
and everything stands still (`QuietInv`, `SettleInv`, `ExactInv`). Products of
parameters are folded into `Times`, because the solver is not good at them.

`RolloutsProofs` proves of PartialToolAgentLoop `ResumedIsSound` (`ResumedRunsAreSound`), the same
of the output (`OutputsAreSound`), and the refinement: `Implements`
(`ResumedRunsImplementOne`), and for the whole specification, interruptions included, that
every step is one of the uninterrupted loop or a stutter (`PartialRefinesWhole`).
`ListInv` keeps the three lists in step, `PieceInv` says that the unfinished turn is the end of each of them, which is what
makes cutting it off the right mapping, and `VersionInv` that every token was
generated between the versions that are reported.

It proves of the uninterrupted loop, tools and user turns included, the parts of `OutputIsSound`
that are about it: `ListsAligned`, `OutputTrainable` and `TurnsBounded` (`TrajectoriesAreSound`)
for any budget, limits of turns and tools, and `RoomToGenerate` (`ToolsLeaveRoom`) where no user
answers. A turn is whole as soon as it begins (`WholeTurnInv`), and each state of the loop knows
what the last turn and the budget were tested for (`WholeStageInv`): room is left after a tool's
answer because `_handle_processing_tools_state` measures it before it is appended.

`RolloutsProofs` proves of HybridEngine `GeneratesWithCurrent` (`RolloutsAreCurrent`) and
`DrawsItsOwn` (`RandomnessIsKept`) for every setup and any number of ranks, updates and
restarts. Ranks change mode one by one, so each part of its invariant says what holds of
a rank at its step of the change: where its actor is (`ParamsInv`), what memory is back
(`MemoryInv`), what it was sent (`SentInv`), and which random stream it draws from
(`RandomInv`).

`ServicesProofs` proves of RateLimiter `LimitsHold` (`LimitsAlwaysHold`) for every set of settings, any
number of requests and any order of wakes. A bucket whose requests fit is exactly the
reference bucket and never in debt (`StandardBucket`). One whose requests do not fit lets each
pay at once, into debt, and sleep; `OversizedBucket` says that each sleeps for at least the
debt there is, that the reference bucket will have room for it when it wakes, and that no two
sleeps end within the refill of one request (`DebtsArePaidInOrder`), without which two could wake
into the same room. The permits need the queue to be without repetition (`WaitersInv`), and
that the executor decodes each response once (`JobsInv`).

`ServicesProofs` proves of ServerRouter `TypeOK` (`RouterTyped`), `Balanced`
(`RouterBalanced`) and `SessionsStick` (`SessionsKeepTheirServer`) for any servers,
requests, workers, turns and cache size. Balance is
inductive once counters are known to be naturals: a step adds one to a least
counter, so the greatest exceeds the least by at most one afterwards. Sessions stick
where `RoomForAll` holds: a cache has as many places as conversations of its worker
that can be going on at a time. Its entries come in the order of their batches
(`BatchInv`), so what is forgotten before an entry of the current batch is older; were
one of the current batch forgotten, the cache would hold only entries of that batch
and one more than there are (`WindowFits`, `NotOnlyTheWindow`, a pigeonhole argument).

`ServicesProofs` proves of PartialServer `PiecesJoin`, `EndIsFinal` and `LeftoversAreEmpty`
(`PiecesAlwaysJoin`), the parts of `PiecesMakeWhole` that are about PartialServer, for
any samples, response length and number of runs and cancels. `StandsInv` says
which states of a call, its generation task and the answer of `asyncio.wait` go together,
so that only a cancelled call collects without a finished task. `PieceInv` says that
what is generated in a call goes on where the response ends, which holds when a
request_id is used again because `Register` sets its entries anew; `EosInv` says where the
last token is until the response has it.

`OneStepOffProofs` proves `OneStepBehind`, `MeasuresEarlier`, `InDataOrder` and `EndsShort`
(`StaysOneStepBehind`) and, unless rewards are launched with the generation and batches are
balanced as well, `RowsKeepScores` (`ScoresStayWithRows`), for any data, epochs, frequencies,
restarts and errors. `PlaceInv` says that the driver never holds more than the last two
futures, `VersionInv` and `MeasureInv` how far each may lag at each place of the loop,
`OrderInv` that futures hold consecutive batches. `ReadInv` counts the batches that were read
against steps and restarts: no step is trained without one, and a restart loses at most the
one that was generated ahead.

`TrainingProofs` proves of MicroBatches `TypeOK` (`MicroBatchesTyped`) and `Balanced`
(`MicroBatchesBalanced`) for any batch, lengths, ranks and number of partitions:
the spread of the parts is at most the widest state Karmarkar-Karp began with,
which without `EqualSize` is the longest row. The lemma is that merging two states
largest with smallest has a spread of at most the wider of the two; a mutant that
merges alike with alike breaks it.

`TrainingProofs` proves of Checkpoints `TrackedCanBeLoaded` (`TrackedCanAlwaysBeLoaded`)
and `ResumesAtLastSave` (`RestartsLoseNothingSaved`) for every set of jobs: any ranks,
steps, epochs, frequency, number of folders kept and number of crashes. The invariant
`JobInv` (`SavesAreOrdered`) says that the tracker never names the step being saved
before its models are stored (`TrackerInv`, `ShardsInv`), that a manager remembers its
paths in order and none but the last is later than the tracker (`SavedInv`, so rotation
with room for two cannot reach the tracked one), and that a pending asynchronous save
that is written is whole (`ShardsInv`). The number of folders needs those of earlier
lives apart from those remembered and the one half written (`FolderInv`): a crash turns
the latter into the former, and together they are at most `Keep`.

`TrainingProofs` proves of ActivationOffload (`BackwardReadsSaved`) that a backward kernel
reads what the forward kernels of its layer wrote in the same pass, that no assertion of
the handler fails and it is as at first between passes, and that two groups at most are on
the device where all but the last are offloaded: for any number of layers, offloaded groups
and passes, however far each stream lags behind the host. Positions in a stream count
from its beginning, so they stay when it executes; `Waits(s, k, t, u)` says that when s has
executed k operations, t has executed u, by what was waited for, and `After` that this is
so by way of the compute stream. `ReadsInv` is what makes the theorem inductive: for every
pending read there is a position of the writer of its block after which the block holds
the value of its pass, that comes before the read, while every later change of the block
comes after it. Executing never spoils an order and enqueueing never takes one back, so
what remains is what the host does: `HostInv` gives the state of each group from where the
windows stand (their ends are computed with a division, `WindowFacts`), `HeldInv` where the
values of groups are, `CopiesInv` that memory is released only after its copy was awaited,
and `ReloadsInv` that a reload is awaited before the layer of its window begins. A case
that is easy to overlook: where every group is offloaded, windows are one layer long, the
copy of a group other than the first is due before it is saved, and the group stays on the
device; `Moved` tells those apart.

Three things came out of proving rather than of checking. The bound on the lag of a sample
that earlier versions of FullyAsync stated holds on the instances of the run and fails
on larger ones: `LagBound` is the corrected one. A sample that is cancelled and submitted
again is in `active_tasks` twice until the loop looks at it, so only the generating ones are
a set and the others a count. And that the lists may be cut where an interrupted turn began is an invariant of its
own, without which the refinement cannot be shown.

What stays with TLC: the liveness properties, which are beyond the prover; of
MicroBatches `ItemsPartition` and `OutputsInPlace`, and of ServerRouter
`WorkersTogetherBalanced`, which are about sequences or sums built element by element
and need an induction over data; GAE and REINFORCE++ in TokenReturns, which are
recursive; of Checkpoints that training ends; and the safety of StepDataflow's two
implementations, DynamicSampling, Retokenize, OpdLoss, GroupAdvantages, ActorUpdate and
EnvLoop. Their results are concatenations, filterings, sums or folds of data of any length,
so that what they promise (a permutation, a sum, the whole of a list) is again an induction
over data; only parts of it could be proved.

## Not modelled

Forward and backward passes; logging, profiling and, outside PpoStep and
TransferQueue, validation; ReMax and the division by a standard deviation (real
numbers without an exact small model); sharding inside FSDP and Megatron; models,
kernels, datasets, the merger, and the remaining recipes, which are numeric or wrap
external systems. The inference engines are external and modelled by what the code
does with their answers. In GkdPipeline one pass over the data is explored
(`total_epochs = 1`). In FullyAsync a sample's `n` responses complete together.

Most of the repository's lines are of these kinds (models, kernels, dataset and
reward-scoring scripts, launchers), so the modules cover a small share of them.

## Plan

1. Extend the model
   * Several epochs in `GkdPipeline`.
   * An abstract specification of the asynchronous recipe (a bounded buffer that
     loses only what it counts as dropped) and FullyAsync shown to implement it.
2. Prove more
   * EnvLoop: that an action is computed from the observation it answers, which does not
     depend on how rows are put together.
