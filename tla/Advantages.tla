------------------------------ MODULE Advantages ------------------------------
(***************************************************************************)
(* From what judges a response to the advantages of its tokens, one way    *)
(* chosen in the initial state: a sequence put to a teacher and the part   *)
(* of its answer taken for the response ("retokenized"), the alignment of  *)
(* that part's tokens, with the sizes of the .cfg ("alignment"); or, in    *)
(* verl/trainer/ppo/core_algos.py, the credit per chunk of OpdLoss, the    *)
(* walk back through a response of TokenReturns, or the comparison within  *)
(* a group of GroupAdvantages.  What is not chosen keeps its first value.  *)
(***************************************************************************)
EXTENDS AlignChunks

CONSTANT Prompts        \* of GroupAdvantages

VARIABLES
    setting,
    sample, step, teacher_text, input_ids, cut, teacher_ids, topk_indices, student_span,
    teacher_span, leading, resp_logps, eos_logp, same_row,
    prior, mask, reward, opd_phase, opd_teacher, ids, skipped, seq_id, target, suppressed,
    response_mask, token_level_rewards, values, t, nextvalues, lastgaelam,
    running_return, returns,
    index, length, given, scores, id2score, id2mean, i, stage,
    advantages,         \* OpdLoss and TokenReturns
    left                \* OpdLoss and GroupAdvantages

askVars == <<sample, step, teacher_text, input_ids, cut, teacher_ids, topk_indices,
             student_span, teacher_span, leading, resp_logps, eos_logp, same_row>>
opdVars == <<prior, mask, reward, opd_phase, opd_teacher, ids, skipped, seq_id, target, suppressed>>
tokenVars == <<response_mask, token_level_rewards, values, t, nextvalues, lastgaelam,
               running_return, returns>>
groupVars == <<index, length, given, scores, id2score, id2mean, i, stage>>
mcVars == <<setting, vars, askVars, opdVars, tokenVars, groupVars, advantages, left>>

\* Every way a teacher is asked, and texts one or two tokens above its limit.
Asked == INSTANCE Retokenize WITH Modes <- {"chat", "raw", "alpaca", "r1", "same"},
    Cuts <- {0, 1, 2},
    row <- same_row

\* Teacher scores: three tokens of one response, two responses with a clamp, and
\* a teacher that shares the student's tokenizer.
Aligned == INSTANCE OpdLoss WITH BatchSize <- 1, R <- 3, P <- 2, MaxLogp <- 2, Unit <- 60,
    Clamp <- 0, SameTokenizer <- FALSE,
    phase <- opd_phase, teacher <- opd_teacher, todo <- left
Clamped == INSTANCE OpdLoss WITH BatchSize <- 2, R <- 2, P <- 1, MaxLogp <- 1, Unit <- 60,
    Clamp <- 30, SameTokenizer <- FALSE,
    phase <- opd_phase, teacher <- opd_teacher, todo <- left
Direct == INSTANCE OpdLoss WITH BatchSize <- 2, R <- 2, P <- 2, MaxLogp <- 1, Unit <- 60,
    Clamp <- 0, SameTokenizer <- TRUE,
    phase <- opd_phase, teacher <- opd_teacher, todo <- left

\* Responses with observations between their turns, and of one turn.
Turns == INSTANCE TokenReturns WITH Length <- 4, Rewards <- {0, 1}, Values <- {0, 1, 3},
    Gamma <- 2, Lam <- 3, MultiTurn <- TRUE
Single == INSTANCE TokenReturns WITH Length <- 5, Rewards <- {0, 1, 3}, Values <- {0},
    Gamma <- 2, Lam <- 3, MultiTurn <- FALSE

\* Four responses, shared among the prompts in every way.
Grpo == INSTANCE GroupAdvantages WITH Size <- 4, Scores <- {0, 5040, 10080}, Lengths <- {1},
    Estimator <- "grpo",
    todo <- left
Gpg == INSTANCE GroupAdvantages WITH Size <- 4, Scores <- {0, 5040}, Lengths <- {1},
    Estimator <- "gpg",
    todo <- left
Rloo == INSTANCE GroupAdvantages WITH Size <- 4, Scores <- {0, 5040, 10080}, Lengths <- {1},
    Estimator <- "rloo",
    todo <- left
Opo == INSTANCE GroupAdvantages WITH Size <- 4, Scores <- {0, 5040}, Lengths <- {1, 2},
    Estimator <- "opo",
    todo <- left
PassK == INSTANCE GroupAdvantages WITH Size <- 4, Scores <- {0, 5040, 10080}, Lengths <- {1},
    Estimator <- "grpo_passk",
    todo <- left

ASSUME SettingsAssumption ==
    /\ Asked!RetokenizeAssumption
    /\ Aligned!LossAssumption /\ Clamped!LossAssumption /\ Direct!LossAssumption
    /\ Turns!TokenReturnsAssumption /\ Single!TokenReturnsAssumption
    /\ Grpo!GroupAdvantagesAssumption /\ Gpg!GroupAdvantagesAssumption
    /\ Rloo!GroupAdvantagesAssumption /\ Opo!GroupAdvantagesAssumption
    /\ PassK!GroupAdvantagesAssumption

AskIdle ==
    /\ sample = 0 /\ step = 0 /\ teacher_text = 0 /\ input_ids = 0 /\ cut = 0
    /\ teacher_ids = 0 /\ topk_indices = 0 /\ student_span = 0 /\ teacher_span = 0
    /\ leading = 0 /\ resp_logps = 0 /\ eos_logp = 0 /\ same_row = 0

OpdIdle ==
    /\ prior = 0 /\ mask = 0 /\ reward = 0 /\ opd_phase = 0 /\ opd_teacher = 0 /\ ids = 0
    /\ skipped = 0 /\ seq_id = 0 /\ target = 0 /\ suppressed = 0

TokenIdle ==
    /\ response_mask = 0 /\ token_level_rewards = 0 /\ values = 0 /\ t = 0
    /\ nextvalues = 0 /\ lastgaelam = 0 /\ running_return = 0 /\ returns = 0

GroupIdle ==
    /\ index = 0 /\ length = 0 /\ given = 0 /\ scores = 0 /\ id2score = 0
    /\ id2mean = 0 /\ i = 0 /\ stage = 0

NoTokens == [text |-> <<>>, at |-> [e \in {0} |-> 0]]

AlignIdle ==
    /\ phase = "start" /\ student = NoTokens /\ teacher = NoTokens
    /\ specials = 0 /\ clipped = FALSE
    /\ todo = {} /\ s_ptr = 0 /\ t_ptr = 0 /\ text_ptr = 0 /\ chunks = <<>>
    /\ aligned = <<>> /\ truncated = FALSE /\ trainable_tokens = 0 /\ trainable_chunks = 0
    /\ trainable_teacher = 0 /\ fallback = 0 /\ row = <<>>

MCInit ==
    \/ /\ OpdIdle /\ TokenIdle /\ GroupIdle /\ advantages = 0 /\ left = 0
       /\ \/ setting = "retokenized" /\ Asked!Init /\ AlignIdle
          \/ setting = "alignment" /\ Init /\ AskIdle
    \/ /\ AlignIdle /\ AskIdle
       /\ \/ /\ TokenIdle /\ GroupIdle
             /\ \/ setting = "aligned" /\ Aligned!Init
                \/ setting = "clamped" /\ Clamped!Init
                \/ setting = "direct" /\ Direct!Init
          \/ /\ OpdIdle /\ GroupIdle /\ left = 0
             /\ \/ setting = "turns" /\ Turns!Init
                \/ setting = "single" /\ Single!Init
          \/ /\ OpdIdle /\ TokenIdle /\ advantages = 0
             /\ \/ setting = "grpo" /\ Grpo!Init
                \/ setting = "gpg" /\ Gpg!Init
                \/ setting = "rloo" /\ Rloo!Init
                \/ setting = "opo" /\ Opo!Init
                \/ setting = "pass@k" /\ PassK!Init

Asking ==
    /\ \/ setting = "retokenized" /\ Asked!Next /\ UNCHANGED vars
       \/ setting = "alignment" /\ Next /\ UNCHANGED askVars
    /\ UNCHANGED <<opdVars, tokenVars, groupVars, advantages, left>>

Scoring ==
    /\ UNCHANGED <<vars, askVars>>
    /\ \/ /\ UNCHANGED <<tokenVars, groupVars>>
          /\ \/ setting = "aligned" /\ Aligned!Next
             \/ setting = "clamped" /\ Clamped!Next
             \/ setting = "direct" /\ Direct!Next
       \/ /\ UNCHANGED <<opdVars, groupVars, left>>
          /\ \/ setting = "turns" /\ Turns!Next
             \/ setting = "single" /\ Single!Next
       \/ /\ UNCHANGED <<opdVars, tokenVars, advantages>>
          /\ \/ setting = "grpo" /\ Grpo!Next
             \/ setting = "gpg" /\ Gpg!Next
             \/ setting = "rloo" /\ Rloo!Next
             \/ setting = "opo" /\ Opo!Next
             \/ setting = "pass@k" /\ PassK!Next

MCNext == UNCHANGED setting /\ (Asking \/ Scoring)

MCSpec == MCInit /\ [][MCNext]_mcVars

-----------------------------------------------------------------------------
\* TeacherClient: what a teacher reads is the student's conversation, in its own
\* format; of its answer the part taken for the response spells the response,
\* every log-probability taken is that of its token, and the end of the response
\* is scored with the teacher's end.
TeacherScoresResponse ==
    setting = "retokenized" =>
        /\ Asked!TeacherReadsTheSame /\ Asked!ResponsesSpellTheSame
        /\ Asked!LogpsAreTheirs /\ Asked!EosIsTheTeachers

\* compute_policy_loss_opd: the tokens of a chunk share exactly what the teacher
\* says of it, all in one direction, the least likely most; the clamp bounds it.
\* What the alignment skipped has no influence, and a supervised end of sequence
\* is never pushed down.
CreditIsFair ==
    /\ setting = "aligned" => /\ Aligned!TypeOK /\ Aligned!BudgetKept
                              /\ Aligned!OneDirectionPerChunk /\ Aligned!SurprisePays
                              /\ Aligned!SkippedHaveNoInfluence /\ Aligned!EosNeverSuppressed
    /\ setting = "clamped" => /\ Clamped!OneDirectionPerChunk /\ Clamped!Bounded
                              /\ Clamped!SkippedHaveNoInfluence /\ Clamped!EosNeverSuppressed
    /\ setting = "direct" => Direct!TypeOK /\ Direct!BudgetKept

\* GAE of a response with observations is that of its own tokens alone, and the
\* return of REINFORCE++ reaches every token of a single turn.
TokensGetTheirs ==
    /\ setting = "turns" => Turns!TypeOK /\ Turns!GaeSkipsObservations
    /\ setting = "single" => Single!TypeOK /\ Single!RewardReachesEveryToken

\* Every estimator of a group is fair within it: advantages balance, order the
\* responses and are computed from the scores before any was overwritten.
GroupsAreFair ==
    /\ setting = "grpo" => /\ Grpo!TypeOK /\ Grpo!GroupsBalance /\ Grpo!BetterGetsMore
                           /\ Grpo!VectorizedAgrees
    /\ setting = "gpg" => Gpg!GroupsBalance /\ Gpg!BetterGetsMore
    /\ setting = "rloo" => Rloo!GroupsBalance /\ Rloo!LeavesOneOut
    /\ setting = "opo" => Opo!GroupsBalance /\ Opo!BetterGetsMore
    /\ setting = "pass@k" => PassK!BetterGetsMore /\ PassK!PaysWhatBestAdds
=============================================================================
