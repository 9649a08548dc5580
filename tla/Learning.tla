------------------------------ MODULE Learning ------------------------------
(***************************************************************************)
(* lessons.json and the jobs that rewrite it: the close review, its one-off *)
(* redo (a process of its own), the retrospective of a followed wallet, the  *)
(* bounce shadow, the import of the community's lessons (another process),    *)
(* and the calls that add a performance row, settle it or edit a lesson.      *)
(* Every one of them loads the whole file, changes its copy and saves the     *)
(* whole copy, without a lock.  What the language model says is any of its    *)
(* outcomes; Reviewer has the conversation.                                   *)
(***************************************************************************)
EXTENDS Integers, FiniteSets, Sequences

CONSTANTS
  Positions,
  Catalog,     \* names a community catalog may list as backup
  Starts,      \* the files the daemon may find (rows, ids of lessons), each with the
               \* bound of that instance: how often each job but the review starts
  MaxRows,     \* bound: performance rows
  PerTick,     \* CLOSE_REVIEW_MAX_PER_TICK
  MaxAttempts, \* CLOSE_REVIEW_MAX_LLM_ATTEMPTS
  MaxRestarts  \* bound

VARIABLES
  rows,      \* the performance list of the file
  lessons,   \* its lessons by id
  job,       \* per job, what it is at
  attempts,  \* per position, failed calls the daemon remembers
  age,       \* per position, how long ago it closed
  left,      \* starts left per job
  made,      \* lessons made so far, the clock of their ids
  restarts

Jobs == {"review", "backfill", "mirror", "append", "settle", "bounce", "edit", "import"}
vars == <<rows, lessons, job, attempts, age, left, made, restarts>>

Idle == [at |-> "idle", queue |-> <<>>, got |-> "", tries |-> 0, copy |-> <<>>]
New(auto) == [auto |-> auto, pinned |-> FALSE, wins |-> 0, losses |-> 0]
File == [rows |-> rows, lessons |-> lessons]
Latest(f, p) ==
  {i \in DOMAIN f.rows : f.rows[i].pos = p /\ \A j \in DOMAIN f.rows : f.rows[j].pos = p => j <= i}

Init ==
  /\ \E s \in Starts : rows = s.rows /\ lessons = [id \in s.ids |-> New(FALSE)] /\ left = s.left
  /\ job = [w \in Jobs |-> Idle]
  /\ attempts = [p \in Positions |-> 0] /\ age = [p \in Positions |-> "fresh"]
  /\ made = 0 /\ restarts = 0

---------------------------------------------------------------------------
(* What each job makes of the contents it has loaded.                      *)
Reviewable(row) ==
  /\ row.review = {} /\ ~row.mirror /\ age[row.pos] # "old"
  /\ row.settled \/ age[row.pos] = "waited"
NewestFirst(f, due) ==
  {[n \in DOMAIN order |-> f.rows[order[n]]] :
     order \in {o \in [1 .. Cardinality(due) -> due] : \A m, n \in DOMAIN o : m < n => o[m] > o[n]}}
PickReviewable(f) ==
  {SubSeq(queue, 1, IF Len(queue) < PerTick THEN Len(queue) ELSE PerTick) :
     queue \in NewestFirst(f, {i \in DOMAIN f.rows : Reviewable(f.rows[i])})}

(* Empty reviews, and all the others, which the redo may be asked for.      *)
PickBackfillable(f) == NewestFirst(f, {i \in DOMAIN f.rows : f.rows[i].review # {}})

Score(ls, cites, win) ==
  [id \in DOMAIN ls |->
     IF id \notin cites THEN ls[id]
     ELSE IF win THEN [ls[id] EXCEPT !.wins = @ + 1] ELSE [ls[id] EXCEPT !.losses = @ + 1]]
Without(ls, ids) == [id \in DOMAIN ls \ ids |-> ls[id]]
Taught(ls, ids) == [id \in ids \cup DOMAIN ls |-> IF id \in ids THEN New(TRUE) ELSE ls[id]]

(* Mutant: the score is given again on a record that has its review.        *)
Rescored(f, perf, got) ==
  LET id == IF got = "lesson" THEN {<<"close", perf.pos, made>>} ELSE {}
  IN  {[rows |-> [f.rows EXCEPT ![i].review =
                    {[win |-> perf.win, lesson |-> id, scored |-> perf.cites \cap DOMAIN f.lessons]}],
        lessons |-> Score(Taught(f.lessons, id), perf.cites, perf.win)] :
       i \in Latest(f, perf.pos)}
(* The verdict and the citations are those of the row as the tick read it.  *)
CommitReview(f, perf, got) ==
  LET id == IF got = "lesson" THEN {<<"close", perf.pos, made>>} ELSE {}
  IN  {[rows |-> [f.rows EXCEPT ![i].review =
                    {[win |-> perf.win, lesson |-> id, scored |-> perf.cites \cap DOMAIN f.lessons]}],
        lessons |-> Score(Taught(f.lessons, id), perf.cites, perf.win)] :
       i \in {n \in Latest(f, perf.pos) : f.rows[n].review = {}}}

(* The lesson this position had goes, unless it is pinned; no score moves.  *)
CommitBackfill(f, perf, got) ==
  LET id == IF got = "lesson" THEN {<<"redo", perf.pos, made>>} ELSE {}
      Replaced(r) == {l \in r.lesson \cap DOMAIN f.lessons : f.lessons[l].auto /\ ~f.lessons[l].pinned}
  IN  UNION {{[rows |-> [f.rows EXCEPT ![i].review =
                 {[r EXCEPT !.lesson =
                     IF id # {} THEN id ELSE IF Replaced(r) = {} THEN r.lesson ELSE {}]}],
               lessons |-> Taught(Without(f.lessons, Replaced(r)), id)] :
              r \in f.rows[i].review} : i \in Latest(f, perf.pos)}

LearnFromMirror(f, got) ==
  IF got = "lesson" THEN {[f EXCEPT !.lessons = Taught(@, {<<"follow", "", made>>})]} ELSE {}

(* appendPerformance, which may add a second row of a position: the citations *)
(* are of lessons there were at the deploy, and a mirror stays one.            *)
Mirrored(f, p) ==
  LET known == {f.rows[i].mirror : i \in {j \in DOMAIN f.rows : f.rows[j].pos = p}}
  IN  IF known = {} THEN BOOLEAN ELSE known
Appended(f, p, w, m, c) ==
  [f EXCEPT !.rows = Append(@, [pos |-> p, win |-> w, settled |-> FALSE, mirror |-> m,
                                cites |-> c, review |-> {}, bounced |-> FALSE])]
AppendPerformance(f) ==
  UNION {{Appended(f, p, w, m, c) :
            w \in BOOLEAN, m \in Mirrored(f, p), c \in SUBSET DOMAIN f.lessons} :
           p \in {q \in Positions : Len(f.rows) < MaxRows}}
Settled(f, i, w) == [f EXCEPT !.rows[i] = [f.rows[i] EXCEPT !.settled = TRUE, !.win = w]]
Settle(f) ==
  UNION {{Settled(f, i, w) :
            i \in {n \in Latest(f, p) : ~f.rows[n].settled}, w \in BOOLEAN} : p \in Positions}
BounceShadow(f) ==
  UNION {{[f EXCEPT !.rows[i] = [f.rows[i] EXCEPT !.bounced = TRUE]] :
            i \in {n \in Latest(f, p) : ~f.rows[n].bounced /\ ~f.rows[n].win}} : p \in Positions}
(* The catalog is the truth for the community lessons nobody pinned: listed  *)
(* ones keep the record they earned, unlisted ones go, new ones start at     *)
(* nothing.  A pinned copy is the operator's own.                            *)
IsCommunityBackup(ls, id) == id[1] = "community" /\ ~ls[id].pinned
MergeCommunityLessons(ls, incoming) ==
  LET kept == {id \in DOMAIN ls : id \in DOMAIN incoming \/ ~IsCommunityBackup(ls, id)}
  IN  [id \in kept \cup DOMAIN incoming |-> IF id \in kept THEN ls[id] ELSE incoming[id]]
Incoming(catalog) == [id \in {<<"community", c, 0>> : c \in catalog} |-> New(FALSE)]
ImportCommunityLessons(f) ==
  {[f EXCEPT !.lessons = MergeCommunityLessons(@, Incoming(catalog))] : catalog \in SUBSET Catalog}
EditLessons(f) ==
  {[f EXCEPT !.lessons[id].pinned = v] : id \in DOMAIN f.lessons, v \in BOOLEAN}
  \cup {[f EXCEPT !.lessons = Without(@, ids)] : ids \in SUBSET DOMAIN f.lessons}

Change(w, f, perf, got) ==
  CASE w = "review" -> CommitReview(f, perf, got)
    [] w = "backfill" -> CommitBackfill(f, perf, got)
    [] w = "mirror" -> LearnFromMirror(f, got)
    [] w = "append" -> AppendPerformance(f)
    [] w = "settle" -> Settle(f)
    [] w = "bounce" -> BounceShadow(f)
    [] w = "edit" -> EditLessons(f)
    [] w = "import" -> ImportCommunityLessons(f)

---------------------------------------------------------------------------
(* One job.                                                                 *)
Daemon  == Jobs \ {"backfill", "import"}
Askers  == {"review", "backfill", "mirror"}
Move(w, to) == job' = [job EXCEPT ![w] = to]
NextOf(w) ==
  IF Len(job[w].queue) <= 1 THEN Idle ELSE [Idle EXCEPT !.at = "ask", !.queue = Tail(job[w].queue)]
Take(w, queue) ==
  Move(w, IF queue = <<>> THEN Idle ELSE [Idle EXCEPT !.at = "ask", !.queue = queue])

(* The tick of the review reads the file and the mirrors, or gives up.      *)
Tick ==
  /\ job["review"].at = "idle" /\ \E queue \in PickReviewable(File) : Take("review", queue)
  /\ UNCHANGED <<rows, lessons, attempts, age, left, made, restarts>>

Start(w) ==
  /\ w # "review" /\ job[w].at = "idle" /\ left[w] > 0
  /\ left' = [left EXCEPT ![w] = @ - 1]
  /\ CASE w = "backfill" -> \E queue \in PickBackfillable(File) : Take(w, queue)
       [] w = "mirror" -> Move(w, [Idle EXCEPT !.at = "ask"])
       [] OTHER -> Move(w, [Idle EXCEPT !.at = "load"])
  /\ UNCHANGED <<rows, lessons, attempts, age, made, restarts>>

(* The reviewer answers: a lesson that passed its backtest, or none.        *)
Answer(w) ==
  /\ w \in Askers /\ job[w].at = "ask"
  /\ \E reply \in {"lesson", "none"} : Move(w, [job[w] EXCEPT !.at = "load", !.got = reply])
  /\ attempts' = IF w = "review" THEN [attempts EXCEPT ![Head(job[w].queue).pos] = 0] ELSE attempts
  /\ UNCHANGED <<rows, lessons, age, left, made, restarts>>

(* Mutant: the failures of a record are never counted.                      *)
Uncounted(w) ==
  /\ w = "review" /\ job[w].at = "ask" /\ Move(w, NextOf(w))
  /\ UNCHANGED <<rows, lessons, attempts, age, left, made, restarts>>
(* A call fails: the review tries again at the next tick and, after the last *)
(* time, is committed without a lesson; the redo asks again at once.         *)
Fails(w) ==
  /\ w \in Askers /\ job[w].at = "ask"
  /\ CASE w = "review" ->
            LET p == Head(job[w].queue).pos
                last == attempts[p] + 1 >= MaxAttempts
            IN  /\ attempts' = [attempts EXCEPT ![p] = IF last THEN 0 ELSE @ + 1]
                /\ Move(w, IF last THEN [job[w] EXCEPT !.at = "load", !.got = "failed"] ELSE NextOf(w))
       [] w = "backfill" ->
            /\ UNCHANGED attempts
            /\ Move(w, IF job[w].tries + 1 >= MaxAttempts THEN NextOf(w) ELSE [job[w] EXCEPT !.tries = @ + 1])
       [] w = "mirror" -> Move(w, Idle) /\ UNCHANGED attempts
  /\ UNCHANGED <<rows, lessons, age, left, made, restarts>>

(* The file is read afresh and the copy is changed; nothing to change ends it. *)
Load(w) ==
  /\ job[w].at = "load"
  /\ LET perf == IF job[w].queue = <<>> THEN <<>> ELSE Head(job[w].queue)
         kept == Change(w, File, perf, job[w].got)
     IN  \/ kept = {} /\ Move(w, NextOf(w)) /\ UNCHANGED made
         \/ /\ \E c \in kept : Move(w, [job[w] EXCEPT !.at = "save", !.copy = <<c>>])
            /\ made' = IF job[w].got = "lesson" THEN made + 1 ELSE made
  /\ UNCHANGED <<rows, lessons, attempts, age, left, restarts>>

Save(w) ==
  /\ job[w].at = "save"
  /\ rows' = Head(job[w].copy).rows /\ lessons' = Head(job[w].copy).lessons
  /\ Move(w, NextOf(w)) /\ UNCHANGED <<attempts, age, left, made, restarts>>

Older(p) ==
  /\ Latest(File, p) # {}
  /\ age[p] # "old" /\ age' = [age EXCEPT ![p] = IF @ = "fresh" THEN "waited" ELSE "old"]
  /\ UNCHANGED <<rows, lessons, job, attempts, left, made, restarts>>

(* A restart forgets what the daemon's jobs were at, and their failures.    *)
Restart ==
  /\ restarts < MaxRestarts /\ restarts' = restarts + 1
  /\ job' = [w \in Jobs |-> IF w \in Daemon THEN Idle ELSE job[w]]
  /\ attempts' = [p \in Positions |-> 0] /\ UNCHANGED <<rows, lessons, age, left, made>>

Next ==
  \/ Tick \/ Restart \/ \E p \in Positions : Older(p)
  \/ \E w \in Jobs : Start(w) \/ Answer(w) \/ Fails(w) \/ Load(w) \/ Save(w)

Reviewing == Tick \/ Answer("review") \/ Fails("review") \/ Load("review") \/ Save("review")
---------------------------------------------------------------------------
(* The wins and the losses of a lesson are the reviews of the same file that *)
(* scored it, however the saves of the jobs overwrite each other (commitReview: *)
(* "re-checked so a record is never scored twice").  A community lesson that  *)
(* was dropped and listed again may have fewer: its record starts afresh.     *)
Scores(id, win) ==
  {i \in DOMAIN rows : \E r \in rows[i].review : r.win = win /\ id \in r.scored}
TrackRecord ==
  \A id \in DOMAIN lessons :
    /\ lessons[id].wins <= Cardinality(Scores(id, TRUE))
    /\ lessons[id].losses <= Cardinality(Scores(id, FALSE))
    /\ id[1] # "community" =>
         lessons[id].wins + lessons[id].losses = Cardinality(Scores(id, TRUE) \cup Scores(id, FALSE))

(* A close that is due is reviewed, or grows too old: a reviewer that fails  *)
(* every call, a restart or an overwritten review only delays it.  It is not  *)
(* so when as many newer rows as a tick takes are earlier rows of positions    *)
(* whose latest row has its review: commitReview leaves those as they are, so   *)
(* they are picked again at every tick.                                        *)
Due(p) == \E i \in Latest(File, p) : Reviewable(rows[i])
Superseded(j) == \E i \in Latest(File, rows[j].pos) : i # j /\ rows[i].review # {}
SlotsHeld(p) ==
  \E i \in Latest(File, p) :
    Cardinality({j \in DOMAIN rows : j > i /\ Reviewable(rows[j]) /\ Superseded(j)}) >= PerTick
ReviewEnds == \A p \in Positions : Due(p) ~> ~Due(p) \/ SlotsHeld(p)
=============================================================================
