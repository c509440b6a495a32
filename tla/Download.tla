------------------------------ MODULE Download ------------------------------
(* ParallelDownload (parallel_download.go): Do splits a file into segments,  *)
(* its workers fetch them into temporary files and one goroutine merges the  *)
(* files in order.  The channels are unbuffered: sending and receiving are   *)
(* one step of both sides.                                                   *)
EXTENDS Integers, Sequences, SequencesExt

CONSTANTS
    Worker,   \* the goroutines of startWorker, one per unit of concurrency
    Jobs      \* [len, seg, ranged]: Content-Length, segmentSize, does the server honour Range

\* Go starts finitely many goroutines; ensure makes the size of a segment positive; a
\* Content-Length the server does not tell is not positive.
ASSUME DownloadConstants ==
    /\ IsFiniteSet(Worker)
    /\ Jobs \subseteq [len : Int, seg : Nat \ {0}, ranged : BOOLEAN]

VARIABLES
    job,      \* the download
    main,     \* Do: [pc, index, start]
    wk,       \* the workers: [pc, t], t the task [index, lo, hi]
    temp,     \* the contents of the temporary files, by index
    taskMap,  \* indices of the tasks completed and not yet merged
    notes,    \* goroutines of completeTask that wait to send on taskNotifyCh
    mg,       \* mergeFile: [pc, i, task]
    wg,       \* the counter of the WaitGroup
    chans,    \* which of wgDoneCh and doneCh are closed
    merged    \* the bytes in the output file

dlVars == <<job, main, wk, temp, taskMap, notes, mg, wg, chans, merged>>

------------------------------------------------------------------------------
NoTask == [index |-> 0, lo |-> 0, hi |-> 0]
Bytes(lo, hi) == [i \in 1..(hi - lo + 1) |-> lo + i - 1]
File == Bytes(0, job.len - 1)
\* int(math.Ceil(ContentLength / segmentSize)) - 1
lastIndex == ((job.len + job.seg - 1) \div job.seg) - 1

\* ensure: defaults, the temporary directory, the channels; Do starts the workers.
ensure ==
    /\ main = [pc |-> "head", index |-> 0, start |-> 0]
    /\ wk = [w \in Worker |-> [pc |-> "idle", t |-> NoTask]]
    /\ temp = [i \in {} |-> <<>>]
    /\ taskMap = {} /\ notes = {} /\ chans = {}
    /\ mg = [pc |-> "none", i |-> 0, task |-> 0]
    /\ wg = 0
    /\ merged = <<>>

DownloadInit == job \in Jobs /\ ensure
\* A download nobody starts.
DownloadRest == job = [len |-> 0, seg |-> 1, ranged |-> FALSE] /\ ensure

Merger(to) == [mg EXCEPT !.pc = to]
Worker1(w, to) == [wk EXCEPT ![w].pc = to]

------------------------------------------------------------------------------
\* Do: the HEAD request fails or tells no length, or the merger and the waiter start.
HeadReturns ==
    /\ main.pc = "head"
    /\ \/ main' = [main EXCEPT !.pc = "err"] /\ UNCHANGED <<mg, wg>>
       \/ job.len > 0 /\ main' = [main EXCEPT !.pc = "send"] /\ mg' = Merger("open") /\ wg' = wg + 1
    /\ UNCHANGED <<job, wk, temp, taskMap, notes, chans, merged>>

\* Do hands the next segment to a worker that is in its select.
SendTask(w) ==
    /\ main.pc = "send" /\ wk[w].pc = "idle"
    /\ LET top == main.start + job.seg - 1
           end == IF top > job.len - 1 THEN job.len - 1 ELSE top
       IN  /\ wk' = [wk EXCEPT ![w] = [pc |-> "add", t |-> [index |-> main.index, lo |-> main.start, hi |-> end]]]
           /\ main' = IF end < job.len - 1
                      THEN [main EXCEPT !.index = @ + 1, !.start = end + 1]
                      ELSE [main EXCEPT !.pc = "select"]
    /\ UNCHANGED <<job, temp, taskMap, notes, mg, wg, chans, merged>>

\* handleTask: wg.Add(1), in the worker.
HandleTask(w) ==
    /\ wk[w].pc = "add"
    /\ wk' = Worker1(w, "fetch")
    /\ wg' = wg + 1
    /\ UNCHANGED <<job, main, temp, taskMap, notes, mg, chans, merged>>

\* ... the temporary file is created and filled by the response, of whatever status.
Fetch(w) ==
    LET t == wk[w].t IN
    /\ wk[w].pc = "fetch"
    /\ \/ wk' = Worker1(w, "report") /\ UNCHANGED temp
       \/ /\ wk' = Worker1(w, "complete")
          /\ temp' = [i \in DOMAIN temp \union {t.index} |->
                         IF i # t.index THEN temp[i] ELSE IF job.ranged THEN Bytes(t.lo, t.hi) ELSE File]
    /\ UNCHANGED <<job, main, taskMap, notes, mg, wg, chans, merged>>

\* completeTask: into the map under the lock, and a goroutine to tell the merger.
CompleteTask(w) ==
    /\ wk[w].pc = "complete"
    /\ taskMap' = taskMap \union {wk[w].t.index}
    /\ notes' = notes \union {wk[w].t.index}
    /\ wk' = Worker1(w, "done")
    /\ UNCHANGED <<job, main, temp, mg, wg, chans, merged>>

\* The deferred wg.Done, and back to the select.
TaskDone(w) ==
    /\ wk[w].pc = "done"
    /\ wk' = Worker1(w, "idle")
    /\ wg' = wg - 1
    /\ UNCHANGED <<job, main, temp, taskMap, notes, mg, chans, merged>>

\* errCh is received only by Do's last select.
WorkerReports(w) ==
    /\ wk[w].pc = "report" /\ main.pc = "select"
    /\ main' = [main EXCEPT !.pc = "err"]
    /\ wk' = Worker1(w, "done")
    /\ UNCHANGED <<job, temp, taskMap, notes, mg, wg, chans, merged>>

WorkerQuits(w) ==
    /\ wk[w].pc = "idle" /\ "doneCh" \in chans
    /\ wk' = Worker1(w, "gone")
    /\ UNCHANGED <<job, main, temp, taskMap, notes, mg, wg, chans, merged>>

NoteQuits(n) ==
    /\ n \in notes /\ "doneCh" \in chans
    /\ notes' = notes \ {n}
    /\ UNCHANGED <<job, main, wk, temp, taskMap, mg, wg, chans, merged>>

------------------------------------------------------------------------------
\* mergeFile: getOutputFile.
OpenOutput ==
    /\ mg.pc = "open"
    /\ mg' = Merger("check") \/ mg' = Merger("report")
    /\ UNCHANGED <<job, main, wk, temp, taskMap, notes, wg, chans, merged>>

\* popTask: the task is in the map ...
PopTask ==
    /\ mg.pc = "check"
    /\ IF mg.i \in taskMap
       THEN taskMap' = taskMap \ {mg.i} /\ mg' = [mg EXCEPT !.pc = "copy", !.task = mg.i]
       ELSE mg' = Merger("recv") /\ UNCHANGED taskMap
    /\ UNCHANGED <<job, main, wk, temp, notes, wg, chans, merged>>

\* Faulty variant: popTask returns the first task it is told of.
PopAnyNote(n) ==
    /\ mg.pc = "recv" /\ n \in notes
    /\ notes' = notes \ {n}
    /\ taskMap' = taskMap \ {n} /\ mg' = [mg EXCEPT !.pc = "copy", !.task = n]
    /\ UNCHANGED <<job, main, wk, temp, wg, chans, merged>>

\* ... or will be told of; a task told of too early stays in the map, one told of
\* too late is no longer there.
PopNote(n) ==
    /\ mg.pc = "recv" /\ n \in notes
    /\ notes' = notes \ {n}
    /\ IF n = mg.i
       THEN taskMap' = taskMap \ {n} /\ mg' = [mg EXCEPT !.pc = "copy", !.task = n]
       ELSE UNCHANGED <<taskMap, mg>>
    /\ UNCHANGED <<job, main, wk, temp, wg, chans, merged>>

\* The temporary file is opened and appended to the output.
Merge ==
    /\ mg.pc = "copy"
    /\ \/ mg' = Merger("report") /\ UNCHANGED merged
       \/ /\ merged' = merged \o temp[mg.task]
          /\ mg' = IF mg.i < lastIndex THEN [mg EXCEPT !.pc = "check", !.i = @ + 1] ELSE Merger("remove")
    /\ UNCHANGED <<job, main, wk, temp, taskMap, notes, wg, chans>>

\* os.RemoveAll, and the deferred wg.Done.
RemoveTemp ==
    /\ mg.pc = "remove"
    /\ \/ mg' = Merger("report") /\ UNCHANGED wg
       \/ mg' = Merger("end") /\ wg' = wg - 1
    /\ UNCHANGED <<job, main, wk, temp, taskMap, notes, chans, merged>>

MergerReports ==
    /\ mg.pc = "report" /\ main.pc = "select"
    /\ main' = [main EXCEPT !.pc = "err"]
    /\ mg' = Merger("end") /\ wg' = wg - 1
    /\ UNCHANGED <<job, wk, temp, taskMap, notes, chans, merged>>

\* The goroutine that waits for the group and closes wgDoneCh.
Waited ==
    /\ main.pc \in {"send", "select", "err"} /\ mg.pc # "none" /\ wg = 0 /\ "wgDoneCh" \notin chans
    /\ chans' = chans \union {"wgDoneCh"}
    /\ UNCHANGED <<job, main, wk, temp, taskMap, notes, mg, wg, merged>>

\* Do's last select: all is merged.
Finish ==
    /\ main.pc = "select" /\ "wgDoneCh" \in chans
    /\ main' = [main EXCEPT !.pc = "ok"]
    /\ chans' = chans \union {"doneCh"}
    /\ UNCHANGED <<job, wk, temp, taskMap, notes, mg, wg, merged>>

DownloadNext ==
    \/ HeadReturns \/ OpenOutput \/ PopTask \/ Merge \/ RemoveTemp \/ MergerReports \/ Waited \/ Finish
    \/ \E w \in Worker : SendTask(w) \/ HandleTask(w) \/ Fetch(w) \/ CompleteTask(w) \/ TaskDone(w)
                         \/ WorkerReports(w) \/ WorkerQuits(w)
    \/ \E n \in notes : PopNote(n) \/ NoteQuits(n)

DownloadSpec == (DownloadInit \/ DownloadRest) /\ [][DownloadNext]_dlVars

------------------------------------------------------------------------------
\* From a server that honours Range, the output is at every moment a beginning of the
\* file, in order and without a gap, and when Do returns no error it is the whole file
\* (completeTask and popTask, whichever order the segments and their news arrive in).
DownloadInOrder ==
    job.ranged => IsPrefix(merged, File) /\ (main.pc = "ok" => merged = File)
==============================================================================
