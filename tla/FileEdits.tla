------------------------------ MODULE FileEdits ------------------------------
(***************************************************************************)
(* The tools that read and edit files (adapters/tools/fs.py, apply_patch.py *)
(* and its engine) on a local workspace: several editors, each in a process *)
(* of its own, change one file under a lock, by creating it, by replacing a *)
(* unique text, by lines, or by a diff whose hunks are found by their       *)
(* content; each builds the whole new text before it writes, and the write  *)
(* is published by a rename.  Commands write the file without the lock.     *)
(*                                                                          *)
(* A text is its lines, whether the last one is terminated, and the style   *)
(* of its line breaks; a line is a name, "" the blank one, and LineSize its *)
(* length.  Texts to find or to put in are blocks of whole lines.  A hunk   *)
(* is the block it removes and the block it puts there, the line it states  *)
(* (-1 = none), whether its counts are right, and its remarks on a missing  *)
(* final line break.  Byte order marks are left out.                        *)
(***************************************************************************)
EXTENDS Integers, Sequences, FiniteSets, FiniteSetsExt, SequencesExt

CONSTANTS
    Editor,
    FirstTexts,     \* the texts the file may start with
    EditMenu,       \* editor -> the edits it may ask for
    CommandTexts,   \* what commands write
    MaxCommands,    \* bound: writes by commands
    LineSize,       \* line -> its length
    GuardSize       \* OVERWRITE_GUARD_MIN_CHARS

Line  == DOMAIN LineSize
Texts == [lines : Seq(Line), ended : BOOLEAN, style : {"lf", "crlf", "mixed", "absent"}]
Hunks == [at : Nat \cup {-1}, old : Seq(Line), new : Seq(Line), counted : BOOLEAN,
          remarks : SUBSET {"old", "new", "middle"}]

(* what a call of a tool may ask for                                        *)
IsEdit(x) ==
    \/ x.kind = "create" /\ x.to \in Texts /\ x.overwrite \in BOOLEAN
    \/ /\ x.kind = "replace" /\ x.old \in Seq(Line) \ {<<>>} /\ x.new \in Seq(Line) \ {<<>>}
       /\ x.old[1] # "" /\ Last(x.old) # ""
    \/ /\ x.kind = "lines" /\ x.first \in Int /\ x.end \in Int /\ x.new \in Seq(Line)
       /\ x.quoted \in Texts /\ x.relocate \in BOOLEAN
    \/ x.kind = "diff" /\ x.hunks \in Seq(Hunks) /\ x.normalize \in BOOLEAN

ASSUME FileAssumption ==
    /\ MaxCommands \in Nat /\ GuardSize \in Nat /\ FirstTexts \cup CommandTexts \subseteq Texts
    /\ \A e \in Editor : \A x \in EditMenu[e] : IsEdit(x)
    /\ \A l \in Line : LineSize[l] \in Nat

VARIABLES
    text,       \* the file
    revision,   \* how often it was replaced: the identity of its content
    commands,   \* writes by commands so far
    lock,       \* the editors that hold the write lock of the file
    temps,      \* the editors whose temporary file exists
    ed,         \* editor -> its call
    published   \* the last publication by an editor

fileVars == <<text, revision, commands, lock, temps, ed, published>>

NoFile  == [lines |-> <<>>, ended |-> FALSE, style |-> "absent"]
Refused == [lines |-> <<>>, ended |-> FALSE, style |-> "refused"]

(* the text that the lines make: a blank last line without its break is the *)
(* break of the line before it                                              *)
TextOf(lines, ended, style) ==
    LET tail == ~ended /\ lines # <<>> /\ Last(lines) = ""
        ls   == IF tail THEN Front(lines) ELSE lines
        en   == ls # <<>> /\ (tail \/ ended)
    IN  [lines |-> ls, ended |-> en, style |-> IF Len(ls) > 1 \/ en THEN style ELSE "lf"]

SizeOf(ls) == FoldSeq(LAMBDA l, acc : LineSize[l] + acc, 0, ls)

Chars(t) ==
    LET breaks == IF t.ended \/ t.lines = <<>> THEN Len(t.lines) ELSE Len(t.lines) - 1
    IN  SizeOf(t.lines) + breaks * (IF t.style = "crlf" THEN 2 ELSE 1)

(* the places from which on a block stands in the lines                     *)
FoundAt(ls, block, from) ==
    {i \in from..(Len(ls) - Len(block) + 1) : SubSeq(ls, i, i + Len(block) - 1) = block}

(* lines first..end of ls, or nothing before first, replaced by block       *)
Splice(ls, first, end, block) == SubSeq(ls, 1, first - 1) \o block \o SubSeq(ls, end + 1, Len(ls))

----------------------------------------------------------------------------
(* The edits                                                                *)

(* a text that is much shorter than the one it replaces is refused          *)
CreateText(t, x) ==
    IF /\ ~x.overwrite /\ t # NoFile
       /\ Chars(t) >= GuardSize /\ 2 * Chars(x.to) < Chars(t)
    THEN Refused ELSE x.to

StrReplace(t, x) ==
    LET found == FoundAt(t.lines, x.old, 1)
        i == Min(found)
    IN  IF \/ t = NoFile \/ x.old = x.new \/ Cardinality(found) # 1
           \/ t.style = "mixed" /\ (Len(x.old) > 1 \/ Len(x.new) > 1)
        THEN Refused
        ELSE TextOf(Splice(t.lines, i, i + Len(x.old) - 1, x.new), t.ended, t.style)

(* the range reads as the quoted text, with or without its last break       *)
ReadsAs(ls, first, end, quoted) ==
    LET range == SubSeq(ls, first, end)
    IN  \/ TextOf(range, FALSE, "lf") = quoted
        \/ range # <<>> /\ TextOf(range, TRUE, "lf") = quoted

(* where else the quoted text stands; a break at its end is a blank line    *)
(* when the range has one line more than the quote                          *)
LocateExpected(ls, quoted, count) ==
    LET block == IF quoted.ended /\ count = Len(quoted.lines) + 1
                 THEN Append(quoted.lines, "") ELSE quoted.lines
    IN  IF quoted.lines = <<>> THEN {}
        ELSE {<<i, i + Len(block) - 1>> : i \in FoundAt(ls, block, 1)}

LineReplace(t, x) ==
    LET ls == t.lines
        total == Len(ls)
        outside == x.first < 1 \/ x.end < x.first - 1 \/ x.first > total + 1 \/ x.end > total
        here == x.quoted = NoFile \/ ReadsAs(ls, x.first, x.end, x.quoted)
        found == LocateExpected(ls, x.quoted, x.end - x.first + 1)
        range == IF here THEN <<x.first, x.end>> ELSE CHOOSE r \in found : TRUE
    IN  IF \/ t = NoFile \/ t.style = "mixed" \/ outside
           \/ ~here /\ ~(x.relocate /\ Cardinality(found) = 1)
        THEN Refused
        ELSE LET new == Splice(ls, range[1], range[2], x.new)
             IN  TextOf(new, t.ended /\ new # <<>>, t.style)

HunkIsSound(h, normalize) ==
    /\ h.at = -1 => normalize
    /\ h.at = 0 => h.old = <<>>
    /\ IF normalize THEN h.old # <<>> \/ h.new # <<>> ELSE h.counted

(* the place of a block, at or after the line `from`: the one nearest to    *)
(* the stated line, 0 = none                                                *)
FindBlock(ls, h, from) ==
    LET stated == IF h.old = <<>> THEN h.at + 1 ELSE h.at
        away(i) == IF i < stated THEN stated - i ELSE i - stated
        found == FoundAt(ls, h.old, from)
        near == {i \in found : \A j \in found : away(i) <= away(j)}
    IN  IF h.at = -1
        THEN IF h.old # <<>> /\ Cardinality(found) = 1 THEN Min(found) ELSE 0
        ELSE IF h.old = <<>>
        THEN IF stated \in from..(Len(ls) + 1) THEN stated ELSE 0
        ELSE IF found = {} THEN 0 ELSE Min(near)

(* the remarks on the final break are about the end of the file, agree with *)
(* it, and stand at the last lines of the last hunk                         *)
RemarksFit(t, h, end, last) ==
    h.remarks = {} \/ /\ last /\ end = Len(t.lines)
                      /\ "middle" \notin h.remarks
                      /\ t.lines # <<>> => t.ended # ("old" \in h.remarks)

(* hunk by hunk: the lines up to its place are kept, its new block follows  *)
UnifiedDiff(t, x) ==
    LET hunks == x.hunks
        apply(acc, k) ==
            LET h == hunks[k]
                at == FindBlock(t.lines, h, acc.next)
                end == at + Len(h.old) - 1
            IN  IF ~acc.ok \/ at = 0 THEN [acc EXCEPT !.ok = FALSE]
                ELSE IF ~RemarksFit(t, h, end, k = Len(hunks)) THEN [acc EXCEPT !.ok = FALSE]
                ELSE [ok |-> TRUE, next |-> end + 1,
                      out |-> acc.out \o SubSeq(t.lines, acc.next, at - 1) \o h.new,
                      ended |-> IF h.remarks = {} THEN acc.ended ELSE "new" \notin h.remarks]
        all == FoldLeft(apply, [ok |-> TRUE, next |-> 1, out |-> <<>>,
                                ended |-> t.ended \/ t.lines = <<>>],
                        [k \in DOMAIN hunks |-> k])
        new == all.out \o SubSeq(t.lines, all.next, Len(t.lines))
    IN  IF \/ t = NoFile \/ t.style = "mixed" \/ hunks = <<>>
           \/ \E k \in DOMAIN hunks : ~HunkIsSound(hunks[k], x.normalize)
           \/ ~all.ok
        THEN Refused
        ELSE TextOf(new, all.ended /\ new # <<>>, t.style)

(* an edit other than a creation that changes nothing is refused            *)
Made(t, x) ==
    CASE x.kind = "create"  -> CreateText(t, x)
      [] x.kind = "replace" -> StrReplace(t, x)
      [] x.kind = "lines"   -> LineReplace(t, x)
      [] x.kind = "diff"    -> UnifiedDiff(t, x)

OrNoChange(t, x, new) == IF x.kind # "create" /\ new = t THEN Refused ELSE new

Edited(t, x) == OrNoChange(t, x, Made(t, x))

----------------------------------------------------------------------------
(* Reading by windows                                                       *)

(* the lines a range read returns from line `from` on: whole lines while    *)
(* they fit the cap, a part of the next one if there is room for any of it; *)
(* `cut` says that the cap ended it                                         *)
RangeOf(t, from, most, cap) ==
    LET rest == Len(t.lines) - from + 1
        used(k) == SizeOf(SubSeq(t.lines, from, from + k - 1)) + k - 1
        room(k) == IF k = 0 THEN cap ELSE cap - used(k) - 1
        fits(k) == \A j \in 1..k : room(j - 1) >= 1 /\ used(j) <= cap
        whole == Max({k \in 0..Min({most, rest}) : fits(k)})
        atEnd == whole = rest /\ (~t.ended \/ room(whole) >= 1)
        cut == whole < most /\ ~atEnd
    IN  IF rest <= 0 THEN [count |-> 0, cut |-> FALSE, more |-> FALSE]
        ELSE [count |-> IF cut /\ room(whole) >= 1 THEN whole + 1 ELSE whole,
              cut |-> cut, more |-> cut \/ whole < rest]

(* what file_read shows of it, each row with the number of its line: a row  *)
(* that the cap cut is left to the next read, unless it is the only one     *)
Rendered(t, from, cap, range) ==
    LET rows(k) == SizeOf(SubSeq(t.lines, from, from + k - 1)) + 3 * k - 1
        shown == Max({k \in 0..range.count :
                        (k > 0 => rows(k) <= cap) /\ ~(range.cut /\ k = range.count /\ k > 0)})
    IN  IF shown = 0 /\ range.count > 0
        THEN [count |-> 1, clipped |-> TRUE, more |-> FALSE]
        ELSE [count |-> shown, clipped |-> FALSE,
              more |-> range.more \/ shown < range.count]

WindowOf(t, from, most, cap) == Rendered(t, from, cap, RangeOf(t, from, most, cap))

----------------------------------------------------------------------------
(* A call                                                                   *)

NoEdit == [kind |-> "none"]
NoCall == [at |-> "idle", edit |-> NoEdit, base |-> NoFile, next |-> NoFile, since |-> 0,
           seen |-> 0, gone |-> FALSE, changed |-> "no", landed |-> FALSE, told |-> ""]

FilesInit ==
    /\ text \in FirstTexts /\ revision = 0 /\ commands = 0 /\ lock = {} /\ temps = {}
    /\ ed = [e \in Editor |-> NoCall]
    /\ published = [by |-> "", edit |-> NoEdit, base |-> NoFile, from |-> NoFile,
                  to |-> NoFile, raced |-> FALSE, claims |-> "no"]

AtStage(e, s) == ed[e].at = s
Blind(x) == x.kind = "create" /\ x.overwrite

(* the call is over: its temporary file and its lock are gone               *)
EndEdit(e, answer) ==
    /\ ed' = [ed EXCEPT ![e].at = "over", ![e].told = IF ed[e].gone THEN "cancelled" ELSE answer]
    /\ lock' = lock \ {e} /\ temps' = temps \ {e}

AskEdit(e, x) ==
    /\ AtStage(e, "idle") /\ ed' = [ed EXCEPT ![e] = [NoCall EXCEPT !.at = "waiting", !.edit = x]]
    /\ UNCHANGED <<text, revision, commands, lock, temps, published>>

(* the lock of the file; an unconditional creation does not read it         *)
TakeLock(e) ==
    /\ AtStage(e, "waiting") /\ lock = {} /\ lock' = {e}
    /\ ed' = IF Blind(ed[e].edit)
             THEN [ed EXCEPT ![e].at = "write", ![e].next = ed[e].edit.to,
                             ![e].changed = "unknown"]
             ELSE [ed EXCEPT ![e].at = "read"]
    /\ UNCHANGED <<text, revision, commands, temps, published>>

LockTimesOut(e) ==
    /\ AtStage(e, "waiting") /\ lock # {} /\ EndEdit(e, "error")
    /\ UNCHANGED <<text, revision, commands, published>>

(* the file is read and the whole new text is built, or the edit is refused *)
Propose(e, new) ==
    IF ed[e].gone \/ new = Refused THEN EndEdit(e, "error")
    ELSE /\ ed' = [ed EXCEPT ![e].at = "write", ![e].base = text, ![e].next = new,
                             ![e].since = commands, ![e].changed = "unknown"]
         /\ UNCHANGED <<lock, temps>>

ReadAndBuild(e) ==
    /\ AtStage(e, "read") /\ Propose(e, Edited(text, ed[e].edit))
    /\ UNCHANGED <<text, revision, commands, published>>

(* the new text is written beside the file                                  *)
WriteBeside(e) ==
    /\ AtStage(e, "write") /\ temps' = temps \cup {e}
    /\ ed' = [ed EXCEPT ![e].at = "publish", ![e].seen = revision]
    /\ UNCHANGED <<text, revision, commands, lock, published>>

(* an unconditional creation compares with what it found, if that is still  *)
(* there; the other edits know what they change                             *)
ObserveChange(e) ==
    LET x == ed[e].edit
    IN  IF Blind(x) THEN IF revision # ed[e].seen THEN "unknown"
                         ELSE IF text = ed[e].next THEN "same" ELSE "yes"
        ELSE IF x.kind = "create" /\ ed[e].base = ed[e].next THEN "same" ELSE "yes"

Compare(e) ==
    /\ AtStage(e, "publish")
    /\ ed' = [ed EXCEPT ![e].at = "rename", ![e].changed = ObserveChange(e),
                        ![e].since = IF Blind(ed[e].edit) THEN commands ELSE @]
    /\ UNCHANGED <<text, revision, commands, lock, temps, published>>

Rename(e) ==
    /\ AtStage(e, "rename")
    /\ text' = ed[e].next /\ revision' = revision + 1 /\ temps' = temps \ {e}
    /\ published' = [by |-> e, edit |-> ed[e].edit, base |-> ed[e].base, from |-> text,
                   to |-> ed[e].next, raced |-> commands # ed[e].since,
                   claims |-> ed[e].changed]
    /\ ed' = [ed EXCEPT ![e].at = "sync", ![e].landed = TRUE]
    /\ UNCHANGED <<commands, lock>>

(* the directory is synced and the call answers; when that fails the new    *)
(* text is there and the call reports an error                              *)
AnswerEdit(e, synced) ==
    /\ AtStage(e, "sync") /\ EndEdit(e, IF synced THEN "ok" ELSE "error")
    /\ UNCHANGED <<text, revision, commands, published>>

WriteFails(e) ==
    /\ ed[e].at \in {"write", "publish", "rename"} /\ EndEdit(e, "error")
    /\ UNCHANGED <<text, revision, commands, published>>

CancelReleases(e) ==
    /\ ed[e].at \in {"read", "write", "publish", "rename", "sync"} /\ ~ed[e].gone
    /\ ed' = [ed EXCEPT ![e].gone = TRUE] /\ lock' = lock \ {e} /\ UNCHANGED temps
    /\ UNCHANGED <<text, revision, commands, published>>

(* the call is cancelled: a wait for the lock ends; a file operation under  *)
(* way is awaited, under the lock, before the cancellation goes on          *)
CancelEdit(e) ==
    /\ \/ AtStage(e, "waiting") /\ EndEdit(e, "cancelled")
       \/ /\ ed[e].at \in {"read", "write", "publish", "rename", "sync"} /\ ~ed[e].gone
          /\ ed' = [ed EXCEPT ![e].gone = TRUE] /\ UNCHANGED <<lock, temps>>
    /\ UNCHANGED <<text, revision, commands, published>>

(* the process of an editor dies; the system gives its lock back            *)
EditorDies(e) ==
    /\ ed[e].at \notin {"idle", "over", "dead"}
    /\ ed' = [ed EXCEPT ![e].at = "dead"] /\ lock' = lock \ {e}
    /\ UNCHANGED <<text, revision, commands, temps, published>>

CommandWrites(t) ==
    /\ commands < MaxCommands /\ commands' = commands + 1
    /\ text' = t /\ revision' = revision + 1
    /\ UNCHANGED <<lock, temps, ed, published>>

FilesNext ==
    \/ \E e \in Editor :
          \/ \E x \in EditMenu[e] : AskEdit(e, x)
          \/ TakeLock(e) \/ LockTimesOut(e) \/ ReadAndBuild(e) \/ WriteBeside(e)
          \/ Compare(e) \/ Rename(e) \/ WriteFails(e) \/ CancelEdit(e) \/ EditorDies(e)
          \/ \E synced \in BOOLEAN : AnswerEdit(e, synced)
    \/ \E t \in CommandTexts : CommandWrites(t)

FilesSpec == FilesInit /\ [][FilesNext]_fileVars

----------------------------------------------------------------------------

(* whether the new text is what the edit says, told from the two texts: one *)
(* place holds what was to be replaced, what is around it stays, and where  *)
(* an edit says its place and fits there that is the place                  *)
ByReplace(x, from, to) ==
    \E i \in 1..Len(from.lines) :
        /\ FoundAt(from.lines, x.old, 1) = {i}
        /\ to = TextOf(Splice(from.lines, i, i + Len(x.old) - 1, x.new), from.ended, from.style)

ByLines(x, from, to) ==
    LET ls == from.lines
        places == {<<i, j>> \in (1..(Len(ls) + 1)) \X (0..Len(ls)) : j >= i - 1}
        reads(p) == x.quoted = NoFile \/ ReadsAs(ls, p[1], p[2], x.quoted)
    IN  \E p \in places :
            /\ reads(p) /\ to = TextOf(Splice(ls, p[1], p[2], x.new), from.ended, from.style)
            /\ <<x.first, x.end>> \in places
            /\ reads(<<x.first, x.end>>) => p = <<x.first, x.end>>

ByDiff(x, from, to) ==
    LET hs == x.hunks
        ls == from.lines
        stated(k) == IF hs[k].old = <<>> THEN hs[k].at + 1 ELSE hs[k].at
        end(p, k) == IF k = 0 THEN 0 ELSE p[k] + Len(hs[k].old) - 1
        fits(p) == \A k \in DOMAIN hs :
                      p[k] \in FoundAt(ls, hs[k].old, 1) /\ p[k] > end(p, k - 1)
        kept(p, k) == SubSeq(ls, end(p, k - 1) + 1, p[k] - 1)
        built(p) == FlattenSeq([k \in DOMAIN hs |-> kept(p, k) \o hs[k].new])
                      \o SubSeq(ls, end(p, Len(hs)) + 1, Len(ls))
        asStated == [k \in DOMAIN hs |-> stated(k)]
    IN  \E p \in [DOMAIN hs -> 1..(Len(ls) + 1)] :
            /\ fits(p) /\ (fits(asStated) => p = asStated)
            /\ \E ended \in BOOLEAN :
                  /\ to = TextOf(built(p), ended, from.style)
                  /\ Last(hs).remarks = {} /\ ls # <<>> => ended = from.ended

(* Every text an editor published is exactly what its edit says of the text *)
(* it read; and that was the text it replaced, unless a command wrote in    *)
(* between: no edit under the lock is lost, also when a call is cancelled   *)
(* or its process dies while the write is under way.                        *)
NoEditIsLost ==
    LET w == published
    IN  w.by # "" =>
        /\ Blind(w.edit) \/ w.raced \/ w.base = w.from
        /\ CASE w.edit.kind = "create"  -> w.to = w.edit.to
             [] w.edit.kind = "replace" -> ByReplace(w.edit, w.base, w.to)
             [] w.edit.kind = "lines"   -> ByLines(w.edit, w.base, w.to)
             [] w.edit.kind = "diff"    -> ByDiff(w.edit, w.base, w.to)

(* What a call answers and records is true: a success was published, a call *)
(* that recorded no change published nothing, whatever it was refused or    *)
(* stopped by, a claim that nothing changed or that something did holds     *)
(* unless a command interfered; and only a dead process leaves a temporary  *)
(* file behind.                                                             *)
AnswersAreTrue ==
    /\ \A e \in Editor :
          /\ ed[e].told = "ok" => ed[e].landed
          /\ ed[e].changed = "no" => ~ed[e].landed
          /\ e \in temps => ed[e].at \in {"publish", "rename", "dead"}
    /\ published.by # "" /\ ~published.raced =>
          /\ published.claims = "same" => published.from = published.to
          /\ published.claims = "yes" => published.from # published.to

TellsAll(from, cap, w) ==
    \/ w.clipped /\ LineSize[text.lines[from]] + 2 > cap
    \/ /\ ~w.clipped /\ w.count >= 1
       /\ w.more <=> from + w.count - 1 < Len(text.lines)

(* A file can be read by windows without losing a line: each window shows   *)
(* at least one line or says that the line is too long, and it says that    *)
(* more follow exactly when more do.                                        *)
WindowsLoseNothing ==
    \A cap \in {2, 4, 7}, from \in DOMAIN text.lines :
        TellsAll(from, cap, WindowOf(text, from, 2, cap))

(* Edits are exact and none is lost, answers are true, and reads by windows *)
(* show the whole file.                                                     *)
FilesAreSound == NoEditIsLost /\ AnswersAreTrue /\ WindowsLoseNothing
=============================================================================
