-------------------------------- MODULE Driver --------------------------------
(***************************************************************************)
(* The driver (shaolang.cpp): it reads the command line, and then compiles *)
(* one source file after the other, each with a compiler of its own, and   *)
(* hands the assembly to the host's tool chain (codegen/linker.cpp).  What *)
(* the stages of the compiler do with a text is only the number of errors  *)
(* they report.                                                            *)
(*                                                                         *)
(* Several runs of the program share the disk: their steps interleave, a   *)
(* file can fail to be opened, a tool can be missing or fail, the system   *)
(* can refuse to remove a file, and a run can be killed between any two    *)
(* steps.                                                                  *)
(***************************************************************************)
EXTENDS Integers, Sequences, SequencesExt, FiniteSets

CONSTANTS
    Processes,       \* the process numbers of the runs
    CommandLines,    \* functions from Processes to sequences of arguments
    Hosts,           \* the machines the compiler can have been built on
    Texts,           \* the files there are at first: what stands in each
    Errors,          \* the number of errors in each text
    Candidates       \* the directories tried for temporary files, in order

VARIABLES
    host,      \* host_target()
    lines,     \* argv of every process
    disk,      \* the contents of every file there is
    run,       \* the state of every process
    stuck      \* the files that a process was not allowed to remove

vars == <<host, lines, disk, run, stuck>>

-----------------------------------------------------------------------------
(* Files.  A path is a directory, a stem and an extension ("" for none).   *)
(* Every content but a text is made from one.                              *)
Path(dir, stem, ext) == [dir |-> dir, stem |-> stem, ext |-> ext]
NoPath  == Path("", <<>>, "")
Here    == "."

Content(is, text) == [is |-> is, text |-> text]
NoFile  == Content("nothing", "")
Stored(path) == IF path \in DOMAIN disk THEN disk[path] ELSE NoFile
With(path, content) == [f \in DOMAIN disk \cup {path} |-> IF f = path THEN content ELSE disk[f]]
Without(path)       == [f \in DOMAIN disk \ {path} |-> disk[f]]

(* A file that cannot be opened is read as an empty one: the scanner says  *)
(* so, but counts no error.  A file that is not a text is full of errors.  *)
ErrorsIn(content) ==
    CASE content.is = "text" -> Errors[content.text] [] content = NoFile -> 0 [] OTHER -> 1

(* A user names a file by one word, and not by the name of a temporary     *)
(* file, which holds the number of a process that has not yet started.     *)
Named(path) == path = Path(path.dir, path.stem, path.ext) /\ Len(path.stem) < 2

ASSUME NamesAssumption ==
    /\ \A path \in DOMAIN Texts : Named(path)
    /\ \A line \in CommandLines, p \in Processes :
          /\ line[p] \in Seq(ToSet(line[p]))
          /\ \A a \in ToSet(line[p]) : a.is = "file" => Named(a.path)

ASSUME ErrorsAssumption == \A path \in DOMAIN Texts : Errors[Texts[path]] \in Nat

default_output_path(source) ==
    IF source.stem = <<>> THEN [source EXCEPT !.dir = Here] ELSE Path(Here, source.stem, "")
with_exe_suffix(path) == IF path.ext = "" THEN [path EXCEPT !.ext = "exe"] ELSE path
object_path_of(path)  == [path EXCEPT !.ext = "obj"]

\* Mutant of temp_assembly_path: the name does not say which process it belongs to.
temp_assembly_path_shared(process, index, usable) ==
    LET fit == SelectSeq(Candidates, LAMBDA dir : dir \in usable)
    IN  Path(IF fit = <<>> THEN Here ELSE fit[1], <<"shaolang", "", index>>,
             IF host.platform = "windows" THEN "asm" ELSE "s")

temp_assembly_path(process, index, usable) ==
    LET fit == SelectSeq(Candidates, LAMBDA dir : dir \in usable)
    IN  Path(IF fit = <<>> THEN Here ELSE fit[1], <<"shaolang", process, index>>,
             IF host.platform = "windows" THEN "asm" ELSE "s")

-----------------------------------------------------------------------------
(* Targets.                                                                *)
Target(architecture, platform) == [architecture |-> architecture, platform |-> platform]
Unknown == Target("", "")

target_supported(t) ==
    \/ t.architecture = "arm64" /\ t.platform # "windows"
    \/ t.architecture = "x86"
    \/ t.architecture = "x64" /\ t.platform # "macos"
linkable_on_host(t) == t = host

-----------------------------------------------------------------------------
Defaults == [help |-> FALSE, ir |-> FALSE, assembly |-> FALSE, output |-> NoPath, target |-> host]
Started ==
    [pc |-> "arguments", at |-> 1, options |-> Defaults, files |-> <<>>,
     index |-> 1, errors |-> 0, has_error |-> FALSE, text |-> NoFile, output |-> NoPath,
     temp |-> NoPath, linked |-> FALSE, answers |-> <<>>, code |-> 0]

Init ==
    /\ host \in Hosts /\ lines \in CommandLines
    /\ disk = [path \in DOMAIN Texts |-> Content("text", Texts[path])]
    /\ run = [p \in Processes |-> Started]
    /\ stuck = {}

At(p, place) == run[p].pc = place
Becomes(p, r) == run' = [run EXCEPT ![p] = r] /\ UNCHANGED <<host, lines>>
Goes(p, place) == Becomes(p, [run[p] EXCEPT !.pc = place])
Keeps == UNCHANGED disk
Exits(p, n) == Becomes(p, [run[p] EXCEPT !.pc = "exited", !.code = n])

generateExecutable(r) == ~r.options.assembly /\ ~r.options.ir

-----------------------------------------------------------------------------
(* main() over the arguments.  -t, -b and -v only print more.  -o takes    *)
(* whatever comes next for a file name.                                    *)
NameOf(a) == IF a.is = "file" THEN a.path ELSE Path(Here, <<a.is>>, "")

argument(p) ==
    LET r == run[p]
        a == lines[p][r.at]
        Takes(n, o, files) == Becomes(p, [r EXCEPT !.at = @ + n, !.options = o, !.files = files])
    IN  /\ At(p, "arguments") /\ r.at <= Len(lines[p])
        /\ \/ a.is = "-h"   /\ Takes(1, [r.options EXCEPT !.help = TRUE], r.files)
           \/ a.is = "-ir"  /\ Takes(1, [r.options EXCEPT !.ir = TRUE], r.files)
           \/ a.is = "-S"   /\ Takes(1, [r.options EXCEPT !.assembly = TRUE], r.files)
           \/ a.is = "-v"   /\ Takes(1, r.options, r.files)
           \/ a.is = "file" /\ Takes(1, r.options, Append(r.files, a.path))
           \/ /\ a.is = "-o" /\ r.at < Len(lines[p])
              /\ Takes(2, [r.options EXCEPT !.output = NameOf(lines[p][r.at + 1])], r.files)
           \/ /\ a.is = "--target" /\ a.target # Unknown
              /\ Takes(1, [r.options EXCEPT !.target = a.target], r.files)
           \/ /\ \/ a.is = "-o" /\ r.at = Len(lines[p])
                 \/ a.is = "--target" /\ a.target = Unknown
                 \/ a.is = "-x"
              /\ Exits(p, 2)
        /\ Keeps /\ UNCHANGED stuck

check_options(p) ==
    LET r == run[p] IN
    /\ At(p, "arguments") /\ r.at > Len(lines[p])
    /\ \/ /\ \/ ~target_supported(r.options.target)
             \/ r.options.output # NoPath /\ Len(r.files) > 1
             \/ ~r.options.help /\ r.files = <<>>
          /\ Exits(p, 2)
       \/ /\ target_supported(r.options.target)
          /\ r.options.output = NoPath \/ Len(r.files) <= 1
          /\ \/ r.options.help /\ Exits(p, 0)
             \/ ~r.options.help /\ r.files # <<>> /\ Goes(p, "file")
    /\ Keeps /\ UNCHANGED stuck

-----------------------------------------------------------------------------
(* One file.                                                               *)
OutputOf(r, k) ==
    LET path == IF r.options.output # NoPath THEN r.options.output ELSE default_output_path(r.files[k])
    IN  IF host.platform = "windows" /\ generateExecutable(r) THEN with_exe_suffix(path) ELSE path

\* Mutant of errors_before: the difference is taken from the start of the run.
errors_before_none(r) == 0

errors_before(r) == r.errors

(* Scanner, lexer, parser and, with -ir, the optimiser.                    *)
compile(p) ==
    LET r    == run[p]
        text == Stored(r.files[r.index])
        sum  == r.errors + ErrorsIn(text)
    IN  /\ At(p, "file")
        /\ Becomes(p, [r EXCEPT !.pc = "compiled", !.text = text, !.errors = sum,
                                !.has_error = sum > errors_before(r), !.output = OutputOf(r, r.index)])
        /\ Keeps /\ UNCHANGED stuck

\* Mutant of Answered: a file with errors ends the run.
Answered_stops(p, what) ==
    LET r == run[p]
        s == [r EXCEPT !.answers = Append(@, [what |-> what, text |-> r.text]), !.index = @ + 1,
                       !.linked = FALSE, !.temp = NoPath]
    IN  Becomes(p, [s EXCEPT !.pc = IF s.index <= Len(s.files) /\ what # "refused" THEN "file" ELSE "exited"])

(* The user is told what has become of the file, and the next one is due.  *)
Answered(p, what) ==
    LET r == run[p]
        s == [r EXCEPT !.answers = Append(@, [what |-> what, text |-> r.text]), !.index = @ + 1,
                       !.linked = FALSE, !.temp = NoPath]
    IN  Becomes(p, [s EXCEPT !.pc = IF s.index <= Len(s.files) THEN "file" ELSE "exited"])

Gated(r) == r.has_error /\ (r.options.assembly \/ generateExecutable(r))

refuse(p) ==
    /\ At(p, "compiled") /\ Gated(run[p])
    /\ Answered(p, "refused") /\ Keeps /\ UNCHANGED stuck

show_code(p) ==
    /\ At(p, "compiled") /\ ~run[p].options.assembly /\ ~generateExecutable(run[p])
    /\ Answered(p, "code") /\ Keeps /\ UNCHANGED stuck

(* -S, to the file named by -o or to the screen.                           *)
emit_assembly(p) ==
    LET r == run[p] IN
    /\ At(p, "compiled") /\ ~Gated(r) /\ r.options.assembly
    /\ \/ /\ r.options.output = NoPath
          /\ Answered(p, "assembly") /\ Keeps
       \/ /\ r.options.output # NoPath
          /\ Answered(p, "assembly")
          /\ disk' = With(r.options.output, Content("assembly", r.text.text))
       \/ r.options.output # NoPath /\ Exits(p, 2) /\ Keeps
    /\ UNCHANGED stuck

refuse_target(p) ==
    LET r == run[p] IN
    /\ At(p, "compiled") /\ ~Gated(r) /\ generateExecutable(r) /\ ~linkable_on_host(r.options.target)
    /\ Answered(p, "foreign") /\ Keeps /\ UNCHANGED stuck

write_temp(p) ==
    LET r == run[p] IN
    /\ At(p, "compiled") /\ ~Gated(r) /\ generateExecutable(r) /\ linkable_on_host(r.options.target)
    /\ \E usable \in SUBSET ToSet(Candidates) :
          LET temp == temp_assembly_path(p, r.index, usable) IN
          \/ /\ Becomes(p, [r EXCEPT !.pc = "written", !.temp = temp])
             /\ disk' = With(temp, Content("assembly", r.text.text))
          \/ Exits(p, 2) /\ Keeps
    /\ UNCHANGED stuck

-----------------------------------------------------------------------------
(* Linker::assemble_and_link.  A tool that fails may have taken the old    *)
(* output away, or have left half a file.                                  *)
Tried(p, place, linked) == Becomes(p, [run[p] EXCEPT !.pc = place, !.linked = linked])

cc(p) ==
    LET r == run[p] IN
    /\ At(p, "written") /\ host.platform # "windows"
    /\ \/ /\ Stored(r.temp).is = "assembly"
          /\ disk' = With(r.output, Content("program", Stored(r.temp).text))
          /\ Tried(p, IF host.platform = "macos" THEN "unsigned" ELSE "tried", TRUE)
       \/ disk' \in {disk, Without(r.output)} /\ Tried(p, "tried", FALSE)
    /\ UNCHANGED stuck

codesign(p) ==
    LET r == run[p] IN
    /\ At(p, "unsigned")
    /\ \/ /\ Stored(r.output).is \in {"program", "signed"}
          /\ disk' = With(r.output, Content("signed", Stored(r.output).text))
          /\ Tried(p, "tried", TRUE)
       \/ Keeps /\ Tried(p, "tried", FALSE)
    /\ UNCHANGED stuck

(* Linker::link_coff.                                                      *)
tool_available(p) ==
    /\ At(p, "written") /\ host.platform = "windows"
    /\ Goes(p, "assembler") \/ Tried(p, "tried", FALSE)
    /\ Keeps /\ UNCHANGED stuck

\* Mutant of ml: the object file is only taken away after the linker.
ml_leaves(p) ==
    LET r == run[p] object == object_path_of(run[p].temp) IN
    /\ At(p, "assembler")
    /\ \/ /\ Stored(r.temp).is = "assembly"
          /\ disk' = With(object, Content("object", Stored(r.temp).text))
          /\ Goes(p, "linker")
       \/ disk' \in {disk, With(object, Content("junk", ""))} /\ Tried(p, "tried", FALSE)
    /\ UNCHANGED stuck

ml(p) ==
    LET r == run[p] object == object_path_of(run[p].temp) IN
    /\ At(p, "assembler")
    /\ \/ /\ Stored(r.temp).is = "assembly"
          /\ disk' = With(object, Content("object", Stored(r.temp).text))
          /\ Goes(p, "linker")
       \/ disk' \in {disk, With(object, Content("junk", ""))} /\ Tried(p, "object", FALSE)
    /\ UNCHANGED stuck

link(p) ==
    LET r == run[p] object == object_path_of(run[p].temp) IN
    /\ At(p, "linker")
    /\ \/ /\ Stored(object).is = "object"
          /\ disk' = With(r.output, Content("program", Stored(object).text))
          /\ Tried(p, "object", TRUE)
       \/ disk' \in {disk, Without(r.output)} /\ Tried(p, "object", FALSE)
    /\ UNCHANGED stuck

(* What remove() returns is not looked at.                                 *)
remove(path) ==
    \/ disk' = Without(path) /\ UNCHANGED stuck
    \/ path \in DOMAIN disk /\ Keeps /\ stuck' = stuck \cup {path}

remove_object(p) ==
    /\ At(p, "object")
    /\ remove(object_path_of(run[p].temp)) /\ Goes(p, "tried")

remove_temp(p) ==
    /\ At(p, "tried")
    /\ remove(run[p].temp) /\ Answered(p, IF run[p].linked THEN "linked" ELSE "failed")

-----------------------------------------------------------------------------
main(p) ==
    \/ argument(p) \/ check_options(p) \/ compile(p) \/ refuse(p) \/ show_code(p) \/ emit_assembly(p)
    \/ refuse_target(p) \/ write_temp(p) \/ cc(p) \/ codesign(p) \/ tool_available(p) \/ ml(p)
    \/ link(p) \/ remove_object(p) \/ remove_temp(p)

Ended(p) == run[p].pc \in {"exited", "killed"}

(* Nothing in the program catches a signal.                                *)
killed(p) == ~Ended(p) /\ Goes(p, "killed") /\ Keeps /\ UNCHANGED stuck

Next == \E p \in Processes : main(p) \/ killed(p)

(* A process runs until it exits, and the tools it waits for return.       *)
Spec == Init /\ [][Next]_vars /\ \A p \in Processes : WF_vars(main(p))

-----------------------------------------------------------------------------
(* What the tool chain is given is what this process has generated for     *)
(* this file, whatever other compilers do at the same time on the same     *)
(* temporary directory.                                                    *)
LinksItsOwn ==
    \A p \in Processes :
        LET r == run[p] IN
        /\ r.pc \in {"written", "assembler"} => Stored(r.temp) = Content("assembly", r.text.text)
        /\ r.pc = "linker" => Stored(object_path_of(r.temp)) = Content("object", r.text.text)

(* The assembly of a failed link that went to the current directory,       *)
(* because no other could be used.  It is there to be looked at, according *)
(* to the comment at shaolang.cpp:64, and not, according to the one at     *)
(* :230 and to compiler-design_EN.md, 3.10.                                *)
ToLookAt(p, path) ==
    LET answers == run[p].answers
    IN  /\ path.dir = Here /\ path.ext # "obj"
        /\ path.stem[3] \in DOMAIN answers /\ answers[path.stem[3]].what = "failed"

(* A run that is over has left no temporary file behind, assembly or       *)
(* object, however it ended, unless it was killed or the system kept the   *)
(* file.  The assembly of ToLookAt is left out.                            *)
NothingLeftBehind ==
    \A p \in Processes : At(p, "exited") =>
        \A path \in DOMAIN disk \ stuck :
            Len(path.stem) = 3 /\ path.stem[2] = p => ToLookAt(p, path)

(* shaolang.cpp:64: when no directory for temporary files can be used, the *)
(* assembly is written here, so that it is still there after a failed link.*)
AssemblyToLookAt ==
    [][\A p \in Processes :
          LET temp == run[p].temp
          IN  At(p, "tried") /\ ~run[p].linked /\ temp.dir = Here => temp \in DOMAIN disk']_vars

(* What becomes of a file depends on this file alone.  It is refused       *)
(* exactly if there are errors in it; a program reported as linked is      *)
(* there, made from this file and signed where the system asks for it; the *)
(* output of a refused file is left as it was.  Only another file with the *)
(* same output comes in between.                                           *)
Jobs == UNION {{<<p, k>> : k \in DOMAIN run[p].files} : p \in Processes}
Shared(job) ==
    \E other \in Jobs \ {job} :
        OutputOf(run[other[1]], other[2]) = OutputOf(run[job[1]], job[2])
Finished(text) == Content(IF host.platform = "macos" THEN "signed" ELSE "program", text)

FilesAreIndependent ==
    \A p \in Processes : \A k \in DOMAIN run[p].answers :
        LET r      == run[p]
            answer == r.answers[k]
            output == OutputOf(r, k)
        IN  /\ answer.what = "refused" <=>
                  (r.options.assembly \/ generateExecutable(r)) /\ ErrorsIn(answer.text) > 0
            /\ answer.what = "linked" /\ ~Shared(<<p, k>>) => Stored(output) = Finished(answer.text.text)
            /\ answer.what = "refused" /\ ~Shared(<<p, k>>) =>
                  Stored(output) = IF output \in DOMAIN Texts THEN Content("text", Texts[output]) ELSE NoFile

(* Every file of an accepted command line gets its answer, unless the run  *)
(* is killed or a file of its own cannot be written.                       *)
EveryFileIsAnswered ==
    \A p \in Processes :
        <>\/ At(p, "killed")
          \/ /\ At(p, "exited")
             /\ run[p].code = 2 \/ run[p].options.help \/ Len(run[p].answers) = Len(run[p].files)
===============================================================================
