---------------------------- MODULE DriverProofs ----------------------------
(***************************************************************************)
(* However many compilers run at once, on whatever command lines, and      *)
(* whichever of them are killed: no one's temporary files are touched by   *)
(* another, whoever ends by itself has removed its own, and what becomes   *)
(* of a file depends on that file alone.                                   *)
(***************************************************************************)
EXTENDS Driver, SequenceTheorems, TLAPS

-----------------------------------------------------------------------------
(* The inductive invariant.                                                *)
Arguments   == UNION {UNION {ToSet(line[p]) : p \in Processes} : line \in CommandLines}
SourceNames == {a.path : a \in {b \in Arguments : b.is = "file"}}

(* A process is with the tool chain from the moment its assembly file is   *)
(* written until the file is removed; the object file is there for less.   *)
Toolchain  == {"written", "unsigned", "assembler", "linker", "object", "tried"}
HasObject  == {"linker", "object"}
Places     == {"arguments", "file", "compiled", "exited", "killed"} \cup Toolchain
WithFile   == {"file", "compiled"} \cup Toolchain
WithOutput == {"compiled"} \cup Toolchain

AssemblyName(p, path) ==
    path = Path(path.dir, <<"shaolang", p, run[p].index>>,
                IF host.platform = "windows" THEN "asm" ELSE "s")

Fields  == {"pc", "at", "options", "files", "index", "errors", "has_error", "text", "output",
            "temp", "linked", "answers", "code"}
Options == {"help", "ir", "assembly", "output", "target"}

TheTexts == {Texts[path] : path \in DOMAIN Texts}
Made     == {"nothing", "assembly", "object", "junk", "program", "signed"}
Contents == [is : {"text"}, text : TheTexts] \cup [is : Made, text : TheTexts \cup {""}]

(* What a process knows of itself.                                         *)
ProcessOK(p) ==
    LET r == run[p] IN
    /\ DOMAIN r = Fields /\ DOMAIN r.options = Options
    /\ r.pc \in Places
    /\ r.at \in Nat \ {0} /\ r.index \in Nat \ {0} /\ r.errors \in Nat
    /\ r.files \in Seq(SourceNames) /\ r.text \in Contents
    /\ Named(r.options.output)
    /\ r.pc = "arguments" => r.index = 1
    /\ r.pc \in WithFile => r.index \in 1 .. Len(r.files)
    /\ r.pc \in WithOutput => Named(r.output)
    /\ r.pc \in Toolchain => AssemblyName(p, r.temp)

(* The temporary files a process answers for: while it is with the tool    *)
(* chain, and for ever if it is killed there.                              *)
Owns(p, path) ==
    LET r == run[p] IN
    /\ path.stem = <<"shaolang", p, r.index>>
    /\ \/ r.pc = "killed"
       \/ r.pc \in Toolchain /\ path = r.temp
       \/ r.pc \in HasObject /\ path = object_path_of(r.temp)

Links(p) ==
    LET r == run[p] IN
    /\ r.pc \in {"written", "assembler"} => Stored(r.temp) = Content("assembly", r.text.text)
    /\ r.pc = "linker" => Stored(object_path_of(r.temp)) = Content("object", r.text.text)

DiskOK ==
    \A path \in DOMAIN disk :
        /\ disk[path] \in Contents
        /\ Named(path) \/ path \in stuck \/ \E p \in Processes : Owns(p, path)

DriverInv ==
    /\ lines \in CommandLines
    /\ DOMAIN run = Processes /\ \A p \in Processes : ProcessOK(p)
    /\ DiskOK
    /\ \A p \in Processes : Links(p)

-----------------------------------------------------------------------------
(* Facts about paths.                                                      *)
LEMMA PathFields ==
    ASSUME NEW dir, NEW stem, NEW ext
    PROVE  /\ Path(dir, stem, ext).dir = dir /\ Path(dir, stem, ext).stem = stem
           /\ Path(dir, stem, ext).ext = ext
  BY DEF Path

LEMMA ShortIsNamed ==
    ASSUME NEW dir, NEW stem, NEW ext, Len(stem) < 2
    PROVE  Named(Path(dir, stem, ext))
<1>1. /\ Path(dir, stem, ext).dir = dir /\ Path(dir, stem, ext).stem = stem
      /\ Path(dir, stem, ext).ext = ext
  BY PathFields
<1>2. QED
  BY <1>1 DEF Named

LEMMA NamesAreShort ==
    /\ Named(NoPath)
    /\ \A path : Named(path) => \A p, k : path.stem # <<"shaolang", p, k>>
<1>1. Named(NoPath)
  <2>1. Len(<<>>) < 2
    OBVIOUS
  <2>2. Named(Path("", <<>>, ""))
    BY <2>1, ShortIsNamed, Zenon
  <2>3. QED
    BY <2>2 DEF NoPath
<1>2. ASSUME NEW path, Named(path), NEW p, NEW k, path.stem = <<"shaolang", p, k>>
      PROVE  FALSE
  BY <1>2 DEF Named
<1>3. QED
  BY <1>1, <1>2

LEMMA SourcesAreNamed == \A path \in SourceNames : Named(path)
  BY NamesAssumption DEF SourceNames, Arguments

(* Where a program or an assembly goes is a user's name, like its source.  *)
LEMMA OutputIsNamed ==
    ASSUME NEW r, NEW k, Named(r.options.output), Named(r.files[k])
    PROVE  Named(OutputOf(r, k))
<1> DEFINE source == r.files[k]
           path   == IF r.options.output # NoPath THEN r.options.output
                                                  ELSE default_output_path(source)
<1>1. Named(default_output_path(source))
  <2>1. CASE source.stem = <<>>
    <3>1. default_output_path(source) = Path(Here, source.stem, source.ext)
      BY <2>1 DEF default_output_path, Named, Path
    <3>2. QED
      BY <3>1, ShortIsNamed DEF Named
  <2>2. CASE source.stem # <<>>
    <3>1. default_output_path(source) = Path(Here, source.stem, "")
      BY <2>2 DEF default_output_path
    <3>2. Len(source.stem) < 2
      BY DEF Named
    <3>3. QED
      BY <3>1, <3>2, ShortIsNamed
  <2>3. QED
    BY <2>1, <2>2
<1>2. Named(path)
  BY <1>1
<1>3. Named(with_exe_suffix(path))
  <2>1. CASE path.ext = ""
    <3>1. with_exe_suffix(path) = Path(path.dir, path.stem, "exe")
      BY <1>2, <2>1 DEF with_exe_suffix, Named, Path
    <3>2. QED
      BY <1>2, <3>1, ShortIsNamed DEF Named
  <2>2. CASE path.ext # ""
    BY <1>2, <2>2 DEF with_exe_suffix
  <2>3. QED
    BY <2>1, <2>2
<1>4. QED
  BY <1>2, <1>3 DEF OutputOf

LEMMA ObjectPath ==
    ASSUME NEW p, NEW path, AssemblyName(p, path)
    PROVE  /\ object_path_of(path) = Path(path.dir, <<"shaolang", p, run[p].index>>, "obj")
           /\ object_path_of(path) # path
<1>1. path = Path(path.dir, path.stem, path.ext) /\ path.ext \in {"asm", "s"}
      /\ path.stem = <<"shaolang", p, run[p].index>>
  BY PathFields DEF AssemblyName
<1>2. object_path_of(path) = Path(path.dir, path.stem, "obj")
  BY <1>1 DEF object_path_of, Path
<1>3. QED
  BY <1>1, <1>2, PathFields

(* A step of p changes p's entry and at most one file, which is a user's   *)
(* or one of p's temporary files: the other processes do not notice.       *)
Touches(path) ==
    \A f : f # path => /\ f \in DOMAIN disk' <=> f \in DOMAIN disk
                       /\ f \in DOMAIN disk => disk'[f] = disk[f]

LEMMA OthersDoNotNotice ==
    ASSUME DriverInv, NEW p \in Processes, NEW r, Becomes(p, r),
           NEW path, Named(path) \/ path.stem = <<"shaolang", p, run[p].index>>,
           Touches(path),
           NEW q \in Processes, q # p
    PROVE  /\ ProcessOK(q)' /\ Links(q)'
           /\ \A f \in DOMAIN disk' : Owns(q, f) => Owns(q, f)'
<1>1. run'[q] = run[q] /\ host' = host /\ lines' = lines
  BY DEF DriverInv, Becomes
<1>2. ProcessOK(q) /\ Links(q)
  BY DEF DriverInv
<1>3. ProcessOK(q)'
  BY <1>1, <1>2 DEF ProcessOK, AssemblyName, Named, Path
<1>4. ASSUME NEW f, f.stem = <<"shaolang", q, run[q].index>>
      PROVE  /\ f \in DOMAIN disk' <=> f \in DOMAIN disk
             /\ f \in DOMAIN disk => disk'[f] = disk[f]
  <2>1. f # path
    BY <1>4, NamesAreShort
  <2>2. QED
    BY <2>1 DEF Touches
<1>5. Links(q)'
  <2>1. CASE run[q].pc \in Toolchain
    <3> DEFINE temp   == run[q].temp
               object == object_path_of(temp)
    <3>1. AssemblyName(q, temp)
      BY <1>2, <2>1 DEF ProcessOK
    <3>2. temp.stem = <<"shaolang", q, run[q].index>>
      BY <3>1, PathFields DEF AssemblyName
    <3>3. object.stem = <<"shaolang", q, run[q].index>>
      <4>1. object = Path(temp.dir, <<"shaolang", q, run[q].index>>, "obj")
        BY <3>1, ObjectPath
      <4>2. QED
        BY <4>1, PathFields
    <3>4. /\ temp \in DOMAIN disk' <=> temp \in DOMAIN disk
          /\ temp \in DOMAIN disk => disk'[temp] = disk[temp]
      BY <3>2, <1>4
    <3>5. /\ object \in DOMAIN disk' <=> object \in DOMAIN disk
          /\ object \in DOMAIN disk => disk'[object] = disk[object]
      BY <3>3, <1>4
    <3>6. QED
      BY <1>1, <1>2, <3>4, <3>5 DEF Links, Stored, object_path_of
  <2>2. CASE run[q].pc \notin Toolchain
    BY <1>1, <2>2 DEF Links, Toolchain
  <2>3. QED
    BY <2>1, <2>2
<1>6. \A f \in DOMAIN disk' : Owns(q, f) => Owns(q, f)'
  BY <1>1 DEF Owns, object_path_of
<1>7. QED
  BY <1>3, <1>5, <1>6

(* What could not be removed is not forgotten.                             *)
StaysStuck == stuck \subseteq stuck'

LEMMA StepByStep ==
    ASSUME DriverInv, StaysStuck, NEW p \in Processes, NEW r, Becomes(p, r),
           NEW path, Named(path) \/ path.stem = <<"shaolang", p, run[p].index>>,
           Touches(path), path \in DOMAIN disk' => disk'[path] \in Contents,
           ProcessOK(p)', Links(p)',
           \A f \in DOMAIN disk' : f = path \/ Owns(p, f) => Named(f) \/ f \in stuck' \/ Owns(p, f)'
    PROVE  DriverInv'
<1>1. DOMAIN run' = Processes /\ lines' \in CommandLines
  BY DEF DriverInv, Becomes
<1>2. \A q \in Processes : ProcessOK(q)' /\ Links(q)'
  BY OthersDoNotNotice
<1>3. ASSUME NEW f \in DOMAIN disk', ~Named(f), f \notin stuck'
      PROVE  \E q \in Processes : Owns(q, f)'
  <2>1. CASE f = path
    BY <1>3, <2>1
  <2>2. CASE f # path
    <3>1. f \in DOMAIN disk
      BY <2>2 DEF Touches
    <3>2. PICK q \in Processes : Owns(q, f)
      BY <1>3, <3>1 DEF DriverInv, DiskOK, StaysStuck
    <3>3. CASE q = p
      BY <1>3, <3>2, <3>3
    <3>4. CASE q # p
      BY <3>2, <3>4, OthersDoNotNotice
    <3>5. QED
      BY <3>3, <3>4
  <2>3. QED
    BY <2>1, <2>2
<1>4. ASSUME NEW f \in DOMAIN disk' PROVE disk'[f] \in Contents
  BY DEF Touches, DriverInv, DiskOK
<1>5. DiskOK'
  BY <1>3, <1>4 DEF DiskOK, Named, Path, Contents
<1>6. QED
  BY <1>1, <1>2, <1>5 DEF DriverInv

(* Most steps leave the disk alone.                                        *)
LEMMA QuietStep ==
    ASSUME DriverInv, StaysStuck, NEW p \in Processes, NEW r, Becomes(p, r), Keeps,
           ProcessOK(p)', Links(p)',
           \A f : Owns(p, f) => Owns(p, f)'
    PROVE  DriverInv'
<1>1. Named(NoPath) /\ Touches(NoPath)
  BY NamesAreShort DEF Touches, Keeps
<1>2. \A f \in DOMAIN disk' : f = NoPath \/ Owns(p, f) => Named(f) \/ Owns(p, f)'
  BY <1>1
<1>3. NoPath \in DOMAIN disk' => disk'[NoPath] \in Contents
  BY DEF Keeps, DriverInv, DiskOK
<1>4. QED
  BY <1>1, <1>2, <1>3, StepByStep

-----------------------------------------------------------------------------
(* The steps before and after the tool chain.                              *)

LEMMA EarlyStep ==
    ASSUME DriverInv, StaysStuck, NEW p \in Processes, run[p].pc \in {"arguments", "file", "compiled"},
           NEW r, Becomes(p, r), Keeps,
           DOMAIN r = Fields, DOMAIN r.options = Options,
           r.pc \in {"arguments", "file", "compiled", "exited"},
           r.at \in Nat \ {0}, r.index \in Nat \ {0}, r.errors \in Nat,
           r.files \in Seq(SourceNames), r.text \in Contents,
           Named(r.options.output),
           r.pc = "arguments" => r.index = 1,
           r.pc \in {"file", "compiled"} => r.index \in 1 .. Len(r.files),
           r.pc = "compiled" => Named(r.output)
    PROVE  DriverInv'
<1>1. run'[p] = r
  BY DEF DriverInv, Becomes
<1>2. ProcessOK(p)'
  BY <1>1 DEF ProcessOK, Places, WithFile, WithOutput, Toolchain, Named, Path
<1>3. Links(p)'
  BY <1>1 DEF Links
<1>4. \A f : ~Owns(p, f)
  BY DEF Owns, Toolchain, HasObject
<1>5. QED
  BY <1>2, <1>3, <1>4, QuietStep

LEMMA EarlyExit ==
    ASSUME DriverInv, StaysStuck, NEW p \in Processes, run[p].pc \in {"arguments", "file", "compiled"},
           NEW n, Exits(p, n), Keeps
    PROVE  DriverInv'
<1> DEFINE s == [run[p] EXCEPT !.pc = "exited", !.code = n]
<1>1. ProcessOK(p) /\ Becomes(p, s)
  BY DEF DriverInv, Exits
<1>2. /\ DOMAIN s = Fields /\ s.options = run[p].options /\ s.files = run[p].files
      /\ s.pc = "exited" /\ s.at = run[p].at /\ s.index = run[p].index /\ s.errors = run[p].errors
      /\ s.text = run[p].text
  BY <1>1 DEF ProcessOK, Fields
<1> HIDE DEF s
<1>3. QED
  BY <1>1, <1>2, EarlyStep DEF ProcessOK

LEMMA ArgumentNames ==
    ASSUME DriverInv, NEW p \in Processes
    PROVE  /\ DOMAIN lines[p] = 1 .. Len(lines[p]) /\ Len(lines[p]) \in Nat
           /\ \A k \in DOMAIN lines[p] :
                 /\ lines[p][k].is = "file" => lines[p][k].path \in SourceNames
                 /\ Named(NameOf(lines[p][k]))
<1>1. lines \in CommandLines /\ lines[p] \in Seq(ToSet(lines[p]))
  BY NamesAssumption DEF DriverInv
<1>2. DOMAIN lines[p] = 1 .. Len(lines[p]) /\ Len(lines[p]) \in Nat
  BY <1>1, LenProperties
<1>3. ASSUME NEW k \in DOMAIN lines[p], NEW a, a = lines[p][k]
      PROVE  /\ a.is = "file" => a.path \in SourceNames
             /\ Named(NameOf(a))
  <2>1. a \in ToSet(lines[p])
    BY <1>3 DEF ToSet
  <2>2. a.is = "file" => a.path \in SourceNames
    BY <1>1, <2>1 DEF SourceNames, Arguments
  <2>3. Named(NameOf(a))
    <3>1. CASE a.is = "file"
      BY <2>2, <3>1, SourcesAreNamed DEF NameOf
    <3>2. CASE a.is # "file"
      <4>1. Len(<<a.is>>) < 2
        OBVIOUS
      <4>2. Named(Path(Here, <<a.is>>, ""))
        BY <4>1, ShortIsNamed, Zenon
      <4>3. QED
        BY <3>2, <4>2 DEF NameOf
    <3>3. QED
      BY <3>1, <3>2
  <2>4. QED
    BY <2>2, <2>3
<1>4. QED
  BY <1>2, <1>3

LEMMA ArgumentStep ==
    ASSUME DriverInv, StaysStuck, NEW p \in Processes, argument(p)
    PROVE  DriverInv'
<1> DEFINE r == run[p]
           a == lines[p][r.at]
<1>1. ProcessOK(p) /\ r.pc = "arguments" /\ Keeps /\ r.at \in DOMAIN lines[p]
  <2>1. ProcessOK(p)
    BY DEF DriverInv
  <2>2. r.pc = "arguments" /\ Keeps /\ r.at <= Len(lines[p])
    BY DEF argument, At
  <2>3. r.at \in 1 .. Len(lines[p])
    <3>1. r.at \in Nat \ {0}
      BY <2>1 DEF ProcessOK
    <3>2. Len(lines[p]) \in Nat
      BY ArgumentNames
    <3>3. QED
      BY <2>2, <3>1, <3>2
  <2>4. DOMAIN lines[p] = 1 .. Len(lines[p])
    BY ArgumentNames
  <2>5. QED
    BY <2>1, <2>2, <2>3, <2>4
<1>2. ASSUME NEW n \in {1, 2}, NEW o, DOMAIN o = Options, Named(o.output),
             NEW files \in Seq(SourceNames),
             Becomes(p, [r EXCEPT !.at = @ + n, !.options = o, !.files = files])
      PROVE  DriverInv'
  <2> DEFINE s == [r EXCEPT !.at = @ + n, !.options = o, !.files = files]
  <2>1. /\ DOMAIN s = Fields /\ s.options = o /\ s.files = files
        /\ s.pc = "arguments" /\ s.at = r.at + n /\ s.index = r.index /\ s.errors = r.errors
        /\ s.text = r.text
    BY <1>1 DEF ProcessOK, Fields
  <2>2. s.at \in Nat \ {0} /\ s.index \in Nat \ {0} /\ s.errors \in Nat
    BY <1>1, <2>1 DEF ProcessOK
  <2> HIDE DEF s
  <2>3. QED
    BY <1>1, <1>2, <2>1, <2>2, EarlyStep DEF s, ProcessOK
<1>3. ASSUME NEW o \in {"help", "ir", "assembly"}
      PROVE  LET t == [r.options EXCEPT ![o] = TRUE] IN DOMAIN t = Options /\ Named(t.output)
  BY <1>1 DEF ProcessOK, Options
<1>4. ASSUME NEW value
      PROVE  LET t == [r.options EXCEPT !.target = value] IN DOMAIN t = Options /\ Named(t.output)
  BY <1>1 DEF ProcessOK, Options
<1>5. ASSUME NEW value, Named(value)
      PROVE  LET t == [r.options EXCEPT !.output = value] IN DOMAIN t = Options /\ Named(t.output)
  BY <1>1, <1>5 DEF ProcessOK, Options
<1>6. /\ DOMAIN r.options = Options /\ Named(r.options.output) /\ r.files \in Seq(SourceNames)
      /\ a.is = "file" => Append(r.files, a.path) \in Seq(SourceNames)
      /\ r.at < Len(lines[p]) => Named(NameOf(lines[p][r.at + 1]))
  <2>1. a.is = "file" => a.path \in SourceNames
    BY <1>1, ArgumentNames
  <2>2. r.at < Len(lines[p]) => r.at + 1 \in DOMAIN lines[p]
    BY <1>1, ArgumentNames
  <2>3. QED
    BY <1>1, <2>1, <2>2, ArgumentNames, AppendProperties DEF ProcessOK
<1>7. CASE \E n : Exits(p, n)
  BY <1>1, <1>7, EarlyExit
<1>8. CASE ~\E n : Exits(p, n)
  <2>1. CASE a.is = "-h"
    BY <1>2, <1>3, <1>6, <1>8, <2>1 DEF argument
  <2>2. CASE a.is = "-ir"
    BY <1>2, <1>3, <1>6, <1>8, <2>2 DEF argument
  <2>3. CASE a.is = "-S"
    BY <1>2, <1>3, <1>6, <1>8, <2>3 DEF argument
  <2>4. CASE a.is = "-v"
    BY <1>2, <1>6, <1>8, <2>4 DEF argument
  <2>5. CASE a.is = "file"
    BY <1>2, <1>6, <1>8, <2>5 DEF argument
  <2>6. CASE a.is = "-o"
    BY <1>2, <1>5, <1>6, <1>8, <2>6 DEF argument
  <2>7. CASE a.is = "--target"
    BY <1>2, <1>4, <1>6, <1>8, <2>7 DEF argument
  <2>8. QED
    BY <1>8, <2>1, <2>2, <2>3, <2>4, <2>5, <2>6, <2>7 DEF argument
<1>9. QED
  BY <1>7, <1>8

LEMMA OptionsStep ==
    ASSUME DriverInv, StaysStuck, NEW p \in Processes, check_options(p)
    PROVE  DriverInv'
<1> DEFINE r == run[p]
           s == [r EXCEPT !.pc = "file"]
<1>1. ProcessOK(p) /\ r.pc = "arguments" /\ Keeps
  BY DEF DriverInv, ProcessOK, check_options, At
<1>2. CASE \E n : Exits(p, n)
  BY <1>1, <1>2, EarlyExit
<1>3. CASE ~\E n : Exits(p, n)
  <2>1. r.files # <<>> /\ Becomes(p, s)
    BY <1>3 DEF check_options, Goes
  <2>2. /\ DOMAIN s = Fields /\ s.options = r.options /\ s.files = r.files
        /\ s.pc = "file" /\ s.at = r.at /\ s.index = r.index /\ s.errors = r.errors
        /\ s.text = r.text
    BY <1>1 DEF ProcessOK, Fields
  <2>3. r.index \in 1 .. Len(r.files)
    <3>1. Len(r.files) \in Nat \ {0}
      BY <1>1, <2>1, EmptySeq DEF ProcessOK
    <3>2. QED
      BY <1>1, <3>1 DEF ProcessOK
  <2> HIDE DEF s
  <2>4. QED
    BY <1>1, <2>1, <2>2, <2>3, EarlyStep DEF ProcessOK
<1>4. QED
  BY <1>2, <1>3

LEMMA StoredContents ==
    ASSUME DriverInv, NEW path
    PROVE  Stored(path) \in Contents /\ ErrorsIn(Stored(path)) \in Nat
<1>1. NoFile \in Contents
  BY DEF NoFile, Content, Contents, Made
<1>2. Stored(path) \in Contents
  BY <1>1 DEF Stored, DriverInv, DiskOK
<1>3. \A c \in Contents : c.is = "text" => Errors[c.text] \in Nat
  BY ErrorsAssumption DEF Contents, TheTexts, Made
<1>4. \A c \in Contents : ErrorsIn(c) \in Nat
  BY <1>3 DEF ErrorsIn
<1>5. QED
  BY <1>2, <1>4

LEMMA CompileStep ==
    ASSUME DriverInv, StaysStuck, NEW p \in Processes, compile(p)
    PROVE  DriverInv'
<1> DEFINE r    == run[p]
           text == Stored(r.files[r.index])
           sum  == r.errors + ErrorsIn(text)
           s    == [r EXCEPT !.pc = "compiled", !.text = text, !.errors = sum,
                             !.has_error = sum > errors_before(r), !.output = OutputOf(r, r.index)]
<1>1. ProcessOK(p) /\ r.pc = "file" /\ Keeps /\ Becomes(p, s)
  BY DEF DriverInv, compile, At
<1>2. /\ DOMAIN s = Fields /\ s.options = r.options /\ s.files = r.files /\ s.pc = "compiled"
      /\ s.at = r.at /\ s.index = r.index /\ s.errors = sum /\ s.output = OutputOf(r, r.index)
      /\ s.text = text
  BY <1>1 DEF ProcessOK, Fields
<1>3. text \in Contents /\ sum \in Nat
  <2>1. text \in Contents /\ ErrorsIn(text) \in Nat
    BY StoredContents
  <2>2. QED
    BY <1>1, <2>1 DEF ProcessOK
<1>4. r.index \in 1 .. Len(r.files)
  BY <1>1 DEF ProcessOK, WithFile
<1>5. Named(OutputOf(r, r.index))
  BY <1>1, <1>4, ElementOfSeq, SourcesAreNamed, OutputIsNamed DEF ProcessOK
<1> HIDE DEF s, sum, text
<1>6. QED
  BY <1>1, <1>2, <1>3, <1>4, <1>5, EarlyStep DEF ProcessOK

(* The next file, or the end of the run.                                   *)
LEMMA AnsweredEntry ==
    ASSUME NEW p \in Processes, DriverInv, NEW what, Answered(p, what), run[p].pc \in WithOutput
    PROVE  LET r == run[p]
               s == run'[p]
           IN  /\ Becomes(p, s)
               /\ DOMAIN s = Fields /\ s.options = r.options /\ s.files = r.files
               /\ s.pc \in {"file", "exited"} /\ s.at = r.at /\ s.index = r.index + 1
               /\ s.errors = r.errors /\ s.text = r.text
               /\ s.pc = "file" => s.index <= Len(s.files)
<1> DEFINE r == run[p]
           s == [r EXCEPT !.answers = Append(@, [what |-> what, text |-> r.text]), !.index = @ + 1,
                          !.linked = FALSE, !.temp = NoPath]
           t == [s EXCEPT !.pc = IF s.index <= Len(s.files) THEN "file" ELSE "exited"]
<1>1. ProcessOK(p) /\ Becomes(p, t)
  BY DEF DriverInv, Answered
<1>2. /\ DOMAIN s = Fields /\ s.options = r.options /\ s.files = r.files
      /\ s.at = r.at /\ s.index = r.index + 1 /\ s.errors = r.errors
      /\ s.text = r.text
  BY <1>1 DEF ProcessOK, Fields
<1> HIDE DEF s
<1>3. /\ DOMAIN t = Fields /\ t.options = r.options /\ t.files = r.files
      /\ t.pc = (IF s.index <= Len(s.files) THEN "file" ELSE "exited")
      /\ t.at = r.at /\ t.index = r.index + 1 /\ t.errors = r.errors
      /\ t.text = r.text
  BY <1>2 DEF Fields
<1> HIDE DEF t
<1>4. run'[p] = t
  BY <1>1 DEF DriverInv, Becomes
<1>5. QED
  BY <1>1, <1>2, <1>3, <1>4

LEMMA QuietAnswer ==
    ASSUME DriverInv, StaysStuck, NEW p \in Processes, NEW what, Answered(p, what), run[p].pc = "compiled", Keeps
    PROVE  DriverInv'
<1>1. ProcessOK(p)
  BY DEF DriverInv
<1>2. run[p].index \in 1 .. Len(run[p].files) /\ Len(run[p].files) \in Nat
  BY <1>1, LenProperties DEF ProcessOK, WithFile
<1> DEFINE r == run[p]
           s == run'[p]
<1>3. /\ Becomes(p, s)
      /\ DOMAIN s = Fields /\ s.options = r.options /\ s.files = r.files
      /\ s.pc \in {"file", "exited"} /\ s.at = r.at /\ s.index = r.index + 1
      /\ s.errors = r.errors /\ s.text = r.text
      /\ s.pc = "file" => s.index <= Len(s.files)
  BY AnsweredEntry DEF WithOutput
<1> HIDE DEF s
<1>4. s.index \in Nat \ {0} /\ (s.pc = "file" => s.index \in 1 .. Len(s.files))
  BY <1>1, <1>2, <1>3 DEF ProcessOK
<1>5. QED
  BY <1>1, <1>3, <1>4, EarlyStep DEF ProcessOK

-----------------------------------------------------------------------------
(* The steps of the tool chain.                                            *)
LEMMA TemporaryNames ==
    ASSUME DriverInv, NEW p \in Processes, run[p].pc \in Toolchain
    PROVE  LET temp   == run[p].temp
               object == object_path_of(temp)
           IN  /\ temp.stem = <<"shaolang", p, run[p].index>>
               /\ object.stem = <<"shaolang", p, run[p].index>>
               /\ object # temp
               /\ Named(run[p].output) /\ run[p].output \notin {temp, object}
<1> DEFINE temp   == run[p].temp
           object == object_path_of(temp)
<1>1. AssemblyName(p, temp) /\ Named(run[p].output)
  BY DEF DriverInv, ProcessOK, WithOutput
<1>2. temp.stem = <<"shaolang", p, run[p].index>>
  BY <1>1, PathFields DEF AssemblyName
<1>3. object.stem = <<"shaolang", p, run[p].index>> /\ object # temp
  <2>1. object = Path(temp.dir, <<"shaolang", p, run[p].index>>, "obj") /\ object # temp
    BY <1>1, ObjectPath
  <2>2. QED
    BY <2>1, PathFields
<1>4. QED
  BY <1>1, <1>2, <1>3, NamesAreShort

Moved(r, s, place) ==
    /\ DOMAIN s = Fields /\ s.pc = place
    /\ \A field \in Fields \ {"pc", "linked"} : s[field] = r[field]

LEMMA ToolStep ==
    ASSUME DriverInv, StaysStuck, NEW p \in Processes, run[p].pc \in Toolchain,
           NEW s, Becomes(p, s), NEW place \in Toolchain \ {"written"}, Moved(run[p], s, place),
           NEW path \in {run[p].output, object_path_of(run[p].temp)},
           Touches(path), path \in DOMAIN disk' => disk'[path] \in Contents,
           place = "assembler" => disk' = disk /\ Stored(run[p].temp) = Content("assembly", run[p].text.text),
           place = "linker" => /\ object_path_of(run[p].temp) \in DOMAIN disk'
                               /\ disk'[object_path_of(run[p].temp)] = Content("object", run[p].text.text),
           place \notin HasObject =>
               \/ object_path_of(run[p].temp) \notin DOMAIN disk' \ stuck'
               \/ path = run[p].output /\ run[p].pc \notin HasObject
    PROVE  DriverInv'
<1> DEFINE r      == run[p]
           temp   == r.temp
           object == object_path_of(temp)
<1>1. ProcessOK(p) /\ Links(p) /\ run'[p] = s /\ host' = host
  BY DEF DriverInv, Becomes
<1>2. /\ DOMAIN s = Fields /\ s.options = r.options /\ s.files = r.files /\ s.pc = place
      /\ s.at = r.at /\ s.index = r.index /\ s.errors = r.errors /\ s.text = r.text
      /\ s.output = r.output /\ s.temp = temp
  BY DEF Moved, Fields
<1>3. ProcessOK(p)'
  BY <1>1, <1>2 DEF ProcessOK, AssemblyName, WithFile, WithOutput, Toolchain, Places, Named, Path
<1>4. Links(p)'
  BY <1>1, <1>2 DEF Links, Toolchain, Stored, object_path_of
<1>5. path.stem = <<"shaolang", p, r.index>> \/ Named(path)
  BY TemporaryNames
<1>6. ASSUME NEW f \in DOMAIN disk', f = path \/ Owns(p, f)
      PROVE  Named(f) \/ f \in stuck' \/ Owns(p, f)'
  <2>1. Named(f) \/ Owns(p, f) \/ f = object
    BY <1>6, TemporaryNames
  <2>2. CASE Owns(p, f) \/ f = object
    <3>1. f.stem = <<"shaolang", p, r.index>>
      BY <2>2, TemporaryNames DEF Owns
    <3>2. f = temp \/ f = object
      BY <2>2 DEF Owns, Toolchain
    <3>3. f = object /\ place \notin HasObject => f \in stuck'
      BY <1>6, TemporaryNames DEF Owns, Toolchain, HasObject
    <3>4. QED
      BY <1>1, <1>2, <3>1, <3>2, <3>3 DEF Owns, object_path_of
  <2>3. QED
    BY <2>1, <2>2
<1>7. QED
  BY <1>1, <1>3, <1>4, <1>5, <1>6, StepByStep

LEMMA ContentMade ==
    ASSUME DriverInv, NEW c \in Contents, NEW is \in Made
    PROVE  Content(is, c.text) \in Contents /\ Content(is, "") \in Contents
  BY DEF Contents, Content

LEMMA DiskTouched ==
    ASSUME NEW path, NEW content
    PROVE  /\ disk' = With(path, content) =>
                  Touches(path) /\ path \in DOMAIN disk' /\ disk'[path] = content
           /\ disk' = Without(path) => Touches(path) /\ path \notin DOMAIN disk'
           /\ disk' = disk => Touches(path)
<1>1. ASSUME disk' = With(path, content)
      PROVE  Touches(path) /\ path \in DOMAIN disk' /\ disk'[path] = content
  BY <1>1 DEF With, Touches
<1>2. ASSUME disk' = Without(path)
      PROVE  Touches(path) /\ path \notin DOMAIN disk'
  BY <1>2 DEF Without, Touches
<1>3. ASSUME disk' = disk
      PROVE  Touches(path)
  BY <1>3 DEF Touches
<1>4. QED
  BY <1>1, <1>2, <1>3

(* A file is removed, or it stays and is stuck.                            *)
LEMMA Removed ==
    ASSUME DriverInv, NEW path, remove(path)
    PROVE  /\ StaysStuck /\ Touches(path) /\ path \notin DOMAIN disk' \ stuck'
           /\ path \in DOMAIN disk' => disk'[path] \in Contents
<1>1. CASE disk' = Without(path) /\ UNCHANGED stuck
  BY <1>1, DiskTouched DEF StaysStuck
<1>2. CASE Keeps /\ stuck' = stuck \cup {path}
  <2>1. Touches(path)
    BY <1>2, DiskTouched DEF Keeps
  <2>2. QED
    BY <1>2, <2>1 DEF StaysStuck, Keeps, DriverInv, DiskOK
<1>3. QED
  BY <1>1, <1>2 DEF remove

LEMMA ToolSteps ==
    ASSUME DriverInv, StaysStuck, NEW p \in Processes,
           cc(p) \/ codesign(p) \/ tool_available(p) \/ ml(p) \/ link(p) \/ remove_object(p)
    PROVE  DriverInv'
<1> DEFINE r      == run[p]
           output == r.output
           temp   == r.temp
           object == object_path_of(temp)
<1>1. ProcessOK(p) /\ Links(p) /\ r.pc \in Toolchain
  BY DEF DriverInv, cc, codesign, tool_available, ml, link, remove_object, At, Toolchain
<1>2. ASSUME NEW place, Goes(p, place) \/ \E linked : Tried(p, place, linked)
      PROVE  \E s : Becomes(p, s) /\ Moved(r, s, place)
  <2>1. CASE Goes(p, place)
    <3> DEFINE s == [r EXCEPT !.pc = place]
    <3>1. Moved(r, s, place)
      BY <1>1 DEF ProcessOK, Moved, Fields
    <3>2. QED
      BY <2>1, <3>1 DEF Goes
  <2>2. CASE \E linked : Tried(p, place, linked)
    <3>1. PICK linked : Tried(p, place, linked)
      BY <2>2
    <3> DEFINE s == [r EXCEPT !.pc = place, !.linked = linked]
    <3>2. Moved(r, s, place)
      BY <1>1 DEF ProcessOK, Moved, Fields
    <3>3. QED
      BY <3>1, <3>2 DEF Tried
  <2>3. QED
    BY <1>2, <2>1, <2>2
<1>3. object # output /\ object # temp /\ temp # output
  BY <1>1, TemporaryNames
<1>4. r.pc \notin HasObject => object \notin DOMAIN disk \ stuck
  <2>1. CASE r.pc \notin HasObject
    <3>1. object.stem = <<"shaolang", p, r.index>>
      BY <1>1, TemporaryNames
    <3>2. ~Named(object)
      BY <3>1, NamesAreShort
    <3>3. ASSUME NEW q \in Processes, Owns(q, object) PROVE q = p
      BY <3>1, <3>3 DEF Owns
    <3>4. ~Owns(p, object)
      BY <1>1, <1>3, <2>1 DEF Owns, Toolchain
    <3>5. QED
      BY <3>2, <3>3, <3>4 DEF DriverInv, DiskOK
  <2>2. QED
    BY <2>1
<1>5. \A f : \A is \in Made : Content(is, Stored(f).text) \in Contents /\ Content(is, "") \in Contents
  <2> SUFFICES ASSUME NEW f, NEW is \in Made
               PROVE  Content(is, Stored(f).text) \in Contents /\ Content(is, "") \in Contents
    OBVIOUS
  <2>1. Stored(f) \in Contents
    BY StoredContents
  <2>2. QED
    BY <2>1, ContentMade
<1>6. ASSUME cc(p) PROVE DriverInv'
  <2>1. r.pc = "written" /\ "tried" \in Toolchain /\ "unsigned" \in Toolchain
    BY <1>6 DEF cc, At, Toolchain
  <2>2. PICK place \in {"tried", "unsigned"} : \E linked : Tried(p, place, linked)
    BY <1>6 DEF cc
  <2>3. PICK s : Becomes(p, s) /\ Moved(r, s, place)
    BY <1>2, <2>2
  <2>4. Touches(output) /\ (output \in DOMAIN disk' => disk'[output] \in Contents)
    <3>1. CASE disk' = With(output, Content("program", Stored(temp).text))
      BY <1>5, <3>1, DiskTouched DEF Made
    <3>2. CASE disk' \in {disk, Without(output)}
      BY <3>2, DiskTouched DEF DriverInv, DiskOK
    <3>3. QED
      BY <1>6, <3>1, <3>2 DEF cc
  <2>5. object \notin DOMAIN disk' \ stuck'
    BY <1>3, <1>4, <2>1, <2>4 DEF Touches, HasObject, StaysStuck
  <2>6. QED
    BY <1>1, <2>1, <2>2, <2>3, <2>4, <2>5, ToolStep
<1>7. ASSUME codesign(p) PROVE DriverInv'
  <2>1. r.pc = "unsigned" /\ "tried" \in Toolchain
    BY <1>7 DEF codesign, At, Toolchain
  <2>2. PICK linked : Tried(p, "tried", linked)
    BY <1>7 DEF codesign
  <2>3. PICK s : Becomes(p, s) /\ Moved(r, s, "tried")
    BY <1>2, <2>2
  <2>4. Touches(output) /\ (output \in DOMAIN disk' => disk'[output] \in Contents)
    <3>1. CASE disk' = With(output, Content("signed", Stored(output).text))
      BY <1>5, <3>1, DiskTouched DEF Made
    <3>2. CASE Keeps
      BY <3>2, DiskTouched DEF Keeps, DriverInv, DiskOK
    <3>3. QED
      BY <1>7, <3>1, <3>2 DEF codesign
  <2>5. object \notin DOMAIN disk' \ stuck'
    BY <1>3, <1>4, <2>1, <2>4 DEF Touches, HasObject, StaysStuck
  <2>6. QED
    BY <1>1, <2>1, <2>3, <2>4, <2>5, ToolStep
<1>8. ASSUME tool_available(p) PROVE DriverInv'
  <2>1. r.pc = "written" /\ Keeps
    BY <1>8 DEF tool_available, At
  <2>2. PICK place \in {"assembler", "tried"} : Goes(p, place) \/ \E linked : Tried(p, place, linked)
    BY <1>8 DEF tool_available
  <2>3. PICK s : Becomes(p, s) /\ Moved(r, s, place)
    BY <1>2, <2>2
  <2>4. Touches(output) /\ (output \in DOMAIN disk' => disk'[output] \in Contents)
    BY <2>1, DiskTouched DEF Keeps, DriverInv, DiskOK
  <2>5. object \notin DOMAIN disk' \ stuck'
    BY <1>4, <2>1 DEF Keeps, HasObject, StaysStuck
  <2>6. Stored(temp) = Content("assembly", r.text.text)
    BY <1>1, <2>1 DEF Links
  <2>7. place \in Toolchain \ {"written"} /\ place # "linker" /\ disk' = disk
    BY <2>1 DEF Toolchain, Keeps
  <2>8. QED
    BY <1>1, <2>3, <2>4, <2>5, <2>6, <2>7, ToolStep
<1>9. ASSUME ml(p) PROVE DriverInv'
  <2>1. r.pc = "assembler"
    BY <1>9 DEF ml, At
  <2>2. CASE disk' = With(object, Content("object", Stored(temp).text)) /\ Goes(p, "linker")
    <3>1. PICK s : Becomes(p, s) /\ Moved(r, s, "linker")
      BY <1>2, <2>2
    <3>2. Content("object", Stored(temp).text) = Content("object", r.text.text)
      BY <1>1, <2>1 DEF Links, Content
    <3>3. /\ Touches(object) /\ object \in DOMAIN disk'
          /\ disk'[object] = Content("object", r.text.text) /\ disk'[object] \in Contents
      BY <1>5, <2>2, <3>2, DiskTouched DEF Made
    <3>4. "linker" \in HasObject /\ "linker" \in Toolchain \ {"written"}
      BY DEF HasObject, Toolchain
    <3>5. QED
      BY <1>1, <3>1, <3>3, <3>4, ToolStep
  <2>3. CASE disk' \in {disk, With(object, Content("junk", ""))} /\ Tried(p, "object", FALSE)
    <3>1. PICK s : Becomes(p, s) /\ Moved(r, s, "object")
      BY <1>2, <2>3
    <3>2. Touches(object) /\ (object \in DOMAIN disk' => disk'[object] \in Contents)
      BY <1>5, <2>3, DiskTouched DEF Made, DriverInv, DiskOK
    <3>3. "object" \in HasObject /\ "object" \in Toolchain \ {"written"}
      BY DEF HasObject, Toolchain
    <3>4. QED
      BY <1>1, <3>1, <3>2, <3>3, ToolStep
  <2>4. QED
    BY <1>9, <2>2, <2>3 DEF ml
<1>10. ASSUME link(p) PROVE DriverInv'
  <2>1. r.pc = "linker" /\ "object" \in HasObject /\ "object" \in Toolchain
    BY <1>10 DEF link, At, HasObject, Toolchain
  <2>2. PICK linked : Tried(p, "object", linked)
    BY <1>10 DEF link
  <2>3. PICK s : Becomes(p, s) /\ Moved(r, s, "object")
    BY <1>2, <2>2
  <2>4. Touches(output) /\ (output \in DOMAIN disk' => disk'[output] \in Contents)
    <3>1. CASE disk' = With(output, Content("program", Stored(object).text))
      BY <1>5, <3>1, DiskTouched DEF Made
    <3>2. CASE disk' \in {disk, Without(output)}
      BY <3>2, DiskTouched DEF DriverInv, DiskOK
    <3>3. QED
      BY <1>10, <3>1, <3>2 DEF link
  <2>5. QED
    BY <1>1, <2>1, <2>3, <2>4, ToolStep
<1>11. ASSUME remove_object(p) PROVE DriverInv'
  <2>1. r.pc = "object" /\ "tried" \in Toolchain
    BY <1>11 DEF remove_object, At, Toolchain
  <2>2. PICK s : Becomes(p, s) /\ Moved(r, s, "tried")
    BY <1>2, <1>11 DEF remove_object
  <2>3. Touches(object) /\ object \notin DOMAIN disk' \ stuck'
        /\ (object \in DOMAIN disk' => disk'[object] \in Contents)
    BY <1>11, Removed DEF remove_object
  <2>4. QED
    BY <1>1, <2>1, <2>2, <2>3, ToolStep
<1>12. QED
  BY <1>6, <1>7, <1>8, <1>9, <1>10, <1>11

(* The first and the last step with the tool chain.                        *)
LEMMA WriteStep ==
    ASSUME DriverInv, StaysStuck, NEW p \in Processes, write_temp(p)
    PROVE  DriverInv'
<1> DEFINE r == run[p]
           Temp(usable) == temp_assembly_path(p, r.index, usable)
<1>1. ProcessOK(p) /\ r.pc = "compiled"
  BY DEF DriverInv, write_temp, At
<1>2. CASE \E n : Exits(p, n) /\ Keeps
  BY <1>1, <1>2, EarlyExit
<1>3. ASSUME NEW temp, \E dir : temp = Path(dir, <<"shaolang", p, r.index>>,
                                           IF host.platform = "windows" THEN "asm" ELSE "s"),
             Becomes(p, [r EXCEPT !.pc = "written", !.temp = temp]),
             disk' = With(temp, Content("assembly", r.text.text))
      PROVE  DriverInv'
  <2> DEFINE s == [r EXCEPT !.pc = "written", !.temp = temp]
  <2>1. /\ DOMAIN s = Fields /\ s.options = r.options /\ s.files = r.files /\ s.pc = "written"
        /\ s.at = r.at /\ s.index = r.index /\ s.errors = r.errors /\ s.text = r.text
        /\ s.output = r.output /\ s.temp = temp
    BY <1>1 DEF ProcessOK, Fields
  <2>2. run'[p] = s /\ host' = host
    BY <1>3 DEF DriverInv, Becomes
  <2> HIDE DEF s
  <2>3. temp.stem = <<"shaolang", p, r.index>>
        /\ temp = Path(temp.dir, <<"shaolang", p, r.index>>,
                       IF host.platform = "windows" THEN "asm" ELSE "s")
    BY <1>3, PathFields
  <2>4. ProcessOK(p)'
    BY <1>1, <2>1, <2>2, <2>3
       DEF ProcessOK, AssemblyName, WithFile, WithOutput, Toolchain, Places, Named, Path
  <2>5. /\ Touches(temp) /\ temp \in DOMAIN disk'
        /\ disk'[temp] = Content("assembly", r.text.text)
    BY <1>3, DiskTouched
  <2>6. disk'[temp] \in Contents
    BY <1>1, <2>5, ContentMade DEF ProcessOK, Made
  <2>7. Links(p)'
    BY <2>1, <2>2, <2>5 DEF Links, Stored
  <2>8. \A f : ~Owns(p, f)
    BY <1>1 DEF Owns, Toolchain, HasObject
  <2>9. Owns(p, temp)'
    BY <2>1, <2>2, <2>3 DEF Owns, Toolchain
  <2>10. QED
    BY <1>3, <2>3, <2>4, <2>5, <2>6, <2>7, <2>8, <2>9, StepByStep
<1>4. QED
  BY <1>2, <1>3 DEF write_temp, temp_assembly_path

LEMMA RemoveStep ==
    ASSUME DriverInv, StaysStuck, NEW p \in Processes, remove_temp(p)
    PROVE  DriverInv'
<1> DEFINE r == run[p]
           s == run'[p]
<1>1. ProcessOK(p) /\ r.pc = "tried" /\ r.pc \in Toolchain /\ remove(r.temp)
  BY DEF DriverInv, remove_temp, At, Toolchain
<1>2. /\ Becomes(p, s)
      /\ DOMAIN s = Fields /\ s.options = r.options /\ s.files = r.files
      /\ s.pc \in {"file", "exited"} /\ s.at = r.at /\ s.index = r.index + 1
      /\ s.errors = r.errors /\ s.text = r.text
      /\ s.pc = "file" => s.index <= Len(s.files)
  BY <1>1, AnsweredEntry DEF remove_temp, WithOutput
<1>3. r.index \in 1 .. Len(r.files) /\ Len(r.files) \in Nat
  BY <1>1, LenProperties DEF ProcessOK, WithFile
<1>4. ProcessOK(p)'
  BY <1>1, <1>2, <1>3 DEF ProcessOK, WithFile, WithOutput, Toolchain, Places, Named, Path
<1>5. Links(p)'
  BY <1>2 DEF Links
<1>6. /\ Touches(r.temp) /\ r.temp \notin DOMAIN disk' \ stuck'
      /\ r.temp \in DOMAIN disk' => disk'[r.temp] \in Contents
      /\ r.temp.stem = <<"shaolang", p, r.index>>
  BY <1>1, Removed, TemporaryNames
<1>7. \A f : Owns(p, f) => f = r.temp
  BY <1>1 DEF Owns, HasObject
<1>8. QED
  BY <1>2, <1>4, <1>5, <1>6, <1>7, StepByStep

LEMMA AssemblyStep ==
    ASSUME DriverInv, StaysStuck, NEW p \in Processes, emit_assembly(p)
    PROVE  DriverInv'
<1> DEFINE r      == run[p]
           s      == run'[p]
           output == r.options.output
<1>1. ProcessOK(p) /\ r.pc = "compiled"
  BY DEF DriverInv, emit_assembly, At
<1>2. CASE Answered(p, "assembly") /\ Keeps
  BY <1>1, <1>2, QuietAnswer
<1>3. CASE Exits(p, 2) /\ Keeps
  BY <1>1, <1>3, EarlyExit
<1>4. CASE Answered(p, "assembly") /\ disk' = With(output, Content("assembly", r.text.text))
  <2>1. /\ Becomes(p, s)
        /\ DOMAIN s = Fields /\ s.options = r.options /\ s.files = r.files
        /\ s.pc \in {"file", "exited"} /\ s.at = r.at /\ s.index = r.index + 1
        /\ s.errors = r.errors /\ s.text = r.text
        /\ s.pc = "file" => s.index <= Len(s.files)
    BY <1>1, <1>4, AnsweredEntry DEF WithOutput
  <2>2. r.index \in 1 .. Len(r.files) /\ Len(r.files) \in Nat
    BY <1>1, LenProperties DEF ProcessOK, WithFile
  <2>3. ProcessOK(p)'
    BY <1>1, <2>1, <2>2, SMTT(30) DEF ProcessOK, WithFile, WithOutput, Toolchain, Places, Named, Path
  <2>4. Links(p)'
    BY <2>1 DEF Links
  <2>5. Touches(output) /\ output \in DOMAIN disk' /\ disk'[output] = Content("assembly", r.text.text)
    BY <1>4, DiskTouched
  <2>6. disk'[output] \in Contents
    BY <1>1, <2>5, ContentMade DEF ProcessOK, Made
  <2>7. Named(output) /\ \A f : ~Owns(p, f)
    BY <1>1 DEF ProcessOK, Owns, Toolchain, HasObject
  <2>8. QED
    BY <2>1, <2>3, <2>4, <2>5, <2>6, <2>7, StepByStep
<1>5. QED
  BY <1>2, <1>3, <1>4 DEF emit_assembly

LEMMA KilledStep ==
    ASSUME DriverInv, StaysStuck, NEW p \in Processes, killed(p)
    PROVE  DriverInv'
<1> DEFINE r == run[p]
           s == [r EXCEPT !.pc = "killed"]
<1>1. ProcessOK(p) /\ Keeps /\ Becomes(p, s)
  BY DEF DriverInv, killed, Goes
<1>2. /\ DOMAIN s = Fields /\ s.options = r.options /\ s.files = r.files /\ s.pc = "killed"
      /\ s.at = r.at /\ s.index = r.index /\ s.errors = r.errors /\ s.text = r.text
  BY <1>1 DEF ProcessOK, Fields
<1>3. run'[p] = s
  BY <1>1 DEF DriverInv, Becomes
<1> HIDE DEF s
<1>4. ProcessOK(p)'
  BY <1>1, <1>2, <1>3 DEF ProcessOK, WithFile, WithOutput, Toolchain, Places, Named, Path
<1>5. Links(p)'
  BY <1>2, <1>3 DEF Links
<1>6. \A f : Owns(p, f) => Owns(p, f)'
  BY <1>2, <1>3 DEF Owns
<1>7. QED
  BY <1>1, <1>4, <1>5, <1>6, QuietStep

-----------------------------------------------------------------------------
LEMMA DriverInvInit == Init => DriverInv
<1> SUFFICES ASSUME Init PROVE DriverInv
  OBVIOUS
<1>1. ASSUME NEW p \in Processes PROVE ProcessOK(p) /\ Links(p)
  <2>1. run[p] = Started
    BY DEF Init
  <2>2. /\ DOMAIN Started = Fields /\ DOMAIN Started.options = Options /\ Started.pc = "arguments"
        /\ Started.at = 1 /\ Started.index = 1 /\ Started.errors = 0 /\ Started.files = <<>>
        /\ Started.text = NoFile /\ Started.options.output = NoPath
    BY DEF Started, Defaults, Fields, Options
  <2>3. NoFile \in Contents /\ Named(NoPath) /\ <<>> \in Seq(SourceNames)
    BY NamesAreShort DEF NoFile, Content, Contents, Made
  <2>4. QED
    BY <2>1, <2>2, <2>3 DEF ProcessOK, Links, Places, WithFile, WithOutput, Toolchain
<1>2. DiskOK
  <2>1. ASSUME NEW f \in DOMAIN Texts PROVE disk[f] \in Contents /\ Named(f)
    BY NamesAssumption DEF Init, Content, Contents, TheTexts
  <2>2. QED
    BY <2>1 DEF Init, DiskOK
<1>3. QED
  BY <1>1, <1>2 DEF DriverInv, Init

LEMMA NothingComesLoose == DriverInv /\ [Next]_vars => StaysStuck
<1> SUFFICES ASSUME DriverInv, [Next]_vars PROVE StaysStuck
  OBVIOUS
<1>1. ASSUME NEW p \in Processes, main(p) \/ killed(p) PROVE StaysStuck
  <2>1. CASE remove_object(p) \/ remove_temp(p)
    BY <2>1, Removed DEF remove_object, remove_temp
  <2>2. CASE UNCHANGED stuck
    BY <2>2 DEF StaysStuck
  <2>3. QED
    BY <1>1, <2>1, <2>2
       DEF main, argument, check_options, compile, refuse, show_code, emit_assembly,
           refuse_target, write_temp, cc, codesign, tool_available, ml, link, killed
<1>2. CASE UNCHANGED vars
  BY <1>2 DEF vars, StaysStuck
<1>3. QED
  BY <1>1, <1>2 DEF Next

LEMMA DriverInvNext == DriverInv /\ [Next]_vars => DriverInv'
<1> SUFFICES ASSUME DriverInv, [Next]_vars PROVE DriverInv'
  OBVIOUS
<1>1. StaysStuck
  BY NothingComesLoose
<1>2. ASSUME NEW p \in Processes, main(p) PROVE DriverInv'
  <2>1. CASE argument(p)
    BY <1>1, <2>1, ArgumentStep
  <2>2. CASE check_options(p)
    BY <1>1, <2>2, OptionsStep
  <2>3. CASE compile(p)
    BY <1>1, <2>3, CompileStep
  <2>4. CASE refuse(p)
    BY <1>1, <2>4, QuietAnswer DEF refuse, At
  <2>5. CASE show_code(p)
    BY <1>1, <2>5, QuietAnswer DEF show_code, At
  <2>6. CASE emit_assembly(p)
    BY <1>1, <2>6, AssemblyStep
  <2>7. CASE refuse_target(p)
    BY <1>1, <2>7, QuietAnswer DEF refuse_target, At
  <2>8. CASE write_temp(p)
    BY <1>1, <2>8, WriteStep
  <2>9. CASE cc(p) \/ codesign(p) \/ tool_available(p) \/ ml(p) \/ link(p) \/ remove_object(p)
    BY <1>1, <2>9, ToolSteps
  <2>10. CASE remove_temp(p)
    BY <1>1, <2>10, RemoveStep
  <2>11. QED
    BY <1>2, <2>1, <2>2, <2>3, <2>4, <2>5, <2>6, <2>7, <2>8, <2>9, <2>10 DEF main
<1>3. CASE UNCHANGED vars
  BY <1>3 DEF vars, DriverInv, ProcessOK, Links, AssemblyName, DiskOK, Owns, Stored, Named, Path,
              object_path_of
<1>4. QED
  BY <1>1, <1>2, <1>3, KilledStep DEF Next

LEMMA DriverInvHolds == Spec => []DriverInv
  BY DriverInvInit, DriverInvNext, PTL DEF Spec

(* The assembler and the linker work on what this process wrote for this   *)
(* file (temp_assembly_path, link_coff), whoever else is running.          *)
THEOREM EveryoneLinksItsOwn == Spec => []LinksItsOwn
<1>1. DriverInv => LinksItsOwn
  BY DEF DriverInv, Links, LinksItsOwn
<1>2. QED
  BY <1>1, DriverInvHolds, PTL

(* A run that ends by itself has removed its temporary files, or could     *)
(* not.  The one of ToLookAt is no exception.                              *)
THEOREM NoTemporaryFiles == Spec => []NothingLeftBehind
<1>1. DriverInv => NothingLeftBehind
  <2> SUFFICES ASSUME DriverInv, NEW p \in Processes, At(p, "exited"),
                      NEW path \in DOMAIN disk \ stuck, Len(path.stem) = 3, path.stem[2] = p
               PROVE  FALSE
    BY DEF NothingLeftBehind
  <2>1. ~Named(path)
    BY DEF Named
  <2>2. PICK q \in Processes : Owns(q, path)
    BY <2>1 DEF DriverInv, DiskOK
  <2>3. q = p
    BY <2>2 DEF Owns
  <2>4. QED
    BY <2>2, <2>3 DEF At, Owns, Toolchain, HasObject
<1>2. QED
  BY <1>1, DriverInvHolds, PTL

-----------------------------------------------------------------------------
(* What becomes of each file.  A process that has read its command line    *)
(* has its files and their outputs; a rival of a job is another one with   *)
(* the same output.                                                        *)
Settled(q) == run[q].pc # "arguments"

Rival(p, k) ==
    \E q \in Processes : \E j \in DOMAIN run[q].files :
        /\ Settled(q) /\ (q # p \/ j # k)
        /\ OutputOf(run[q], j) = OutputOf(run[p], k)

(* The job's output holds this, unless a rival may have come in between.   *)
Claim(p, k, content) == Stored(OutputOf(run[p], k)) = content \/ Rival(p, k)

(* The jobs that may have written their output.                            *)
Wrote(q, j) ==
    /\ Settled(q) /\ j \in DOMAIN run[q].files
    /\ \/ j < run[q].index /\ run[q].answers[j].what # "refused"
       \/ j = run[q].index /\ run[q].pc \in Toolchain \cup {"killed"}

Original(path) == IF path \in DOMAIN Texts THEN Content("text", Texts[path]) ELSE NoFile

Faulty(r, text) == (r.options.assembly \/ generateExecutable(r)) /\ ErrorsIn(text) > 0

Whats == {"refused", "code", "assembly", "foreign", "linked", "failed"}

(* What a process has told the user, and what it knows of the file at hand.*)
AnswersOK(r) ==
    /\ r.answers \in Seq([what : Whats, text : Contents])
    /\ Len(r.answers) = r.index - 1 /\ Len(r.answers) <= Len(r.files)
    /\ \A k \in DOMAIN r.answers : r.answers[k].what = "refused" <=> Faulty(r, r.answers[k].text)
    /\ r.pc = "compiled" => (r.has_error <=> ErrorsIn(r.text) > 0)
    /\ r.pc \in WithOutput => r.output = OutputOf(r, r.index)
    /\ r.pc \in Toolchain => generateExecutable(r) /\ ~Faulty(r, r.text)
    /\ r.pc \in {"assembler", "linker", "object"} => host.platform = "windows"
    /\ r.pc = "unsigned" => host.platform = "macos"
    /\ r.linked \in BOOLEAN
    /\ r.linked => r.pc \in {"unsigned", "object", "tried", "killed"}

(* A program that has been reported, or is about to be.                    *)
ProgramsOK(p) ==
    LET r == run[p] IN
    /\ \A k \in DOMAIN r.answers :
          r.answers[k].what = "linked" => Claim(p, k, Finished(r.answers[k].text.text))
    /\ r.pc = "unsigned" => Claim(p, r.index, Content("program", r.text.text))
    /\ r.pc \in {"object", "tried"} /\ r.linked => Claim(p, r.index, Finished(r.text.text))

FilesInv ==
    /\ \A p \in Processes : AnswersOK(run[p]) /\ ProgramsOK(p)
    /\ \A path : Named(path) =>
          \/ Stored(path) = Original(path)
          \/ \E q \in Processes : \E j \in DOMAIN run[q].files :
                Wrote(q, j) /\ OutputOf(run[q], j) = path

-----------------------------------------------------------------------------
(* Once settled, a process keeps its files and their outputs.              *)
Stays(p, s) ==
    Settled(p) => s.options = run[p].options /\ s.files = run[p].files /\ s.pc # "arguments"

LEMMA SettledStays ==
    ASSUME DriverInv, NEW p \in Processes, NEW s, Becomes(p, s), Stays(p, s),
           NEW q \in Processes, Settled(q)
    PROVE  /\ Settled(q)' /\ run'[q].files = run[q].files /\ run'[q].options = run[q].options
           /\ \A k : OutputOf(run[q], k)' = OutputOf(run[q], k)
<1>1. run'[q] = (IF q = p THEN s ELSE run[q]) /\ host' = host
  BY DEF DriverInv, Becomes
<1>2. Settled(q)' /\ run'[q].files = run[q].files /\ run'[q].options = run[q].options
  BY <1>1 DEF Stays, Settled
<1>3. ASSUME NEW k PROVE OutputOf(run[q], k)' = OutputOf(run[q], k)
  BY <1>1, <1>2 DEF OutputOf, generateExecutable, default_output_path, with_exe_suffix, Path
<1>4. QED
  BY <1>2, <1>3

LEMMA RivalStays ==
    ASSUME DriverInv, NEW p \in Processes, NEW s, Becomes(p, s), Stays(p, s),
           NEW q \in Processes, Settled(q), NEW k, Rival(q, k)
    PROVE  Rival(q, k)'
<1> DEFINE Rivals(o, j) ==
               Settled(o) /\ (o # q \/ j # k) /\ OutputOf(run[o], j) = OutputOf(run[q], k)
<1>0. PICK o \in Processes : \E j \in DOMAIN run[o].files : Rivals(o, j)
  BY DEF Rival
<1>1. PICK j \in DOMAIN run[o].files : Rivals(o, j)
  BY <1>0
<1>2. Settled(o)' /\ j \in DOMAIN run'[o].files /\ OutputOf(run[o], j)' = OutputOf(run[o], j)
  BY <1>1, SettledStays
<1>3. OutputOf(run[q], k)' = OutputOf(run[q], k)
  BY SettledStays
<1>4. OutputOf(run[o], j)' = OutputOf(run[q], k)'
  BY <1>1, <1>2, <1>3
<1>5. QED
  BY <1>1, <1>2, <1>4 DEF Rival

LEMMA StoredStays ==
    ASSUME NEW path, Touches(path), NEW f, f # path
    PROVE  Stored(f)' = Stored(f)
  BY DEF Touches, Stored

(* The outputs of files that users can name are names of that kind.        *)
LEMMA OutputsAreNamed ==
    ASSUME DriverInv, NEW q \in Processes, NEW k \in DOMAIN run[q].files
    PROVE  Named(OutputOf(run[q], k))
<1>1. ProcessOK(q)
  BY DEF DriverInv
<1>2. run[q].files[k] \in SourceNames
  BY <1>1, ElementOfSeq, LenProperties DEF ProcessOK
<1>3. QED
  BY <1>1, <1>2, SourcesAreNamed, OutputIsNamed DEF ProcessOK

(* A step writes nothing but a temporary file, or the output of the job    *)
(* that the process has at hand.                                           *)
Writes(p, path) ==
    /\ Touches(path)
    /\ \/ ~Named(path)
       \/ /\ Settled(p) /\ run[p].index \in DOMAIN run[p].files
          /\ path = OutputOf(run[p], run[p].index)

LEMMA ClaimStays ==
    ASSUME DriverInv, NEW p \in Processes, NEW s, Becomes(p, s), Stays(p, s),
           NEW path, Writes(p, path),
           NEW q \in Processes, Settled(q), NEW k \in DOMAIN run[q].files,
           ~Named(path) \/ q # p \/ k # run[p].index,
           NEW content, Claim(q, k, content)
    PROVE  Claim(q, k, content)'
<1> DEFINE output == OutputOf(run[q], k)
<1>1. Named(output) /\ OutputOf(run[q], k)' = output
  BY SettledStays, OutputsAreNamed
<1>2. CASE Rival(q, k)
  BY <1>2, RivalStays DEF Claim
<1>3. CASE output # path /\ Stored(output) = content
  <2> HIDE DEF output
  <2>1. \A f : f # path => Stored(f)' = Stored(f)
    BY StoredStays DEF Writes
  <2>2. \A f : f = OutputOf(run[q], k)' => Stored(f)' = Stored(OutputOf(run[q], k))'
    OBVIOUS
  <2>3. QED
    BY <1>1, <1>3, <2>1, <2>2 DEF Claim
<1>4. CASE output = path
  <2> DEFINE j == run[p].index
  <2>1. /\ Settled(p) /\ j \in DOMAIN run[p].files /\ OutputOf(run[p], j) = output
        /\ q # p \/ k # j
    BY <1>1, <1>4 DEF Writes
  <2>2. Rival(q, k)
    BY <2>1 DEF Rival
  <2>3. QED
    BY <2>2, RivalStays DEF Claim
<1>5. QED
  BY <1>2, <1>3, <1>4 DEF Claim

LEMMA AnswersStay ==
    ASSUME NEW q \in Processes, run'[q] = run[q], host' = host, AnswersOK(run[q])
    PROVE  AnswersOK(run[q])'
<1>1. PICK r : r = run[q]
  OBVIOUS
<1>2. AnswersOK(r)
  BY <1>1
<1>3. OutputOf(r, r.index)' = OutputOf(r, r.index)
  BY DEF OutputOf
<1>4. AnswersOK(r)'
  BY <1>2, <1>3 DEF AnswersOK
<1>5. QED
  BY <1>1, <1>4

(* So a step of p that does this to its own jobs does nothing to others'.  *)
LEMMA FilesStep ==
    ASSUME DriverInv, FilesInv, NEW p \in Processes, NEW s, Becomes(p, s), Stays(p, s),
           NEW path, Writes(p, path), NEW i, i = run[p].index, Named(path) => Wrote(p, i)',
           \A j \in DOMAIN run[p].files : Wrote(p, j) => Wrote(p, j)',
           AnswersOK(run[p])', ProgramsOK(p)'
    PROVE  FilesInv'
<1>1. ASSUME NEW q \in Processes, q # p PROVE AnswersOK(run[q])' /\ ProgramsOK(q)'
  <2> DEFINE r == run[q]
  <2>1. r' = r /\ host' = host
    BY <1>1 DEF DriverInv, Becomes
  <2>2. AnswersOK(r) /\ ProgramsOK(q) /\ ProcessOK(q)
    BY DEF FilesInv, DriverInv
  <2>3. AnswersOK(run[q])'
    BY <2>1, <2>2, AnswersStay
  <2>4. ASSUME NEW k \in DOMAIN r.answers PROVE Settled(q) /\ k \in DOMAIN r.files
    <3>1. /\ DOMAIN r.answers = 1 .. Len(r.answers) /\ Len(r.answers) \in Nat
          /\ DOMAIN r.files = 1 .. Len(r.files) /\ Len(r.files) \in Nat
      BY <2>2, LenProperties DEF AnswersOK, ProcessOK
    <3>2. Len(r.answers) = r.index - 1 /\ Len(r.answers) <= Len(r.files)
      BY <2>2 DEF AnswersOK
    <3>3. r.pc # "arguments"
      BY <2>2, <2>4, <3>1, <3>2 DEF ProcessOK
    <3>4. QED
      BY <2>4, <3>1, <3>2, <3>3 DEF Settled
  <2>5. ASSUME r.pc \in Toolchain PROVE Settled(q) /\ r.index \in DOMAIN r.files
    BY <2>2, <2>5, LenProperties DEF ProcessOK, WithFile, Toolchain, Settled
  <2>6. ASSUME Settled(q), NEW k \in DOMAIN r.files, NEW content, Claim(q, k, content)
        PROVE  Claim(q, k, content)'
    BY <1>1, <2>6, ClaimStays
  <2>7. \A text : Finished(text)' = Finished(text)
    BY <2>1 DEF Finished
  <2>8. ProgramsOK(q)'
    BY <2>1, <2>2, <2>4, <2>5, <2>6, <2>7 DEF ProgramsOK, Toolchain
  <2>9. QED
    BY <2>3, <2>8
<1>2. ASSUME NEW f, Named(f)
      PROVE  \/ Stored(f)' = Original(f)
             \/ \E q \in Processes : \E j \in DOMAIN run'[q].files :
                   Wrote(q, j)' /\ OutputOf(run[q], j)' = f
  <2>1. CASE f = path
    <3>1. Settled(p) /\ i \in DOMAIN run[p].files /\ f = OutputOf(run[p], i)
      BY <1>2, <2>1 DEF Writes
    <3>2. run'[p].files = run[p].files /\ OutputOf(run[p], i)' = OutputOf(run[p], i)
      BY <3>1, SettledStays
    <3>3. Wrote(p, i)'
      BY <1>2, <2>1
    <3>4. QED
      BY <3>1, <3>2, <3>3
  <2>2. CASE f # path
    <3>1. Stored(f)' = Stored(f)
      BY <2>2, StoredStays DEF Writes
    <3>2. CASE Stored(f) = Original(f)
      BY <3>1, <3>2
    <3>3. ASSUME NEW q \in Processes, NEW j \in DOMAIN run[q].files,
                 Wrote(q, j), OutputOf(run[q], j) = f
          PROVE  j \in DOMAIN run'[q].files /\ Wrote(q, j)' /\ OutputOf(run[q], j)' = f
      <4>1. Settled(q)
        BY <3>3 DEF Wrote
      <4>2. run'[q].files = run[q].files /\ OutputOf(run[q], j)' = f
        BY <3>3, <4>1, SettledStays
      <4>3. CASE q = p
        BY <3>3, <4>2, <4>3
      <4>4. CASE q # p
        <5>1. run'[q] = run[q]
          BY <4>4 DEF DriverInv, Becomes
        <5>2. QED
          BY <3>3, <4>2, <5>1 DEF Wrote, Settled
      <4>5. QED
        BY <4>2, <4>3, <4>4
    <3>4. QED
      BY <1>2, <3>2, <3>3 DEF FilesInv
  <2>3. QED
    BY <2>1, <2>2
<1>3. QED
  BY <1>1, <1>2 DEF FilesInv, Named, Path, Original

-----------------------------------------------------------------------------
(* The steps.                                                              *)
LEMMA AnswersFacts ==
    ASSUME DriverInv, FilesInv, NEW p \in Processes
    PROVE  LET r == run[p]
           IN  /\ r.index \in Nat \ {0} /\ Len(r.files) \in Nat
               /\ DOMAIN r.files = 1 .. Len(r.files) /\ DOMAIN r.answers = 1 .. r.index - 1
               /\ r.index - 1 <= Len(r.files)
               /\ r.pc = "arguments" => r.index = 1
               /\ r.pc \in WithFile => r.index \in DOMAIN r.files
<1>1. ProcessOK(p) /\ AnswersOK(run[p])
  BY DEF DriverInv, FilesInv
<1>2. DOMAIN run[p].files = 1 .. Len(run[p].files) /\ Len(run[p].files) \in Nat
  BY <1>1, LenProperties DEF ProcessOK
<1>3. DOMAIN run[p].answers = 1 .. Len(run[p].answers)
  BY <1>1, LenProperties DEF AnswersOK
<1>4. QED
  BY <1>1, <1>2, <1>3 DEF ProcessOK, AnswersOK

LEMMA SomeAreNotNamed ==
    ASSUME NEW p
    PROVE  \E path : ~Named(path)
<1>1. PICK path : path = Path(p, <<"shaolang", p, p>>, p)
  OBVIOUS
<1>2. path.stem = <<"shaolang", p, p>>
  BY <1>1, PathFields
<1>3. ~Named(path)
  BY <1>2, NamesAreShort
<1>4. QED
  BY <1>3

LEMMA QuietFiles ==
    ASSUME DriverInv, FilesInv, NEW p \in Processes, NEW s, Becomes(p, s), Stays(p, s), Keeps,
           s.answers = run[p].answers, s.index = run[p].index, s.linked = run[p].linked,
           Len(s.files) \in Nat,
           \/ run[p].pc = "arguments" /\ s.pc \in {"arguments", "file", "exited", "killed"}
           \/ run[p].pc = "compiled" /\ s.pc = "exited"
           \/ s.pc = "killed"
    PROVE  FilesInv'
<1> DEFINE r == run[p]
<1>1. run'[p] = s /\ host' = host /\ AnswersOK(r) /\ ProgramsOK(p)
  BY DEF DriverInv, Becomes, FilesInv
<1>2. PICK path : ~Named(path)
  BY SomeAreNotNamed
<1>3. Writes(p, path)
  BY <1>2 DEF Writes, Touches, Keeps
<1>4. s.linked \in BOOLEAN /\ (s.linked => s.pc = "killed")
  BY <1>1 DEF AnswersOK
<1>5. s.pc \notin WithOutput /\ s.pc \notin Toolchain
  BY DEF WithOutput, Toolchain
<1>6. /\ Len(s.answers) <= Len(s.files)
      /\ \A k \in DOMAIN s.answers : s.answers[k].what = "refused" <=> Faulty(s, s.answers[k].text)
  <2>1. CASE Settled(p)
    BY <1>1, <2>1 DEF Stays, AnswersOK, Faulty, generateExecutable
  <2>2. CASE ~Settled(p)
    <3>1. r.pc = "arguments"
      BY <2>2 DEF Settled
    <3>2. DOMAIN s.answers = {} /\ Len(s.answers) = 0
      BY <1>1, <3>1, AnswersFacts DEF AnswersOK
    <3>3. QED
      BY <3>2
  <2>3. QED
    BY <2>1, <2>2
<1>7. AnswersOK(s)'
  BY <1>1, <1>4, <1>5, <1>6 DEF AnswersOK, WithOutput, Toolchain
<1>8. ProgramsOK(p)'
  <2>1. ASSUME NEW k \in DOMAIN s.answers, NEW content, Claim(p, k, content)
        PROVE  Claim(p, k, content)'
    <3>1. Settled(p) /\ k \in DOMAIN r.files
      BY <2>1, AnswersFacts DEF Settled
    <3>2. QED
      BY <1>2, <1>3, <2>1, <3>1, ClaimStays
  <2>2. \A text : Finished(text)' = Finished(text)
    BY <1>1 DEF Finished
  <2>3. QED
    BY <1>1, <1>5, <2>1, <2>2 DEF ProgramsOK, Toolchain
<1>9. ASSUME NEW j \in DOMAIN r.files, Wrote(p, j) PROVE Wrote(p, j)'
  BY <1>1, <1>9 DEF Wrote, Settled, Stays, Toolchain
<1>10. AnswersOK(run[p])'
  BY <1>1, <1>7
<1>11. QED
  BY <1>2, <1>3, <1>8, <1>9, <1>10, FilesStep

LEMMA CompileFiles ==
    ASSUME DriverInv, FilesInv, NEW p \in Processes, compile(p)
    PROVE  FilesInv'
<1> DEFINE r    == run[p]
           text == Stored(r.files[r.index])
           sum  == r.errors + ErrorsIn(text)
           s    == [r EXCEPT !.pc = "compiled", !.text = text, !.errors = sum,
                             !.has_error = sum > errors_before(r), !.output = OutputOf(r, r.index)]
<1>1. ProcessOK(p) /\ r.pc = "file" /\ Keeps /\ Becomes(p, s) /\ AnswersOK(r) /\ ProgramsOK(p)
  BY DEF DriverInv, FilesInv, compile, At
<1>2. PICK t : t = s
  OBVIOUS
<1>3. /\ t.options = r.options /\ t.files = r.files /\ t.pc = "compiled" /\ t.index = r.index
      /\ t.answers = r.answers /\ t.output = OutputOf(r, r.index) /\ t.text = text
      /\ t.linked = r.linked /\ t.has_error = (sum > r.errors)
  BY <1>1, <1>2 DEF ProcessOK, Fields, errors_before
<1>4. sum > r.errors <=> ErrorsIn(text) > 0
  <2>1. r.errors \in Nat /\ ErrorsIn(text) \in Nat
    BY <1>1, StoredContents DEF ProcessOK
  <2>2. QED
    BY <2>1
<1> HIDE DEF sum, text
<1>5. run'[p] = t /\ host' = host /\ Becomes(p, t)
  BY <1>1, <1>2 DEF DriverInv, Becomes
<1> HIDE DEF s
<1>6. PICK path : ~Named(path)
  BY SomeAreNotNamed
<1>7. Writes(p, path) /\ Stays(p, t)
  BY <1>1, <1>3, <1>6 DEF Writes, Touches, Keeps, Stays
<1>8. t.output = OutputOf(t, t.index) /\ OutputOf(t, t.index)' = OutputOf(t, t.index)
  BY <1>3, <1>5 DEF OutputOf, generateExecutable
<1>9. AnswersOK(t)'
  <2>1. \A k \in DOMAIN t.answers : t.answers[k].what = "refused" <=> Faulty(t, t.answers[k].text)
    BY <1>1, <1>3 DEF AnswersOK, Faulty, generateExecutable
  <2>2. t.linked \in BOOLEAN /\ ~t.linked /\ t.pc \notin Toolchain
    BY <1>1, <1>3 DEF AnswersOK, Toolchain
  <2>3. t.has_error <=> ErrorsIn(t.text) > 0
    BY <1>3, <1>4
  <2>4. QED
    BY <1>1, <1>3, <1>8, <2>1, <2>2, <2>3 DEF AnswersOK, Toolchain
<1>10. ProgramsOK(p)'
  <2>1. ASSUME NEW k \in DOMAIN t.answers, NEW content, Claim(p, k, content)
        PROVE  Claim(p, k, content)'
    <3>1. Settled(p) /\ k \in DOMAIN r.files
      BY <1>1, <1>3, <2>1, AnswersFacts DEF Settled
    <3>2. QED
      BY <1>5, <1>6, <1>7, <2>1, <3>1, ClaimStays
  <2>2. \A what : Finished(what)' = Finished(what)
    BY <1>5 DEF Finished
  <2>3. QED
    BY <1>1, <1>3, <1>5, <2>1, <2>2 DEF ProgramsOK
<1>11. ASSUME NEW j \in DOMAIN r.files, Wrote(p, j) PROVE Wrote(p, j)'
  BY <1>1, <1>3, <1>5, <1>11 DEF Wrote, Settled, Toolchain
<1>12. AnswersOK(run[p])'
  BY <1>5, <1>9
<1>13. QED
  BY <1>5, <1>6, <1>7, <1>10, <1>11, <1>12, FilesStep

LEMMA AnswerGiven ==
    ASSUME NEW p \in Processes, DriverInv, NEW what, Answered(p, what)
    PROVE  /\ run'[p].answers = Append(run[p].answers, [what |-> what, text |-> run[p].text])
           /\ run'[p].linked = FALSE
<1> DEFINE r == run[p]
           s == [r EXCEPT !.answers = Append(@, [what |-> what, text |-> r.text]), !.index = @ + 1,
                          !.linked = FALSE, !.temp = NoPath]
           t == [s EXCEPT !.pc = IF s.index <= Len(s.files) THEN "file" ELSE "exited"]
<1>1. ProcessOK(p) /\ Becomes(p, t)
  BY DEF DriverInv, Answered
<1>2. /\ DOMAIN s = Fields /\ s.linked = FALSE
      /\ s.answers = Append(r.answers, [what |-> what, text |-> r.text])
  BY <1>1 DEF ProcessOK, Fields
<1> HIDE DEF s
<1>3. t.answers = s.answers /\ t.linked = s.linked
  BY <1>2 DEF Fields
<1> HIDE DEF t
<1>4. run'[p] = t
  BY <1>1 DEF DriverInv, Becomes
<1>5. QED
  BY <1>2, <1>3, <1>4

LEMMA AnswerFiles ==
    ASSUME DriverInv, FilesInv, NEW p \in Processes, NEW what \in Whats, Answered(p, what),
           run[p].pc \in WithOutput, what = "refused" <=> Faulty(run[p], run[p].text),
           NEW path, Writes(p, path), Named(path) => what # "refused",
           what = "linked" => ~Named(path) /\ run[p].pc = "tried" /\ run[p].linked
    PROVE  FilesInv'
<1> DEFINE r == run[p]
           n == r.index
           answer == [what |-> what, text |-> r.text]
<1>1. ProcessOK(p) /\ AnswersOK(r) /\ ProgramsOK(p) /\ Settled(p)
  BY DEF DriverInv, FilesInv, WithOutput, Toolchain, Settled
<1>2. PICK s : s = run'[p]
  OBVIOUS
<1>3. /\ Becomes(p, s) /\ s.options = r.options /\ s.files = r.files
      /\ s.pc \in {"file", "exited"} /\ s.index = n + 1 /\ s.text = r.text
      /\ s.linked = FALSE /\ s.answers = Append(r.answers, answer)
  BY <1>2, AnsweredEntry, AnswerGiven
<1>4. host' = host /\ Stays(p, s)
  BY <1>3 DEF Becomes, Stays
<1>5. /\ n \in Nat \ {0} /\ DOMAIN r.files = 1 .. Len(r.files) /\ Len(r.files) \in Nat
      /\ DOMAIN r.answers = 1 .. n - 1 /\ n \in DOMAIN r.files
  BY <1>1, AnswersFacts DEF WithFile, WithOutput
<1>6. answer \in [what : Whats, text : Contents] /\ answer.what = what /\ answer.text = r.text
  BY <1>1 DEF ProcessOK
<1>7. /\ s.answers \in Seq([what : Whats, text : Contents])
      /\ Len(s.answers) = n /\ DOMAIN s.answers = 1 .. n
      /\ \A k \in 1 .. n - 1 : s.answers[k] = r.answers[k]
      /\ s.answers[n] = answer
  <2> DEFINE old == r.answers
             S   == [what : Whats, text : Contents]
  <2>1. old \in Seq(S) /\ Len(old) = n - 1
    BY <1>1 DEF AnswersOK
  <2>2. s.answers = Append(old, answer) /\ answer \in S
    BY <1>3, <1>6
  <2> HIDE DEF old, S, answer
  <2>3. /\ s.answers \in Seq(S) /\ Len(s.answers) = Len(old) + 1
        /\ \A k \in 1 .. Len(old) : s.answers[k] = old[k]
        /\ s.answers[Len(old) + 1] = answer
    BY <2>1, <2>2, AppendProperties
  <2>4. Len(s.answers) = n /\ Len(old) + 1 = n
    BY <1>5, <2>1, <2>3
  <2>5. DOMAIN s.answers = 1 .. n
    BY <2>3, <2>4, LenProperties
  <2>6. QED
    BY <2>1, <2>3, <2>4, <2>5 DEF old, S
<1>8. \A k \in 1 .. n : k = n \/ k \in DOMAIN r.answers
  BY <1>5
<1> HIDE DEF answer
<1>9. \A k \in DOMAIN s.answers : s.answers[k].what = "refused" <=> Faulty(s, s.answers[k].text)
  <2>1. \A text : Faulty(s, text) <=> Faulty(r, text)
    BY <1>3 DEF Faulty, generateExecutable
  <2>2. \A k \in DOMAIN r.answers : r.answers[k].what = "refused" <=> Faulty(r, r.answers[k].text)
    BY <1>1 DEF AnswersOK
  <2>3. s.answers[n].what = "refused" <=> Faulty(r, s.answers[n].text)
    BY <1>6, <1>7
  <2>4. QED
    BY <1>5, <1>7, <1>8, <2>1, <2>2, <2>3
<1>10. Len(s.answers) = s.index - 1 /\ Len(s.answers) <= Len(s.files)
  BY <1>3, <1>5, <1>7
<1>11. AnswersOK(s)'
  BY <1>3, <1>7, <1>9, <1>10 DEF AnswersOK, WithOutput, Toolchain
<1>12. ProgramsOK(p)'
  <2>1. ASSUME NEW k \in DOMAIN r.files, NEW content, Claim(p, k, content), k # n \/ ~Named(path)
        PROVE  Claim(p, k, content)'
    BY <1>1, <1>3, <1>4, <2>1, ClaimStays
  <2>2. \A text : Finished(text)' = Finished(text)
    BY <1>4 DEF Finished
  <2>3. ASSUME NEW k \in DOMAIN s.answers, s.answers[k].what = "linked",
               NEW content, content = Finished(s.answers[k].text.text)
        PROVE  Claim(p, k, content)'
    <3>1. CASE k = n
      <4>1. what = "linked" /\ content = Finished(r.text.text)
        BY <1>6, <1>7, <2>3, <3>1
      <4>2. ~Named(path) /\ Claim(p, k, content)
        BY <1>1, <3>1, <4>1 DEF ProgramsOK
      <4>3. QED
        BY <1>5, <2>1, <3>1, <4>2
    <3>2. CASE k # n
      <4>1. k \in DOMAIN r.answers /\ s.answers[k] = r.answers[k] /\ k \in DOMAIN r.files
        BY <1>5, <1>7, <3>2
      <4>2. Claim(p, k, content)
        BY <1>1, <2>3, <4>1 DEF ProgramsOK
      <4>3. QED
        BY <2>1, <3>2, <4>1, <4>2
    <3>3. QED
      BY <3>1, <3>2
  <2>4. QED
    BY <1>2, <1>3, <2>2, <2>3 DEF ProgramsOK
<1>13. ASSUME NEW j \in DOMAIN r.files, Wrote(p, j) \/ (j = n /\ what # "refused")
       PROVE  Wrote(p, j)'
  <2>1. Settled(p)' /\ j \in DOMAIN run'[p].files /\ run'[p].index = n + 1
    BY <1>2, <1>3, <1>13 DEF Settled
  <2>2. CASE j < n /\ r.answers[j].what # "refused"
    <3>1. j \in 1 .. n - 1 /\ j < n + 1
      BY <1>5, <2>2
    <3>2. s.answers[j].what # "refused"
      BY <1>7, <2>2, <3>1
    <3>3. QED
      BY <1>2, <2>1, <3>1, <3>2 DEF Wrote
  <2>3. CASE j = n /\ what # "refused"
    <3>1. j < n + 1 /\ run'[p].answers[j].what # "refused"
      BY <1>2, <1>5, <1>6, <1>7, <2>3
    <3>2. QED
      BY <2>1, <3>1 DEF Wrote
  <2>4. j = n /\ r.pc \in Toolchain => what # "refused"
    BY <1>1 DEF AnswersOK
  <2>5. r.pc # "killed"
    BY DEF WithOutput, Toolchain
  <2>6. QED
    BY <1>13, <2>2, <2>3, <2>4, <2>5 DEF Wrote
<1>14. AnswersOK(run[p])'
  BY <1>2, <1>11
<1>15. ASSUME NEW i, i = n, Named(path) PROVE Wrote(p, i)'
  BY <1>5, <1>13, <1>15
<1>16. QED
  BY <1>3, <1>4, <1>12, <1>13, <1>14, <1>15, FilesStep

(* Between two answers: what the tools do, and to which file.              *)
Same(r, s) ==
    /\ s.options = r.options /\ s.files = r.files /\ s.index = r.index
    /\ s.text = r.text /\ s.output = r.output /\ s.answers = r.answers

LEMMA ClaimMade ==
    ASSUME DriverInv, NEW p \in Processes, NEW s, Becomes(p, s), Stays(p, s), Settled(p), NEW k,
           NEW path, path = OutputOf(run[p], k), NEW content, disk' = With(path, content)
    PROVE  Claim(p, k, content)'
<1>1. OutputOf(run[p], k)' = path
  BY SettledStays
<1>2. path \in DOMAIN disk' /\ disk'[path] = content
  BY DiskTouched
<1>3. QED
  BY <1>1, <1>2 DEF Claim, Stored

LEMMA ToolFiles ==
    ASSUME DriverInv, FilesInv, NEW p \in Processes, NEW s, Becomes(p, s), Same(run[p], s),
           run[p].pc \in WithOutput, s.pc \in Toolchain,
           generateExecutable(run[p]), ~Faulty(run[p], run[p].text),
           s.linked \in BOOLEAN, s.linked => s.pc \in {"unsigned", "object", "tried"},
           s.pc \in {"assembler", "linker", "object"} => host.platform = "windows",
           s.pc = "unsigned" => host.platform = "macos",
           NEW path, Writes(p, path), NEW n, n = run[p].index,
           \A content : content = Content("program", run[p].text.text) /\ s.pc = "unsigned" =>
              Claim(p, n, content)',
           \A content : content = Finished(run[p].text.text) /\ s.pc \in {"object", "tried"} /\ s.linked =>
              Claim(p, n, content)'
    PROVE  FilesInv'
<1> DEFINE r == run[p]
<1>1. AnswersOK(r) /\ ProgramsOK(p) /\ Settled(p)
  BY DEF FilesInv, WithOutput, Toolchain, Settled
<1>2. run'[p] = s /\ host' = host /\ Stays(p, s)
  BY DEF DriverInv, Becomes, Same, Stays, Toolchain
<1>3. /\ DOMAIN r.files = 1 .. Len(r.files) /\ DOMAIN r.answers = 1 .. n - 1 /\ n \in DOMAIN r.files
      /\ n \in Nat
  BY AnswersFacts DEF WithFile, WithOutput
<1>4. OutputOf(s, n)' = r.output
  <2>1. r.output = OutputOf(r, n)
    BY <1>1 DEF AnswersOK
  <2>2. QED
    BY <1>2, <2>1 DEF Same, OutputOf, generateExecutable
<1>5. AnswersOK(s)'
  <2>1. \A text : Faulty(s, text) <=> Faulty(r, text)
    BY DEF Same, Faulty, generateExecutable
  <2>2. \A k \in DOMAIN s.answers : s.answers[k].what = "refused" <=> Faulty(s, s.answers[k].text)
    BY <1>1, <2>1 DEF Same, AnswersOK
  <2>3. generateExecutable(s) /\ ~Faulty(s, s.text) /\ s.pc # "compiled"
    BY <2>1 DEF Same, generateExecutable, Toolchain
  <2>4. /\ s.answers \in Seq([what : Whats, text : Contents])
        /\ Len(s.answers) = s.index - 1 /\ Len(s.answers) <= Len(s.files)
    BY <1>1 DEF Same, AnswersOK
  <2>5. s.output = OutputOf(s, s.index)'
    BY <1>4 DEF Same
  <2>6. QED
    BY <1>2, <2>2, <2>3, <2>4, <2>5 DEF AnswersOK
<1>6. ProgramsOK(p)'
  <2>1. ASSUME NEW k \in DOMAIN s.answers, NEW content, Claim(p, k, content)
        PROVE  Claim(p, k, content)'
    <3>1. k \in DOMAIN r.files /\ k # n
      BY <1>3, <2>1 DEF Same
    <3>2. QED
      BY <1>1, <1>2, <2>1, <3>1, ClaimStays
  <2>2. \A text : Finished(text)' = Finished(text)
    BY <1>2 DEF Finished
  <2>3. QED
    BY <1>1, <1>2, <2>1, <2>2 DEF Same, ProgramsOK
<1>7. ASSUME NEW j \in DOMAIN r.files, Wrote(p, j) \/ j = n PROVE Wrote(p, j)'
  BY <1>1, <1>2, <1>7 DEF Wrote, Settled, Same, Toolchain
<1>8. AnswersOK(run[p])'
  BY <1>2, <1>5
<1>9. QED
  BY <1>2, <1>3, <1>6, <1>7, <1>8, FilesStep

LEMMA TriedEntry ==
    ASSUME DriverInv, NEW p \in Processes, NEW place
    PROVE  \A linked \in BOOLEAN : Tried(p, place, linked) =>
              \E s : Becomes(p, s) /\ Same(run[p], s) /\ s.pc = place /\ s.linked = linked
<1> SUFFICES ASSUME NEW linked \in BOOLEAN, Tried(p, place, linked)
             PROVE  \E s : Becomes(p, s) /\ Same(run[p], s) /\ s.pc = place /\ s.linked = linked
  OBVIOUS
<1> DEFINE t == [run[p] EXCEPT !.pc = place, !.linked = linked]
<1>1. Becomes(p, t)
  BY DEF Tried
<1>2. Same(run[p], t) /\ t.pc = place /\ t.linked = linked
  BY DEF DriverInv, ProcessOK, Same, Fields
<1> HIDE DEF t
<1>3. QED
  BY <1>1, <1>2

LEMMA GoesEntry ==
    ASSUME DriverInv, NEW p \in Processes, NEW place, Goes(p, place)
    PROVE  \E s : Becomes(p, s) /\ Same(run[p], s) /\ s.pc = place /\ s.linked = run[p].linked
<1> DEFINE t == [run[p] EXCEPT !.pc = place]
<1>1. Becomes(p, t)
  BY DEF Goes
<1>2. Same(run[p], t) /\ t.pc = place /\ t.linked = run[p].linked
  BY DEF DriverInv, ProcessOK, Same, Fields
<1> HIDE DEF t
<1>3. QED
  BY <1>1, <1>2

LEMMA EndFiles ==
    ASSUME DriverInv, FilesInv, NEW p \in Processes, Keeps,
           \/ run[p].pc \in {"arguments", "compiled"} /\ \E n : Exits(p, n)
           \/ Goes(p, "killed")
    PROVE  FilesInv'
<1> DEFINE r == run[p]
<1>1. ProcessOK(p) /\ Len(r.files) \in Nat
  BY AnswersFacts DEF DriverInv
<1>2. CASE r.pc \in {"arguments", "compiled"} /\ \E n : Exits(p, n)
  <2>1. PICK n : Exits(p, n)
    BY <1>2
  <2> DEFINE s == [r EXCEPT !.pc = "exited", !.code = n]
  <2>2. /\ s.pc = "exited" /\ s.answers = r.answers /\ s.index = r.index /\ s.linked = r.linked
        /\ s.options = r.options /\ s.files = r.files
    BY <1>1 DEF ProcessOK, Fields
  <2>3. Becomes(p, s)
    BY <2>1 DEF Exits
  <2> HIDE DEF s
  <2>4. Stays(p, s)
    BY <2>2 DEF Stays
  <2>5. QED
    BY <1>1, <1>2, <2>2, <2>3, <2>4, QuietFiles
<1>3. CASE Goes(p, "killed")
  <2>1. PICK s : /\ Becomes(p, s) /\ Same(run[p], s) /\ s.pc = "killed"
                 /\ s.linked = run[p].linked
    BY <1>3, GoesEntry
  <2>2. Stays(p, s)
    BY <2>1 DEF Stays, Same
  <2>3. QED
    BY <1>1, <2>1, <2>2, QuietFiles DEF Same
<1>4. QED
  BY <1>2, <1>3

LEMMA ArgumentFiles ==
    ASSUME DriverInv, FilesInv, DriverInv', NEW p \in Processes, argument(p) \/ check_options(p)
    PROVE  FilesInv'
<1> DEFINE r == run[p]
<1>1. ProcessOK(p) /\ ProcessOK(p)' /\ r.pc = "arguments" /\ Keeps
  BY DEF DriverInv, argument, check_options, At
<1>2. CASE \E n : Exits(p, n)
  BY <1>1, <1>2, EndFiles
<1>3. CASE \E n, o, files : Becomes(p, [r EXCEPT !.at = @ + n, !.options = o, !.files = files])
  <2>1. PICK n, o, files : Becomes(p, [r EXCEPT !.at = @ + n, !.options = o, !.files = files])
    BY <1>3
  <2> DEFINE s == [r EXCEPT !.at = @ + n, !.options = o, !.files = files]
  <2>2. s.pc = "arguments" /\ s.answers = r.answers /\ s.index = r.index /\ s.linked = r.linked
    BY <1>1 DEF ProcessOK, Fields
  <2> HIDE DEF s
  <2>3. Becomes(p, s)
    BY <2>1 DEF s
  <2>4. run'[p] = s /\ Stays(p, s)
    BY <1>1, <2>3 DEF DriverInv, Becomes, Stays, Settled
  <2>5. Len(s.files) \in Nat
    BY <1>1, <2>4, LenProperties DEF ProcessOK
  <2>6. QED
    BY <1>1, <2>2, <2>3, <2>4, <2>5, QuietFiles
<1>4. CASE Goes(p, "file")
  <2>1. PICK s : /\ Becomes(p, s) /\ Same(run[p], s) /\ s.pc = "file"
                 /\ s.linked = run[p].linked
    BY <1>4, GoesEntry
  <2>2. Stays(p, s) /\ Len(s.files) \in Nat
    BY <1>1, <2>1, AnswersFacts DEF Stays, Settled, Same
  <2>3. QED
    BY <1>1, <2>1, <2>2, QuietFiles DEF Same
<1>5. argument(p) => \/ \E n : Exits(p, n)
                     \/ \E n, o, files : Becomes(p, [r EXCEPT !.at = @ + n, !.options = o, !.files = files])
  BY DEF argument
<1>6. check_options(p) => Goes(p, "file") \/ \E n : Exits(p, n)
  BY DEF check_options
<1>7. QED
  BY <1>2, <1>3, <1>4, <1>5, <1>6

LEMMA CompiledFiles ==
    ASSUME DriverInv, FilesInv, NEW p \in Processes,
           refuse(p) \/ show_code(p) \/ refuse_target(p) \/ emit_assembly(p)
    PROVE  FilesInv'
<1> DEFINE r == run[p]
           output == r.options.output
<1>1. ProcessOK(p) /\ AnswersOK(r) /\ r.pc = "compiled" /\ r.pc \in WithOutput /\ Settled(p)
  BY DEF DriverInv, FilesInv, refuse, show_code, refuse_target, emit_assembly, At, WithOutput, Settled
<1>2. Gated(r) <=> Faulty(r, r.text)
  BY <1>1 DEF AnswersOK, Gated, Faulty
<1>3. PICK path : ~Named(path)
  BY SomeAreNotNamed
<1>4. Keeps => Writes(p, path)
  BY <1>3 DEF Keeps, Writes, Touches
<1>5. ASSUME NEW what \in {"refused", "code", "foreign", "assembly"}, Answered(p, what), Keeps,
             what = "refused" <=> Faulty(r, r.text)
      PROVE  FilesInv'
  BY <1>1, <1>3, <1>4, <1>5, AnswerFiles DEF Whats
<1>6. ASSUME Answered(p, "assembly"), ~Faulty(r, r.text), r.options.assembly, output # NoPath,
             disk' = With(output, Content("assembly", r.text.text))
      PROVE  FilesInv'
  <2>1. r.index \in DOMAIN r.files
    BY <1>1, AnswersFacts DEF WithFile
  <2>2. output = OutputOf(r, r.index)
    BY <1>6 DEF OutputOf, generateExecutable
  <2>3. Writes(p, output)
    BY <1>1, <1>6, <2>1, <2>2, DiskTouched DEF Writes
  <2>4. QED
    BY <1>1, <1>6, <2>3, AnswerFiles DEF Whats
<1>7. CASE refuse(p)
  BY <1>2, <1>5, <1>7 DEF refuse
<1>8. CASE show_code(p)
  BY <1>5, <1>8 DEF show_code, Faulty
<1>9. CASE refuse_target(p)
  BY <1>2, <1>5, <1>9 DEF refuse_target
<1>10. CASE emit_assembly(p)
  <2>1. CASE \E n : Exits(p, n) /\ Keeps
    BY <1>1, <2>1, EndFiles
  <2>2. CASE Answered(p, "assembly")
    BY <1>2, <1>5, <1>6, <1>10, <2>2 DEF emit_assembly
  <2>3. QED
    BY <1>10, <2>1, <2>2 DEF emit_assembly
<1>11. QED
  BY <1>7, <1>8, <1>9, <1>10

LEMMA WriteFiles ==
    ASSUME DriverInv, FilesInv, NEW p \in Processes, write_temp(p)
    PROVE  FilesInv'
<1> DEFINE r == run[p]
           Temp(usable) == temp_assembly_path(p, r.index, usable)
<1>1. ProcessOK(p) /\ AnswersOK(r) /\ r.pc = "compiled" /\ r.pc \in WithOutput /\ Settled(p)
  BY DEF DriverInv, FilesInv, write_temp, At, WithOutput, Settled
<1>2. generateExecutable(r) /\ ~Faulty(r, r.text)
  BY <1>1 DEF write_temp, AnswersOK, Gated, Faulty
<1>3. CASE \E n : Exits(p, n) /\ Keeps
  BY <1>1, <1>3, EndFiles
<1>4. ASSUME NEW temp, \E dir : temp = Path(dir, <<"shaolang", p, r.index>>,
                                           IF host.platform = "windows" THEN "asm" ELSE "s"),
             Becomes(p, [r EXCEPT !.pc = "written", !.temp = temp]),
             disk' = With(temp, Content("assembly", r.text.text))
      PROVE  FilesInv'
  <2> DEFINE s == [r EXCEPT !.pc = "written", !.temp = temp]
  <2>1. Same(r, s) /\ s.pc = "written" /\ s.linked = r.linked
    BY <1>1 DEF ProcessOK, Same, Fields
  <2> HIDE DEF s
  <2>2. Becomes(p, s) /\ s.linked = FALSE /\ s.pc \in Toolchain
    BY <1>1, <1>4, <2>1 DEF AnswersOK, s, Toolchain
  <2>3. ~Named(temp)
    <3>1. temp.stem = <<"shaolang", p, r.index>>
      BY <1>4, PathFields
    <3>2. QED
      BY <3>1, NamesAreShort
  <2>4. Writes(p, temp)
    BY <1>4, <2>3, DiskTouched DEF Writes
  <2>5. QED
    BY <1>1, <1>2, <2>1, <2>2, <2>4, ToolFiles
<1>5. QED
  BY <1>3, <1>4 DEF write_temp, temp_assembly_path

(* The tools write the output of the job at hand, or a temporary file.     *)
LEMMA ToolWrites ==
    ASSUME DriverInv, FilesInv, NEW p \in Processes, run[p].pc \in Toolchain
    PROVE  LET r == run[p]
           IN  /\ r.output = OutputOf(r, r.index) /\ r.index \in DOMAIN r.files /\ Settled(p)
               /\ r.pc \in WithOutput /\ generateExecutable(r) /\ ~Faulty(r, r.text)
               /\ r.linked \in BOOLEAN
               /\ Touches(r.output) => Writes(p, r.output)
               /\ Touches(r.temp) => Writes(p, r.temp)
               /\ Touches(object_path_of(r.temp)) => Writes(p, object_path_of(r.temp))
               /\ ~Named(r.temp) /\ ~Named(object_path_of(r.temp))
<1> DEFINE r == run[p]
<1>1. r.pc \in WithOutput /\ r.pc \in WithFile /\ Settled(p)
  BY DEF WithOutput, WithFile, Toolchain, Settled
<1>2. /\ r.output = OutputOf(r, r.index) /\ generateExecutable(r) /\ ~Faulty(r, r.text)
      /\ r.linked \in BOOLEAN
  BY <1>1 DEF FilesInv, AnswersOK
<1>3. r.index \in DOMAIN r.files
  BY <1>1, AnswersFacts
<1>4. ~Named(r.temp) /\ ~Named(object_path_of(r.temp))
  <2>1. /\ r.temp.stem = <<"shaolang", p, r.index>>
        /\ object_path_of(r.temp).stem = <<"shaolang", p, r.index>>
    BY TemporaryNames
  <2>2. QED
    BY <2>1, NamesAreShort
<1>5. QED
  BY <1>1, <1>2, <1>3, <1>4 DEF Writes

LEMMA ToolsFiles ==
    ASSUME DriverInv, FilesInv, NEW p \in Processes,
           cc(p) \/ codesign(p) \/ tool_available(p) \/ ml(p) \/ link(p) \/ remove_object(p)
    PROVE  FilesInv'
<1> DEFINE r      == run[p]
           output == r.output
           temp   == r.temp
           object == object_path_of(temp)
<1>1. r.pc \in Toolchain /\ Links(p) /\ AnswersOK(r) /\ ProgramsOK(p)
  BY DEF DriverInv, FilesInv, cc, codesign, tool_available, ml, link, remove_object, At, Toolchain
<1>2. /\ output = OutputOf(r, r.index) /\ r.index \in DOMAIN r.files /\ Settled(p)
      /\ r.pc \in WithOutput /\ generateExecutable(r) /\ ~Faulty(r, r.text)
      /\ r.linked \in BOOLEAN
      /\ Touches(output) => Writes(p, output)
      /\ Touches(temp) => Writes(p, temp)
      /\ Touches(object) => Writes(p, object)
      /\ ~Named(temp) /\ ~Named(object)
  BY <1>1, ToolWrites
<1>3. /\ \A f, content : disk' = With(f, content) \/ disk' = Without(f) => Touches(f)
      /\ \A f : disk' = disk => Touches(f)
  BY DiskTouched
(* The tool fails, or there are more to come.                              *)
<1>4. ASSUME NEW s, Becomes(p, s), Same(r, s), s.linked = FALSE,
             s.pc \in Toolchain \ {"unsigned"},
             s.pc \in {"assembler", "linker", "object"} => host.platform = "windows",
             Touches(output) \/ Touches(object)
      PROVE  FilesInv'
  BY <1>2, <1>4, ToolFiles
<1>5. ASSUME NEW place \in {"assembler", "linker", "object", "tried"},
             Tried(p, place, FALSE) \/ (Goes(p, place) /\ r.linked = FALSE),
             place # "tried" => host.platform = "windows",
             Touches(output) \/ Touches(object)
      PROVE  FilesInv'
  <2>1. PICK s : Becomes(p, s) /\ Same(r, s) /\ s.pc = place /\ s.linked = FALSE
    <3>1. CASE Tried(p, place, FALSE)
      <4>1. \A linked \in BOOLEAN : Tried(p, place, linked) =>
               \E s : Becomes(p, s) /\ Same(run[p], s) /\ s.pc = place /\ s.linked = linked
        BY TriedEntry
      <4>2. QED
        BY <3>1, <4>1
    <3>2. CASE Goes(p, place) /\ r.linked = FALSE
      <4>1. \E s : Becomes(p, s) /\ Same(run[p], s) /\ s.pc = place /\ s.linked = run[p].linked
        BY <3>2, GoesEntry
      <4>2. QED
        BY <3>2, <4>1
    <3>3. QED
      BY <1>5, <3>1, <3>2
  <2>2. QED
    BY <1>4, <1>5, <2>1 DEF Toolchain
(* The tool leaves a program.                                              *)
<1>6. ASSUME NEW place \in {"unsigned", "object", "tried"}, Tried(p, place, TRUE),
             place = "unsigned" => host.platform = "macos",
             place = "object" => host.platform = "windows",
             disk' = With(output, IF place = "unsigned" THEN Content("program", r.text.text)
                                                        ELSE Finished(r.text.text))
      PROVE  FilesInv'
  <2>1. PICK s : Becomes(p, s) /\ Same(r, s) /\ s.pc = place /\ s.linked = TRUE
    BY <1>6, TriedEntry
  <2>2. s.pc \in Toolchain /\ Stays(p, s)
    BY <2>1 DEF Toolchain, Stays, Same
  <2>3. PICK n : n = r.index
    OBVIOUS
  <2>4. PICK made : made = IF place = "unsigned" THEN Content("program", r.text.text)
                                                  ELSE Finished(r.text.text)
    OBVIOUS
  <2>5. Claim(p, n, made)'
    BY <1>2, <1>6, <2>1, <2>2, <2>3, <2>4, ClaimMade
  <2>6. Writes(p, output)
    BY <1>2, <1>3, <1>6
  <2>7. QED
    BY <1>2, <1>6, <2>1, <2>2, <2>3, <2>4, <2>5, <2>6, ToolFiles
<1>7. host.platform # "macos" => \A text : Finished(text) = Content("program", text)
  BY DEF Finished
<1>8. CASE cc(p)
  <2>1. CASE /\ disk' = With(output, Content("program", Stored(temp).text))
             /\ Tried(p, IF host.platform = "macos" THEN "unsigned" ELSE "tried", TRUE)
    <3>1. Stored(temp).text = r.text.text
      BY <1>1, <1>8 DEF cc, At, Links, Content
    <3>2. CASE host.platform = "macos"
      BY <1>6, <2>1, <3>1, <3>2
    <3>3. CASE host.platform # "macos"
      BY <1>6, <1>7, <2>1, <3>1, <3>3
    <3>4. QED
      BY <3>2, <3>3
  <2>2. CASE disk' \in {disk, Without(output)} /\ Tried(p, "tried", FALSE)
    BY <1>3, <1>5, <2>2
  <2>3. QED
    BY <1>8, <2>1, <2>2 DEF cc
<1>9. CASE codesign(p)
  <2>1. r.pc = "unsigned" /\ host.platform = "macos"
    BY <1>1, <1>9 DEF codesign, At, AnswersOK
  <2>2. CASE Keeps /\ Tried(p, "tried", FALSE)
    BY <1>3, <1>5, <2>2 DEF Keeps
  <2>3. CASE disk' = With(output, Content("signed", Stored(output).text)) /\ Tried(p, "tried", TRUE)
    <3>1. PICK s : Becomes(p, s) /\ Same(r, s) /\ s.pc = "tried" /\ s.linked = TRUE
      BY <2>3, TriedEntry
    <3>2. s.pc \in Toolchain /\ Stays(p, s)
      BY <3>1 DEF Toolchain, Stays, Same
    <3>3. PICK n : n = r.index
      OBVIOUS
    <3>4. PICK made : made = Finished(r.text.text)
      OBVIOUS
    <3>5. Claim(p, n, made)'
      <4>1. CASE Rival(p, n)
        <5>1. Rival(p, n)'
          BY <1>2, <3>1, <3>2, <4>1, RivalStays
        <5>2. QED
          BY <5>1 DEF Claim
      <4>2. CASE Stored(output) = Content("program", r.text.text)
        <5>1. Content("signed", Stored(output).text) = made
          BY <2>1, <3>4, <4>2 DEF Content, Finished
        <5>2. QED
          BY <1>2, <2>3, <3>1, <3>2, <3>3, <5>1, ClaimMade
      <4>3. QED
        BY <1>1, <1>2, <2>1, <3>3, <4>1, <4>2 DEF ProgramsOK, Claim
    <3>6. Writes(p, output)
      BY <1>2, <1>3, <2>3
    <3>7. QED
      BY <1>2, <3>1, <3>2, <3>3, <3>4, <3>5, <3>6, ToolFiles
  <2>4. QED
    BY <1>9, <2>2, <2>3 DEF codesign
<1>10. CASE tool_available(p)
  <2>1. r.linked = FALSE /\ Touches(output) /\ host.platform = "windows"
    BY <1>1, <1>2, <1>3, <1>10 DEF tool_available, At, AnswersOK, Keeps
  <2>2. QED
    BY <1>5, <1>10, <2>1 DEF tool_available
<1>11. CASE ml(p)
  <2>1. r.linked = FALSE /\ host.platform = "windows"
    BY <1>1, <1>2, <1>11 DEF ml, At, AnswersOK
  <2>2. Touches(object)
    BY <1>3, <1>11 DEF ml
  <2>3. QED
    BY <1>5, <1>11, <2>1, <2>2 DEF ml
<1>12. CASE link(p)
  <2>1. r.pc = "linker" /\ host.platform = "windows"
    BY <1>1, <1>12 DEF link, At, AnswersOK
  <2>2. CASE disk' = With(output, Content("program", Stored(object).text)) /\ Tried(p, "object", TRUE)
    <3>1. Stored(object).text = r.text.text
      BY <1>1, <2>1 DEF Links, Content
    <3>2. QED
      BY <1>6, <1>7, <2>1, <2>2, <3>1
  <2>3. CASE disk' \in {disk, Without(output)} /\ Tried(p, "object", FALSE)
    BY <1>3, <1>5, <2>1, <2>3
  <2>4. QED
    BY <1>12, <2>2, <2>3 DEF link
<1>13. CASE remove_object(p)
  <2>1. r.pc = "object" /\ Touches(object) /\ Goes(p, "tried")
    BY <1>13, Removed DEF remove_object, At
  <2>2. PICK s : Becomes(p, s) /\ Same(r, s) /\ s.pc = "tried" /\ s.linked = r.linked
    BY <2>1, GoesEntry
  <2>3. s.pc \in Toolchain /\ Stays(p, s) /\ Writes(p, object)
    BY <1>2, <1>3, <2>1, <2>2 DEF Toolchain, Stays, Same
  <2>4. PICK n : n = r.index
    OBVIOUS
  <2>5. ASSUME NEW content, content = Finished(r.text.text), s.linked PROVE Claim(p, n, content)'
    <3>1. Claim(p, n, content)
      BY <1>1, <2>1, <2>2, <2>4, <2>5 DEF ProgramsOK
    <3>2. QED
      BY <1>2, <2>2, <2>3, <2>4, <3>1, ClaimStays
  <2>6. QED
    BY <1>2, <2>2, <2>3, <2>4, <2>5, ToolFiles
<1>14. QED
  BY <1>8, <1>9, <1>10, <1>11, <1>12, <1>13

LEMMA RemoveFiles ==
    ASSUME DriverInv, FilesInv, NEW p \in Processes, remove_temp(p)
    PROVE  FilesInv'
<1> DEFINE r == run[p]
<1>1. r.pc = "tried" /\ r.pc \in Toolchain /\ Touches(r.temp)
  BY Removed DEF remove_temp, At, Toolchain
<1>2. r.pc \in WithOutput /\ ~Faulty(r, r.text) /\ ~Named(r.temp) /\ Writes(p, r.temp)
  BY <1>1, ToolWrites
<1>3. CASE r.linked
  <2>1. Answered(p, "linked")
    BY <1>3 DEF remove_temp
  <2>2. QED
    BY <1>1, <1>2, <1>3, <2>1, AnswerFiles DEF Whats
<1>4. CASE ~r.linked
  <2>1. Answered(p, "failed")
    BY <1>4 DEF remove_temp
  <2>2. QED
    BY <1>1, <1>2, <2>1, AnswerFiles DEF Whats
<1>5. QED
  BY <1>3, <1>4

LEMMA FilesInvInit == Init => FilesInv
<1> SUFFICES ASSUME Init PROVE FilesInv
  OBVIOUS
<1>1. ASSUME NEW p \in Processes PROVE AnswersOK(run[p]) /\ ProgramsOK(p)
  <2>1. run[p] = Started
    BY DEF Init
  <2>2. /\ Started.pc = "arguments" /\ Started.index = 1 /\ Started.files = <<>>
        /\ Started.answers = <<>> /\ Started.linked = FALSE
    BY DEF Started
  <2>3. /\ <<>> \in Seq([what : Whats, text : Contents]) /\ Len(<<>>) = 0 /\ DOMAIN <<>> = {}
    BY EmptySeq
  <2>4. run[p].answers \in Seq([what : Whats, text : Contents]) /\ Len(run[p].answers) = 0
        /\ DOMAIN run[p].answers = {} /\ Len(run[p].files) = 0
    BY <2>1, <2>2, <2>3
  <2>5. QED
    <3>1. run[p].pc = "arguments" /\ run[p].pc \notin WithOutput /\ run[p].pc \notin Toolchain
      BY <2>1, <2>2 DEF WithOutput, Toolchain
    <3>2. run[p].linked \in BOOLEAN /\ ~run[p].linked
      BY <2>1, <2>2, Zenon
    <3>3. Len(run[p].answers) = run[p].index - 1 /\ Len(run[p].answers) <= Len(run[p].files)
      <4>1. run[p].index = 1
        BY <2>1, <2>2, Zenon
      <4>2. QED
        BY <2>4, <4>1
    <3>4. AnswersOK(run[p])
      BY <2>4, <3>1, <3>2, <3>3 DEF AnswersOK
    <3>5. ProgramsOK(p)
      BY <2>4, <3>1, <3>2 DEF ProgramsOK
    <3>6. QED
      BY <3>4, <3>5
<1>2. \A path : Stored(path) = Original(path)
  BY DEF Init, Stored, Original
<1>3. QED
  BY <1>1, <1>2 DEF FilesInv

LEMMA FilesInvNext == DriverInv /\ DriverInv' /\ FilesInv /\ [Next]_vars => FilesInv'
<1> SUFFICES ASSUME DriverInv, DriverInv', FilesInv, [Next]_vars PROVE FilesInv'
  OBVIOUS
<1>1. ASSUME NEW p \in Processes, main(p) PROVE FilesInv'
  <2>1. CASE argument(p) \/ check_options(p)
    BY <2>1, ArgumentFiles
  <2>2. CASE compile(p)
    BY <2>2, CompileFiles
  <2>3. CASE refuse(p) \/ show_code(p) \/ refuse_target(p) \/ emit_assembly(p)
    BY <2>3, CompiledFiles
  <2>4. CASE write_temp(p)
    BY <2>4, WriteFiles
  <2>5. CASE cc(p) \/ codesign(p) \/ tool_available(p) \/ ml(p) \/ link(p) \/ remove_object(p)
    BY <2>5, ToolsFiles
  <2>6. CASE remove_temp(p)
    BY <2>6, RemoveFiles
  <2>7. QED
    BY <1>1, <2>1, <2>2, <2>3, <2>4, <2>5, <2>6 DEF main
<1>2. ASSUME NEW p \in Processes, killed(p) PROVE FilesInv'
  BY <1>2, EndFiles DEF killed
<1>3. CASE UNCHANGED vars
  <2>1. run' = run /\ disk' = disk /\ host' = host
    BY <1>3 DEF vars
  <2>2. \A p \in Processes : AnswersOK(run[p])'
    BY <2>1, AnswersStay DEF FilesInv
  <2>3. \A r, k : OutputOf(r, k)' = OutputOf(r, k)
    BY <2>1 DEF OutputOf
  <2>4. ASSUME NEW p \in Processes PROVE ProgramsOK(p)'
    <3>1. ProgramsOK(p)
      BY DEF FilesInv
    <3>2. ASSUME NEW k, NEW content, Claim(p, k, content) PROVE Claim(p, k, content)'
      BY <2>1, <2>3, <3>2 DEF Claim, Rival, Settled, Stored, OutputOf
    <3>3. \A text : Finished(text)' = Finished(text)
      BY <2>1 DEF Finished
    <3>4. QED
      BY <2>1, <3>1, <3>2, <3>3 DEF ProgramsOK
  <2>5. QED
    BY <2>1, <2>2, <2>3, <2>4 DEF FilesInv, Stored, Original, Wrote, Settled, Named, Path, OutputOf
<1>4. QED
  BY <1>1, <1>2, <1>3 DEF Next

(* What becomes of a file does not depend on the other files of the        *)
(* command line, or on the other runs, unless they share its output.       *)
THEOREM EveryFileForItself == Spec => []FilesAreIndependent
<1>1. DriverInv /\ FilesInv => FilesAreIndependent
  <2> SUFFICES ASSUME DriverInv, FilesInv, NEW p \in Processes, NEW k \in DOMAIN run[p].answers
               PROVE  LET r      == run[p]
                          answer == r.answers[k]
                          output == OutputOf(r, k)
                      IN  /\ answer.what = "refused" <=>
                                (r.options.assembly \/ generateExecutable(r)) /\ ErrorsIn(answer.text) > 0
                          /\ answer.what = "linked" /\ ~Shared(<<p, k>>) =>
                                Stored(output) = Finished(answer.text.text)
                          /\ answer.what = "refused" /\ ~Shared(<<p, k>>) => Stored(output) = Original(output)
    BY DEF FilesAreIndependent, Original
  <2> DEFINE r      == run[p]
             output == OutputOf(r, k)
  <2>1. AnswersOK(r) /\ ProgramsOK(p)
    BY DEF FilesInv
  <2>2. k \in DOMAIN r.files /\ k \in 1 .. r.index - 1 /\ r.index \in Nat
    BY AnswersFacts
  <2>3. ASSUME NEW q \in Processes, NEW j \in DOMAIN run[q].files, q # p \/ j # k,
               OutputOf(run[q], j) = output
        PROVE  Shared(<<p, k>>)
    <3>1. <<q, j>> \in Jobs \ {<<p, k>>}
      BY <2>3 DEF Jobs
    <3>2. <<q, j>>[1] = q /\ <<q, j>>[2] = j /\ <<p, k>>[1] = p /\ <<p, k>>[2] = k
      OBVIOUS
    <3>3. QED
      BY <2>3, <3>1, <3>2 DEF Shared
  <2>4. Rival(p, k) => Shared(<<p, k>>)
    BY <2>3 DEF Rival
  <2>5. ASSUME r.answers[k].what = "refused", ~Shared(<<p, k>>)
        PROVE  Stored(output) = Original(output)
    <3>1. Named(output)
      BY <2>2, OutputsAreNamed
    <3>2. ASSUME NEW q \in Processes, NEW j \in DOMAIN run[q].files,
                 Wrote(q, j), OutputOf(run[q], j) = output
          PROVE  FALSE
      <4>1. q = p /\ j = k
        BY <2>3, <2>5, <3>2
      <4>2. QED
        BY <2>2, <2>5, <3>2, <4>1 DEF Wrote
    <3>3. QED
      BY <3>1, <3>2 DEF FilesInv
  <2>6. QED
    BY <2>1, <2>4, <2>5 DEF AnswersOK, ProgramsOK, Claim, Faulty
<1>2. FilesInv /\ DriverInv /\ DriverInv' /\ [Next]_vars => FilesInv'
  BY FilesInvNext
<1>3. QED
  BY <1>1, <1>2, FilesInvInit, DriverInvHolds, PTL DEF Spec
=============================================================================
