------------------------------ MODULE HostsFile ------------------------------
(***************************************************************************)
(* `entra-local hosts [--apply] [--remove]` (cli/hosts.ts) and the file it *)
(* edits, which others edit too.  The command reads the file, computes the *)
(* new text and writes the whole of it back: nothing locks the file, the   *)
(* write truncates before it writes, and a file that cannot be read is     *)
(* taken for an empty one.                                                 *)
(*                                                                         *)
(* The file is a sequence of lines: the users' own (Lines), the markers,   *)
(* and the entries of one block, which are one element: the set of names   *)
(* they map to 127.0.0.1.  Blank lines are left out, and the file of a     *)
(* user ends its lines and holds no marker.                                *)
(***************************************************************************)
EXTENDS Naturals, Sequences, FiniteSets, FiniteSetsExt

CONSTANTS
    Procs,       \* shells the command can be run from
    Lines,       \* lines of other owners
    FirstLines,  \* the file before anything happens: a sequence over Lines
    BEGIN, END,  \* the markers of the managed block
    Unread,      \* what a failed read leaves: the command goes on with ''
    MaxCommands, \* bound: commands that are run
    MaxEdits,    \* bound: lines that their owners put in or take out
    MaxTorn      \* bound: writes that stop half way

ASSUME HostsFileAssumption ==
    /\ FirstLines \in Seq(Lines)
    /\ BEGIN # END
    /\ {BEGIN, END} \cap Lines = {}
    /\ MaxCommands \in Nat /\ MaxEdits \in Nat /\ MaxTorn \in Nat

VARIABLES
    file,    \* the hosts file
    cmd,     \* [Procs -> the command that runs there]
    own,     \* the lines whose owners want them in the file
    excused, \* witness: the lines something happened to that no command answers for
    torn,    \* witness: how many writes stopped half way
    applied, \* witness: the names of the apply that wrote last, while nothing wrote since
    commands, edits

hosts == <<file, cmd, own, excused, torn, applied, commands, edits>>

NoCommand == [step |-> "idle"]

(* The place of the first marker m in f from position a on; 0 where there is none. *)
FirstFrom(f, m, a) ==
    LET places == {i \in a..Len(f) : f[i] = m}
    IN  IF places = {} THEN 0 ELSE Min(places)

\* Mutated: everything after the block goes with it.
Strip_Tail(f) ==
    LET b == FirstFrom(f, BEGIN, 1)
    IN  IF b = 0 THEN f ELSE SubSeq(f, 1, b - 1)

(* What is left of f without its elements from a to b. *)
Without(f, a, b) == SubSeq(f, 1, a - 1) \o SubSeq(f, b + 1, Len(f))

(* stripManagedBlock: from the first BEGIN to the first END after it.  A block that has lost
   its END stays where it is. *)
Strip(f) ==
    LET b == FirstFrom(f, BEGIN, 1)
        e == FirstFrom(f, END, b)
    IN  IF b = 0 \/ e = 0 THEN f ELSE Without(f, b, e)

Block(names) == <<BEGIN, names, END>>

\* Mutated: the previous block stays.
NewContent_Appends(f, names, action) ==
    IF action = "remove" \/ names = {} THEN Strip(f) ELSE f \o Block(names)

(* applyHostsContent: any previous block goes, and apply appends a fresh one. *)
NewContent(f, names, action) ==
    IF action = "remove" \/ names = {} THEN Strip(f) ELSE Strip(f) \o Block(names)

LinesOf(f) == {l \in Lines : \E i \in DOMAIN f : f[i] = l}

(* The names the file maps: its entries count wherever they stand. *)
Mapped(f) == UNION {f[i] : i \in {j \in DOMAIN f : f[j] \notin Lines \cup {BEGIN, END}}}

-----------------------------------------------------------------------------
(* runHosts up to the read; an apply with nothing to map returns before it. *)
Command(p, action, names, readable) ==
    /\ cmd[p] = NoCommand
    /\ commands < MaxCommands
    /\ action = "apply" => names # {}
    /\ cmd' = [cmd EXCEPT ![p] = [step |-> "read", action |-> action, names |-> names,
                                  text |-> IF readable THEN file ELSE Unread]]
    /\ commands' = commands + 1
    /\ UNCHANGED <<file, own, excused, torn, applied, edits>>

Updated(p) ==
    LET existing == IF cmd[p].text = Unread THEN <<>> ELSE cmd[p].text
    IN  NewContent(existing, cmd[p].names, cmd[p].action)

(* Without --apply the plan is printed and nothing is written; a write that is denied leaves the
   file alone and ends the command with a HostsError. *)
NothingWritten(p) ==
    /\ cmd[p] # NoCommand
    /\ cmd' = [cmd EXCEPT ![p] = NoCommand]
    /\ UNCHANGED <<file, own, excused, torn, applied, commands, edits>>

Write(p) ==
    /\ cmd[p] # NoCommand
    /\ file' = Updated(p)
    /\ cmd' = [cmd EXCEPT ![p] = NoCommand]
    /\ excused' = excused \cup (IF cmd[p].text = Unread THEN own ELSE {})
    /\ applied' = IF cmd[p].action = "apply" THEN cmd[p].names ELSE {}
    /\ UNCHANGED <<own, torn, commands, edits>>

(* writeFileSync truncates the file and is cut off: a full disk, a killed process.  The entries
   of the block are written or lost together. *)
TornWrite(p) ==
    /\ cmd[p] # NoCommand
    /\ torn < MaxTorn
    /\ \E kept \in 0..Len(Updated(p)) - 1 : file' = SubSeq(Updated(p), 1, kept)
    /\ cmd' = [cmd EXCEPT ![p] = NoCommand]
    /\ excused' = Lines
    /\ applied' = {}
    /\ torn' = torn + 1
    /\ UNCHANGED <<own, commands, edits>>

(* The owner of a line puts it in, before or after everything else, or takes it out.  While a
   command is between its read and its write, the write undoes that. *)
Excuse(l) == excused' = excused \cup (IF \E p \in Procs : cmd[p] # NoCommand THEN {l} ELSE {})

OwnerAdds(l, first) ==
    /\ edits < MaxEdits
    /\ l \notin own /\ l \notin LinesOf(file)
    /\ file' = IF first THEN <<l>> \o file ELSE Append(file, l)
    /\ own' = own \cup {l}
    /\ edits' = edits + 1
    /\ Excuse(l)
    /\ UNCHANGED <<cmd, torn, applied, commands>>

OwnerRemoves(l) ==
    /\ edits < MaxEdits
    /\ \E i \in DOMAIN file : file[i] = l /\ file' = Without(file, i, i)
    /\ own' = own \ ({l} \ LinesOf(file'))
    /\ edits' = edits + 1
    /\ Excuse(l)
    /\ UNCHANGED <<cmd, torn, applied, commands>>

HostsInit ==
    /\ file = FirstLines
    /\ cmd = [p \in Procs |-> NoCommand]
    /\ own = LinesOf(FirstLines)
    /\ excused = {} /\ torn = 0 /\ applied = {}
    /\ commands = 0 /\ edits = 0

(* One step of the command or of the owners; wanted are the names the command would map. *)
HostsStep(wanted) ==
    \/ \E p \in Procs :
        \/ \E action \in {"apply", "remove"}, readable \in BOOLEAN :
                Command(p, action, wanted, readable)
        \/ NothingWritten(p)
        \/ Write(p)
        \/ TornWrite(p)
    \/ \E l \in Lines :
        \/ \E first \in BOOLEAN : OwnerAdds(l, first)
        \/ OwnerRemoves(l)

-----------------------------------------------------------------------------
(* What may stand in a file is a line, a marker or a set of Names. *)
HostsTypeOK(Names) ==
    LET Files == Seq(Lines \cup {BEGIN, END} \cup SUBSET Names) IN
    /\ file \in Files
    /\ \A p \in Procs : cmd[p] = NoCommand \/ cmd[p].text \in Files \cup {Unread}
    /\ own \subseteq Lines /\ excused \subseteq Lines
    /\ applied \subseteq Names
    /\ torn \in 0..MaxTorn /\ commands \in 0..MaxCommands /\ edits \in 0..MaxEdits

(* Running the command never costs a user a line of the hosts file and never brings back one that
   was taken out, unless the file could not be read, a write was cut off, or the line was changed
   between the command's read and its write (cli/hosts.ts:153-172). *)
LinesKeptForCause ==
    \A l \in Lines \ excused : l \in own <=> l \in LinesOf(file)

(* Whatever the commands before did, applying once more maps every name that is wanted, and a
   further apply changes nothing: at once while no write was cut off, and after one run that
   clears the remains otherwise.  The last apply is in force until another command writes, and
   while no write was cut off remove leaves no entry of ours (cli/hosts.ts:74-102). *)
ConvergesTo(names) ==
    LET once == NewContent(file, names, "apply")
        twice == NewContent(once, names, "apply")
    IN  /\ applied \subseteq Mapped(file)
        /\ names \subseteq Mapped(once)
        /\ NewContent(twice, names, "apply") = twice
        /\ torn = 0 => twice = once /\ Mapped(Strip(file)) = {}
==============================================================================
