------------------------------- MODULE HashTool -------------------------------
(***************************************************************************)
(* main.rs: the program that prints a hash of each image it is given, as a *)
(* caller of the disk that DeltaDisk specifies.                            *)
(*                                                                         *)
(* A hash is modelled by the bytes that went into it.  The program stops   *)
(* at the first image that cannot be opened or read; the hashes before it  *)
(* have been printed by then.                                              *)
(***************************************************************************)
EXTENDS DeltaDisk

CONSTANTS
  CommandLines,  \* the images that it may be given, none of them or several
  BufLen         \* the length of the buffer, 1048576

\* the images of the command lines
Given == UNION {{a[k] : k \in DOMAIN a} : a \in CommandLines}

\* arguments come in a sequence, as do the extents of a descriptor; numbers are
\* unsigned, and the buffer is not empty
ASSUME CommandLinesAssumption ==
  /\ SectorSize \in Nat /\ MaxDepth \in Nat \ {0} /\ BufLen \in Nat \ {0}
  /\ \A a \in CommandLines : a \in Seq({a[k] : k \in DOMAIN a})
  /\ \A d \in Given : \A f \in DOMAIN d.files :
       LET eds == d.files[f].desc.eds
       IN  /\ eds \in Seq({eds[j] : j \in DOMAIN eds})
           /\ \A j \in DOMAIN eds : eds[j].sectors \in Nat

VARIABLES
  args,     \* the images
  offset,   \* into the image that is being read
  hashed,   \* its bytes so far
  leave,    \* whether the loop has come to a break
  printed,  \* the hashes printed
  exit      \* "none", "success" or "failure"

toolVars == <<args, offset, hashed, leave, printed, exit>>
allVars == <<vars, toolVars>>

NoDisk == [top |-> NoParent]

\* VmdkReader::open(path.as_ref()) is the first thing done with an image
StartOn(d) ==
  /\ disk' = d
  /\ phase' = "opening" /\ req' = NoReq /\ ans' = NoAns
  /\ offset' = 0 /\ hashed' = <<>> /\ leave' = FALSE

ToolInit ==
  /\ args \in CommandLines
  /\ disk = IF args = <<>> THEN NoDisk ELSE args[1]
  /\ phase = "opening" /\ req = NoReq /\ ans = NoAns
  /\ offset = 0 /\ hashed = <<>> /\ leave = FALSE
  /\ printed = <<>>
  /\ exit = "none"

Working == exit = "none" /\ Len(printed) < Len(args)

OpenNext == Working /\ Open /\ UNCHANGED toolVars

InLoop == phase = "ready" /\ ~leave /\ offset < Size

\* a source may fail during any call
ReadTurn ==
  /\ Working /\ InLoop
  /\ \E faulty \in BOOLEAN : Call(offset, BufLen, faulty)
  /\ UNCHANGED toolVars

Answer == Working /\ (Reply \/ Fail) /\ UNCHANGED toolVars

\* a mistake in TakeBytes: the offset moves by the length of the buffer, and the
\* hash takes a buffer that is not full for a whole one
TakeFullBuffers ==
  /\ Working /\ phase = "answered" /\ ans.outcome = "bytes"
  /\ hashed' = IF Len(ans.bytes) = BufLen THEN hashed \o ans.bytes ELSE hashed
  /\ offset' = offset + BufLen
  /\ leave' = (ans.bytes = <<>>)
  /\ Forget
  /\ UNCHANGED <<args, printed, exit>>

\* another: the offset is left where it is
TakeWithoutOffset ==
  /\ Working /\ phase = "answered" /\ ans.outcome = "bytes"
  /\ hashed' = ans.bytes
  /\ leave' = (ans.bytes = <<>>)
  /\ Forget
  /\ UNCHANGED <<args, offset, printed, exit>>

\* a read that gives nothing ends the loop
TakeBytes ==
  /\ Working /\ phase = "answered" /\ ans.outcome = "bytes"
  /\ hashed' = hashed \o ans.bytes
  /\ offset' = offset + Len(ans.bytes)
  /\ leave' = (ans.bytes = <<>>)
  /\ Forget
  /\ UNCHANGED <<args, printed, exit>>

PrintHash ==
  /\ Working /\ phase = "ready" /\ ~InLoop
  /\ printed' = Append(printed, hashed)
  /\ IF Len(printed') < Len(args)
       THEN StartOn(args[Len(printed') + 1])
       ELSE UNCHANGED <<vars, offset, hashed, leave>>
  /\ UNCHANGED <<args, exit>>

\* the ? of VmdkReader::open, of read_at_offset and of do_hash
GiveUp ==
  /\ Working
  /\ phase = "failed" \/ (phase = "answered" /\ ans.outcome = "error")
  /\ exit' = "failure"
  /\ UNCHANGED <<vars, args, offset, hashed, leave, printed>>

Done ==
  /\ exit = "none" /\ ~Working
  /\ exit' = "success"
  /\ UNCHANGED <<vars, args, offset, hashed, leave, printed>>

ToolNext ==
  OpenNext \/ ReadTurn \/ Answer \/ TakeBytes \/ PrintHash \/ GiveUp \/ Done

\* the program runs on, and every call returns
ToolSpec == ToolInit /\ [][ToolNext]_allVars /\ WF_allVars(ToolNext)

-----------------------------------------------------------------------------
(***************************************************************************)
(* Properties.                                                             *)
(***************************************************************************)

Of(d) == INSTANCE DeltaDisk WITH disk <- d

\* A hash that is printed is that of all bytes of its image, from the first to the
\* last, whichever images were read before it, and all are printed when the program
\* succeeds: the last buffer of an image is not full, and nothing of an image goes
\* into the hash of the next.
WholeImagesPrinted ==
  /\ \A k \in DOMAIN printed :
       LET image == args[k]
       IN  printed[k] = [o \in 1 .. Of(image)!Size |-> Of(image)!Content(o - 1)]
  /\ exit = "success" => Len(printed) = Len(args)

\* The program ends: each turn of its loop gets on.
ToolEnds == <>(exit # "none")
=============================================================================
