------------------------------ MODULE Cursor ------------------------------
(***************************************************************************)
(* The own cursor of an interactive editor.  It is an atomic integer, a     *)
(* position in a text that two threads change: the event handler of         *)
(* editor_ui.cpp, which reads text and cursor, edits and sets the cursor in *)
(* separate steps, and the CRDT thread, which applies operations under      *)
(* crdtMutex_ and moves the cursor after it has released it.                *)
(*                                                                         *)
(* Where an arrow key leads depends on the ends of lines, which are left    *)
(* out: it may lead to any place of the text that was read, or nowhere.     *)
(* So is the wrapping of lines of MAX_LINE_WIDTH.  Packets of CursorSync    *)
(* are followed as far as the socket.                                      *)
(***************************************************************************)
EXTENDS Replication

CONSTANT User  \* the site whose editor is interactive

ASSUME UserAssumption == User \in Sites

VARIABLES
  cursor,     \* cursorPos
  told,       \* the position broadcast last
  handler,    \* the event handler: where it is and what it has read
  callbacks,  \* what crdtLoop has still to hand to onRemoteOp_
  behind,     \* history: the characters in front of the cursor when the
  ahead,      \*   handler placed it, and those after it
  drifted     \* history: a known reason has moved the cursor off since

cursorVars == <<cursor, told, handler, callbacks, behind, ahead, drifted>>

Text == GetDocument(crdt[User].seq)

\* doc.size()
Size == Cardinality(VisiblePlaces(crdt[User].seq))

Idle == [at |-> "idle"]

CursorInit ==
  /\ Init
  /\ cursor = 0 /\ told = 0
  /\ handler = Idle
  /\ callbacks = <<>>
  /\ behind = {} /\ ahead = {} /\ drifted = FALSE

-----------------------------------------------------------------------------
(* The event handler.  It is raced when the CRDT thread applies an          *)
(* operation, or has a callback to run, between its first step and its      *)
(* last.                                                                   *)

Keys == {"Move", "Backspace", "Delete", "Insert"}

\* getDocument
KeyEvent(key) ==
  /\ handler = Idle
  /\ handler' = [at |-> "read", key |-> key, len |-> Size, pos |-> 0,
                 raced |-> callbacks # <<>>]
  /\ UNCHANGED <<vars, cursor, told, callbacks, behind, ahead, drifted>>

\* Mutant of ReadPos: a position past the end of the text is taken as it is.
ReadPos_Unclamped == cursor

ReadPos == IF cursor < handler.len THEN cursor ELSE handler.len

ReadCursor ==
  /\ handler.at = "read"
  /\ LET pos == ReadPos
         Edits(guard) == handler' = IF guard THEN [handler EXCEPT !.at = "edit", !.pos = pos]
                                    ELSE Idle
     IN \/ /\ handler.key = "Move"
           /\ \/ handler' = Idle
              \/ \E p \in 0 .. handler.len : handler' = [handler EXCEPT !.at = "set", !.pos = p]
        \/ handler.key = "Backspace" /\ Edits(pos > 0)
        \/ handler.key = "Delete" /\ Edits(pos < handler.len)
        \/ handler.key = "Insert" /\ Edits(TRUE)
  /\ UNCHANGED <<vars, cursor, told, callbacks, behind, ahead, drifted>>

Keep == UNCHANGED <<cursor, told, callbacks, behind, ahead>>

TypeChar ==
  /\ handler.at = "edit" /\ handler.key = "Insert"
  /\ Insert(User, handler.pos)
  /\ handler' = [handler EXCEPT !.at = "set", !.pos = @ + 1]
  /\ Keep /\ UNCHANGED drifted

BackspaceChar ==
  /\ handler.at = "edit" /\ handler.key = "Backspace"
  /\ Delete(User, handler.pos - 1)
  /\ handler' = [handler EXCEPT !.at = "set", !.pos = @ - 1]
  /\ Keep /\ UNCHANGED drifted

DeleteChar ==
  /\ handler.at = "edit" /\ handler.key = "Delete"
  /\ Delete(User, handler.pos)
  /\ handler' = Idle
  /\ drifted' = (drifted \/ handler.raced)
  /\ Keep

\* localDelete throws, and the exception leaves the screen's loop and main.
HandlerThrows ==
  /\ handler.at = "edit"
  /\ \/ handler.key = "Backspace" /\ DeleteOutOfRange(User, handler.pos - 1)
     \/ handler.key = "Delete" /\ DeleteOutOfRange(User, handler.pos)
  /\ handler' = [handler EXCEPT !.at = "dead"]
  /\ Keep /\ UNCHANGED drifted

\* setPos: the store, then the broadcast.
SetPos ==
  /\ handler.at = "set"
  /\ cursor' = handler.pos
  /\ handler' = [handler EXCEPT !.at = "tell"]
  /\ behind' = {Text[i] : i \in {j \in DOMAIN Text : j <= handler.pos}}
  /\ ahead' = Range(Text) \ behind'
  /\ UNCHANGED <<vars, told, callbacks, drifted>>

BroadcastPos ==
  /\ handler.at = "tell"
  /\ told' = handler.pos
  /\ handler' = Idle
  /\ drifted' = handler.raced
  /\ UNCHANGED <<vars, cursor, callbacks, behind, ahead>>

-----------------------------------------------------------------------------
(* The CRDT thread.                                                        *)

VisibleOffsetOf(seq, id) == IF id \in Ids(seq) THEN VisibleBefore(seq, Idx(seq, id)) ELSE -1

Notes == [type : {"INSERT", "DELETE"}, offset : Int, moved : BOOLEAN, again : BOOLEAN]

\* What crdtLoop notes of an operation that took the engine from e to new.
Note(op, e, new) ==
  [type |-> op.type, offset |-> VisibleOffsetOf(new.seq, op.id), moved |-> FALSE,
   again |-> GetDocument(e.seq) = GetDocument(new.seq)]

\* The operations that drainPending applies, in their order.
NotedStep == [x \in Scan \X Seq(Notes) |->
  LET d == x[1]  next == ScanStep[d] IN
  IF Len(next.pending) < Len(d.pending)
  THEN <<next, Append(x[2], Note(d.pending[d.at], d.crdt, next.crdt))>>
  ELSE <<next, x[2]>>]

DrainNotes(e, queue, done) ==
  LET scan[n \in Nat] ==
        IF n = 0 THEN <<StartScan(e, queue, done), <<>> >> ELSE NotedStep[scan[n - 1]]
  IN  scan[(Len(queue) + 1) * (Len(queue) + 1)][2]

Alive == handler.at # "dead"

ReceiveRemote ==
  /\ Alive /\ callbacks = <<>>
  /\ \E op \in BagToSet(net[User]) :
       LET new == ApplyRemote(crdt[User], op) IN
       /\ Arrives(User, op)
       /\ \/ Park(User, op) /\ UNCHANGED <<callbacks, handler>>
          \/ /\ Apply(User, op)
             /\ callbacks' = <<Note(op, crdt[User], new)>> \o DrainNotes(new, pending[User], {op})
             /\ handler' = IF handler = Idle THEN Idle ELSE [handler EXCEPT !.raced = TRUE]
  /\ UNCHANGED <<cursor, told, behind, ahead, drifted>>

\* Mutant of Shifted: what comes in right at the cursor moves it too.
Shifted_AtCursor(note) ==
  IF note.offset > cursor THEN cursor
  ELSE IF note.type = "INSERT" THEN cursor + 1 ELSE cursor - 1

Shifted(note) ==
  IF note.offset >= cursor THEN cursor
  ELSE IF note.type = "INSERT" THEN cursor + 1 ELSE cursor - 1

\* The loop of compare_exchange_weak takes effect at once.
MoveCursor ==
  /\ Alive /\ callbacks # <<>> /\ ~Head(callbacks).moved
  /\ LET note == Head(callbacks) IN
     IF note.offset < 0
     THEN callbacks' = Tail(callbacks) /\ UNCHANGED <<cursor, drifted>>
     ELSE /\ callbacks' = [callbacks EXCEPT ![1].moved = TRUE]
          /\ cursor' = Shifted(note)
          /\ drifted' = (drifted \/ (note.again /\ cursor' # cursor))
  /\ UNCHANGED <<vars, told, handler, behind, ahead>>

TellCursor ==
  /\ Alive /\ callbacks # <<>> /\ Head(callbacks).moved
  /\ told' = cursor
  /\ callbacks' = Tail(callbacks)
  /\ UNCHANGED <<vars, cursor, handler, behind, ahead, drifted>>

-----------------------------------------------------------------------------
\* The other editors, whose cursors are not followed.
Others ==
  /\ \E s \in Sites \ {User} :
       \/ \E pos \in Positions(s) : Insert(s, pos) \/ Delete(s, pos)
       \/ Receive(s)
  /\ UNCHANGED cursorVars

CursorNext ==
  \/ \E key \in Keys : KeyEvent(key)
  \/ ReadCursor
  \/ TypeChar \/ BackspaceChar \/ DeleteChar \/ HandlerThrows
  \/ SetPos \/ BroadcastPos
  \/ ReceiveRemote \/ MoveCursor \/ TellCursor
  \/ Others

CursorSpec == CursorInit /\ [][CursorNext]_<<vars, cursorVars>>

-----------------------------------------------------------------------------
\* At rest the cursor stands between the characters it was placed between,
\* as far as they are still there, the peers have been told, and it is within
\* the text (ARCHITECTURE.md:169: "adjusted (+1 or -1) to keep it pointed at
\* the same character").  Only three things move it off: a handler that was
\* raced, a datagram that came twice, and a character both sides deleted.
\* The next key that sets the cursor undisturbed puts it right again.
CursorKeepsPlace ==
  handler = Idle /\ callbacks = <<>> /\ ~drifted =>
    /\ told = cursor
    /\ cursor <= Size
    /\ \A i \in DOMAIN Text :
         /\ Text[i] \in behind => i <= cursor
         /\ Text[i] \in ahead => i > cursor

\* A key kills the editor (localDelete throws, editor_ui.cpp:287 and 295) only
\* when the CRDT thread has come in between its reading and its editing; a
\* cursor that has drifted past the end does not.
DiesOfRaceOnly == handler.at = "dead" => handler.raced
=============================================================================
