------------------------------ MODULE RingCursor ------------------------------
(***************************************************************************)
(* Cursor arithmetic of SendQueue and ReceiveBuffer.  A cursor is its      *)
(* offset from m_pBufferBegin; the ring has `size` entries of which one is *)
(* always free, so equal cursors mean an empty ring.                       *)
(***************************************************************************)
EXTENDS Integers

\* ComputeAdvancedCursorPos.
Advance(cursor, n, size) == IF cursor + n >= size THEN cursor + n - size ELSE cursor + n

\* Mutant: the write cursor behind the read cursor is not unwrapped.
UsedUnwrapped(rd, wr, size) == IF wr < rd THEN rd - wr ELSE wr - rd

\* Mutant: one turn is one entry short.
UsedShortTurn(rd, wr, size) == (IF wr < rd THEN wr + size - 1 ELSE wr) - rd

\* Size(): a write cursor behind the read cursor is taken one turn ahead.
Used(rd, wr, size) == (IF wr < rd THEN wr + size ELSE wr) - rd

\* Full(): the write cursor must not reach the read cursor.
IsFull(rd, wr, size) == Advance(wr, 1, size) = rd

\* The read cursor as GetWritableArea sees it: at the beginning, it limits the writer at the end.
VirtualRead(rd, size) == IF rd = 0 THEN size ELSE rd

\* Mutant: no entry is kept free in front of the read cursor.
WritableToCursor(rd, wr, size) ==
  LET vrd == VirtualRead(rd, size) IN
  IF wr < vrd
    THEN [contiguous |-> vrd - wr, wrap |-> 0]
    ELSE [contiguous |-> size - wr, wrap |-> vrd]

\* GetWritableArea: the bytes from the write cursor to the end or to the read cursor, then those
\* from the beginning to the read cursor.
WritableArea(rd, wr, size) ==
  LET vrd == VirtualRead(rd, size) IN
  IF wr < vrd
    THEN [contiguous |-> vrd - wr - 1, wrap |-> 0]
    ELSE [contiguous |-> size - wr, wrap |-> vrd - 1]
====
