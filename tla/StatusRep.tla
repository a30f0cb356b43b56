----------------------------- MODULE StatusRep -----------------------------
(***************************************************************************)
(* Status (base/status): who owns the array behind state_.  A world holds  *)
(* some Status objects, `st`, each with the index of its array in `heap`   *)
(* or 0 for nullptr, and says of every array how often it was deleted.     *)
(* A message is its length.                                                *)
(***************************************************************************)
EXTENDS Integers, Sequences

kGuess == 2     \* the length the formatting constructor tries first (100 in the code)

NewArray(heap, code, len) == Append(heap, [code |-> code, len |-> len, deleted |-> 0])
Delete(heap, p) == IF p = 0 THEN heap ELSE [heap EXCEPT ![p].deleted = @ + 1]

(* A bug: the array is shared.                                             *)
CopyStateShared(w, p) == [heap |-> w.heap, p |-> p]

(* A null state_ stays null; another is copied (CopyState).                *)
CopyState(w, p) ==
    IF p = 0 THEN [heap |-> w.heap, p |-> 0]
    ELSE [heap |-> Append(w.heap, [w.heap[p] EXCEPT !.deleted = 0]), p |-> Len(w.heap) + 1]

(* x = Status(code, msg): the temporary gets what x had and takes it along.*)
AssignNew(w, x, heap) ==
    [st |-> [w.st EXCEPT ![x] = Len(heap)], heap |-> Delete(heap, w.st[x])]

(* The formatting constructor: an array of the guessed length, and one of  *)
(* the right length if that did not do.                                    *)
Formatted(w, code, len) ==
    IF len < kGuess THEN NewArray(w.heap, code, len)
    ELSE NewArray(Delete(NewArray(w.heap, code, 0), Len(w.heap) + 1), code, len)

(* operator=(const Status&): nothing when both are OK or the same object.  *)
CopyAssign(w, x, y) ==
    LET c == CopyState([w EXCEPT !.heap = Delete(@, w.st[x])], w.st[y]) IN
    IF w.st[x] = w.st[y] THEN w
    ELSE [st |-> [w.st EXCEPT ![x] = c.p], heap |-> c.heap]

(* operator=(Status&&) swaps.                                              *)
MoveAssign(w, x, y) == [w EXCEPT !.st = [@ EXCEPT ![x] = w.st[y], ![y] = w.st[x]]]

(* One operation on the objects x and y (in a constructor x is destroyed   *)
(* first, and it is not y).                                                *)
StatusOp(w, o) ==
    LET x == o.x
        y == o.y
        gone == Delete(w.heap, w.st[x])
        c == CopyState([w EXCEPT !.heap = gone], w.st[y]) IN
    CASE o.op = "assign error" -> AssignNew(w, x, NewArray(w.heap, o.code, o.len))
      [] o.op = "assign formatted" -> AssignNew(w, x, Formatted(w, o.code, o.len))
      [] o.op = "copy assign" -> CopyAssign(w, x, y)
      [] o.op = "move assign" -> MoveAssign(w, x, y)
      [] o.op = "copy" -> [st |-> [w.st EXCEPT ![x] = c.p], heap |-> c.heap]
      [] o.op = "move" -> [st |-> [w.st EXCEPT ![x] = w.st[y], ![y] = 0], heap |-> gone]
      [] o.op = "update" -> IF w.st[x] = 0 THEN CopyAssign(w, x, y) ELSE w
      [] o.op = "update by move" -> IF w.st[x] = 0 THEN MoveAssign(w, x, y) ELSE w
      [] o.op = "destroy" -> [st |-> [w.st EXCEPT ![x] = 0], heap |-> gone]
=============================================================================
