------------------------ MODULE StatusComment_proofs -----------------------
(***************************************************************************)
(* Proofs about StatusComment, for any executors, page size and thread.    *)
(***************************************************************************)
EXTENDS StatusComment, TLAPS

USE ThreadAssumption

\* An executor about to post has no comment on the first page yet.
PostsItsFirst ==
  \A w \in Writer : step[w] = "listed" /\ found[w] = 0 =>
    \A i \in Shown : thread[i] # w

Inv == ThreadTypeOK /\ StacksNothing /\ PostsItsFirst

LEMMA InvInit == Init => Inv
  BY DEF Init, Inv, ThreadTypeOK, StacksNothing, PostsItsFirst, Shown

\* A comment more on the thread is the last one, whoever posts it.
LEMMA Appended ==
  ASSUME ThreadTypeOK, NEW who \in Writer \union {"somebody"},
         thread' = Append(thread, who)
  PROVE  /\ thread' \in Seq(Writer \union {"somebody"})
         /\ \A i \in Shown' : \/ i \in Shown /\ thread'[i] = thread[i]
                              \/ i = Len(thread) + 1 /\ thread'[i] = who /\ who # "somebody"
  BY DEF ThreadTypeOK, Shown

\* No step gives an executor a second comment on the first page.
LEMMA InvStep == Inv /\ [Next]_vars => Inv'
<1> SUFFICES ASSUME Inv, [Next]_vars
             PROVE  Inv'
  OBVIOUS
<1> USE DEF Inv
<1>1. CASE SomebodyComments
  <2>1. \A i \in Shown' : i \in Shown /\ thread'[i] = thread[i]
    BY <1>1, Appended DEF SomebodyComments
  <2> QED
    BY <1>1, <2>1, Appended
       DEF SomebodyComments, ThreadTypeOK, StacksNothing, PostsItsFirst
<1>2. ASSUME NEW w \in Writer, List(w)
      PROVE  Inv'
  <2>0. PICK n \in Nat : found' = [found EXCEPT ![w] = n]
    <3>1. Shown \subseteq Nat
      BY DEF Shown, ThreadTypeOK
    <3> QED
      BY <1>2, <3>1 DEF List
  <2>1. ThreadTypeOK'
    BY <1>2, <2>0 DEF List, ThreadTypeOK
  <2>2. Shown' = Shown /\ thread' = thread
    BY <1>2 DEF List, Shown
  <2>3. found'[w] = 0 => Shown = {}
    BY <1>2 DEF List, ThreadTypeOK, Shown
  <2>4. \A v \in Writer \ {w} : step'[v] = step[v] /\ found'[v] = found[v]
    BY <1>2 DEF List, ThreadTypeOK
  <2> QED
    BY <2>1, <2>2, <2>3, <2>4 DEF StacksNothing, PostsItsFirst
<1>3. ASSUME NEW w \in Writer, Update(w) \/ GiveUp(w)
      PROVE  Inv'
  BY <1>3 DEF Update, GiveUp, ThreadTypeOK, StacksNothing, PostsItsFirst, Shown
<1>4. ASSUME NEW w \in Writer, Post(w)
      PROVE  Inv'
  <2>1. /\ thread' \in Seq(Writer \union {"somebody"})
        /\ \A i \in Shown' : \/ i \in Shown /\ thread'[i] = thread[i]
                             \/ i = Len(thread) + 1 /\ thread'[i] = w
    BY <1>4, Appended DEF Post
  <2>2. ThreadTypeOK'
    BY <1>4, <2>1 DEF Post, ThreadTypeOK
  <2>3. \A i \in Shown : thread[i] # w
    BY <1>4 DEF Post, PostsItsFirst
  <2>4. StacksNothing'
    BY <2>1, <2>3 DEF StacksNothing
  <2>5. PostsItsFirst'
    BY <1>4, <2>1 DEF Post, PostsItsFirst, ThreadTypeOK
  <2> QED
    BY <2>2, <2>4, <2>5
<1>5. CASE UNCHANGED vars
  BY <1>5 DEF vars, ThreadTypeOK, StacksNothing, PostsItsFirst, Shown
<1> QED
  BY <1>1, <1>2, <1>3, <1>4, <1>5 DEF Next

\* status_comment.rs, upsert: for any number of executors, any page size and any
\* overlap of upserts, no executor has two status comments on the first page.
THEOREM StacksNothingHolds == Spec => []StacksNothing
<1>1. Inv => StacksNothing
  BY DEF Inv
<1> QED
  BY <1>1, InvInit, InvStep, PTL DEF Spec
=============================================================================
