--------------------------------- MODULE Queues --------------------------------
(* The FIFO of an asyncio.Lock: who waits for it, behind who has it.           *)
EXTENDS Naturals, Sequences

\* The tasks in cancelled leave the queue, the others keep their order.
Remaining(queue, cancelled) ==
    LET kept[i \in 0..Len(queue)] ==
          IF i = 0 THEN <<>>
          ELSE IF queue[i] \in cancelled THEN kept[i - 1]
          ELSE Append(kept[i - 1], queue[i])
    IN  kept[Len(queue)]

================================================================================
