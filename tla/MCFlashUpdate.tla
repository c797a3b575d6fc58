----------------------------- MODULE MCFlashUpdate -----------------------------
(* Boards for FlashUpdate.  As on the Alveo boards, the segments meet at a    *)
(* boundary of small blocks that is none of large ones.                       *)
EXTENDS FlashUpdate

MCBoard ==
  {[kind |-> "spi",  configuration |-> 2, segment0 |-> 4],
   [kind |-> "spi",  configuration |-> 4, segment0 |-> 0],
   [kind |-> "dual", configuration |-> 2, segment0 |-> 8],
   [kind |-> "bpi",  configuration |-> 2, segment0 |-> 0],
   [kind |-> "bpi",  configuration |-> 1, segment0 |-> 0]}
===============================================================================
