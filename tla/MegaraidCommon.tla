--------------------------- MODULE MegaraidCommon ---------------------------
(***************************************************************************)
(* megaraid_common.h: the helpers every tool shares.  Nothing here has     *)
(* state.  A command line argument is abstracted to what strtol() can tell *)
(* about it: whether it starts with a number, which one, and whether       *)
(* anything follows the number.                                            *)
(***************************************************************************)
EXTENDS Integers, Sequences

CONSTANTS
  IntMax,    \* INT_MAX
  LongMax    \* LONG_MAX; strtol() saturates here and sets errno

U32Max == 2 * IntMax + 1   \* 0xFFFFFFFF, READ CAPACITY(10)'s saturation marker

ASSUME WordSizes ==
  /\ IntMax \in Nat /\ LongMax \in Nat
  /\ 16777215 <= IntMax /\ U32Max <= LongMax

Byte == {n \in Nat : n < 256}

(* An argument as typed.  value means nothing unless digits is TRUE.       *)
Texts == [digits : BOOLEAN, value : Int, tail : BOOLEAN]

(* What printf("%d", n) writes for a number, read back as an argument.     *)
Decimal(n) == [digits |-> TRUE, value |-> n, tail |-> FALSE]

(* strtol() and strtoll(): the number (0 if there is none, saturated if it *)
(* does not fit) and whether errno, *end or end = s betray a bad argument. *)
strtol(s) ==
  LET fits == -LongMax - 1 <= s.value /\ s.value <= LongMax
  IN  [v     |-> IF ~s.digits THEN 0
                 ELSE IF fits THEN s.value
                 ELSE IF s.value > 0 THEN LongMax ELSE -LongMax - 1,
       clean |-> s.digits /\ ~s.tail /\ fits]

parse_target(s) ==
  LET r == strtol(s)
  IN  IF r.clean /\ r.v >= 0 /\ r.v <= 255 THEN r.v ELSE -1

parse_block_size(s) ==
  LET r == strtol(s)
  IN  IF r.clean /\ r.v >= 1 /\ r.v <= 16777215 THEN r.v ELSE -1

(* Bytes 9-11 of the MODE SELECT(6) parameter list.  A slip for the runs   *)
(* to catch: written one byte too early.                                   *)
set_mode_sel_block_length_Early(n) ==
  <<(n \div 256) % 256, n % 256, 0>>

set_mode_sel_block_length(n) ==
  <<(n \div 65536) % 256, (n \div 256) % 256, n % 256>>

(***************************************************************************)
(* One passthrough command.  The driver either rejects the ioctl or        *)
(* completes it, and a completion may leave cmd_status unwritten.          *)
(***************************************************************************)
Unwritten == -1

IoctlError  == [ioctl |-> -1, cmd_status |-> Unwritten]
NoStatus    == [ioctl |-> 0,  cmd_status |-> Unwritten]
ScsiFailed  == [ioctl |-> 0,  cmd_status |-> 69]      \* 0x45, MFI_STAT_SCSI_IO_FAILED
Good        == [ioctl |-> 0,  cmd_status |-> 0]

FailedReplies == {IoctlError, NoStatus, ScsiFailed}
Replies       == FailedReplies \cup {Good}

(* A slip for the runs to catch: cmd_status preset to 0.                   *)
send_cmd_ZeroPreset(reply) ==
  IF reply.ioctl < 0 THEN -1
  ELSE IF reply.cmd_status = Unwritten THEN 0
  ELSE reply.cmd_status

(* The frame is sent with cmd_status preset to 0xFF, so a completion that  *)
(* wrote nothing does not read as success, and a rejected ioctl is -1,     *)
(* which no status byte equals.                                            *)
send_cmd(reply) ==
  IF reply.ioctl < 0 THEN -1
  ELSE IF reply.cmd_status = Unwritten THEN 255
  ELSE reply.cmd_status

(* How every caller reads it.  A slip for the runs to catch: a rejected    *)
(* ioctl, being negative, passes for success.                              *)
Succeeded_Sign(reply) == send_cmd(reply) <= 0
Succeeded(reply)      == send_cmd(reply) = 0
=============================================================================
