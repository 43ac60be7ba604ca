----------------------------- MODULE UriMachine -----------------------------
(***************************************************************************)
(* The machine of uri.rl.cc: one block for each stretch of the switch in       *)
(* Uri::Create, in the notation of HttpMachine, and the actions performed     *)
(* when the input ends in a state.                                            *)
(***************************************************************************)
EXTENDS UriGrammar

St451_Tr559 ==
  [tr |-> 467 :> Do(<<"marku", "save_query">>, 453) @@ 469 :> Do(<<"save_query">>, 453)
         @@ 474 :> Do(<<"markh", "save_host">>, 453) @@ 485 :> Do(<<"save_host">>, 453)
         @@ 489 :> Do(<<"markh", "save_port">>, 453) @@ 493 :> Do(<<"save_port">>, 453)
         @@ 548 :> Do(<<"markh", "save_host", "save_path">>, 453)
         @@ 559 :> Do(<<"save_host", "markh", "save_path">>, 453),
   st |-> 451 :> (((reg_char \ {"a", "v", "z"}) \cup {"@", "high"}) :> st(452)
                @@ alpha :> tr(461) @@ {"#"} :> st(453) @@ {"%"} :> st(3) @@ {"/"} :> st(458)
                @@ {"?"} :> st(456))
       @@ 452 :> ((reg_char \cup {"@", "high"}) :> st(452) @@ {"#"} :> st(453) @@ {"%"} :> st(3)
                @@ {"/"} :> st(455) @@ {"?"} :> st(456))
       @@ 0 :> Stuck]

Tr563_St3 ==
  [tr |-> 563 :> Do(<<"save_path">>, 453)
         @@ 566 :> Do(<<"markh", "save_port", "save_path">>, 453)
         @@ 570 :> Do(<<"save_port", "markh", "save_path">>, 453) @@ 462 :> Do(<<"marku">>, 454)
         @@ 463 :> Do(<<"marku">>, 1),
   st |-> 453 :> ((reg_char \cup {"/", ":", "?", "@", "high"}) :> tr(462) @@ {"%"} :> tr(463))
       @@ 454 :> ((reg_char \cup {"/", ":", "?", "@", "high"}) :> st(454) @@ {"%"} :> st(1))
       @@ 1 :> (xdigit :> st(2))
       @@ 2 :> (xdigit :> st(454))
       @@ 3 :> (xdigit :> st(4))]

St4_Tr496 ==
  [tr |-> 476 :> Do(<<"markh", "save_host">>, 455) @@ 486 :> Do(<<"save_host">>, 455)
         @@ 490 :> Do(<<"markh", "save_port">>, 455) @@ 494 :> Do(<<"save_port">>, 455)
         @@ 482 :> Do(<<"markh", "save_host">>, 456) @@ 488 :> Do(<<"save_host">>, 456)
         @@ 492 :> Do(<<"markh", "save_port">>, 456) @@ 496 :> Do(<<"save_port">>, 456),
   st |-> 4 :> (xdigit :> st(452))
       @@ 455 :> ((reg_char \cup {"/", ":", "@", "high"}) :> st(455) @@ {"#"} :> st(453)
                @@ {"%"} :> st(5) @@ {"?"} :> st(456))
       @@ 5 :> (xdigit :> st(6))
       @@ 6 :> (xdigit :> st(455))]

Tr556_St7 ==
  [tr |-> 556 :> Do(<<"markh", "save_host", "save_path">>, 456)
         @@ 562 :> Do(<<"save_host", "markh", "save_path">>, 456)
         @@ 565 :> Do(<<"save_path">>, 456)
         @@ 569 :> Do(<<"markh", "save_port", "save_path">>, 456)
         @@ 573 :> Do(<<"save_port", "markh", "save_path">>, 456) @@ 466 :> Do(<<"marku">>, 457)
         @@ 468 :> Do(<<"marku">>, 7),
   st |-> 456 :> ((reg_char \cup {"/", ":", "?", "@", "high"}) :> tr(466) @@ {"#"} :> tr(467)
                @@ {"%"} :> tr(468))
       @@ 457 :> ((reg_char \cup {"/", ":", "?", "@", "high"}) :> st(457) @@ {"#"} :> tr(469)
                @@ {"%"} :> st(7))
       @@ 7 :> (xdigit :> st(8))]

St8_St16 ==
  [tr |-> 472 :> Do(<<"markh">>, 9),
   st |-> 8 :> (xdigit :> st(457))
       @@ 458 :> ((reg_char \cup {":", "@", "high"}) :> st(455) @@ {"#"} :> st(453)
                @@ {"%"} :> st(5) @@ {"/"} :> st(459) @@ {"?"} :> st(456))
       @@ 459 :> ((alpha \cup {"!", "+", "-", ".", "_"}) :> tr(473)
                @@ {"3", "5", "9"} :> tr(480) @@ {"x02"} :> tr(472) @@ {"#"} :> tr(474)
                @@ {"%"} :> tr(475) @@ {"/"} :> tr(476) @@ {"0"} :> tr(477) @@ {"1"} :> tr(478)
                @@ {"2"} :> tr(479) @@ {":"} :> tr(481) @@ {"?"} :> tr(482) @@ {"@"} :> tr(483)
                @@ {"["} :> tr(484))
       @@ 9 :> ((digit \ {"5", "9"}) :> st(10))
       @@ 10 :> (digit :> st(11))
       @@ 11 :> ({"."} :> st(12))
       @@ 12 :> ({"3", "5", "9"} :> st(28) @@ {"x02"} :> st(13) @@ {"0"} :> st(15)
                @@ {"1"} :> st(27) @@ {"2"} :> st(29))
       @@ 13 :> ((digit \ {"5", "9"}) :> st(14))
       @@ 14 :> (digit :> st(15))
       @@ 15 :> ({"."} :> st(16))
       @@ 16 :> ({"3", "5", "9"} :> st(24) @@ {"x02"} :> st(17) @@ {"0"} :> st(19)
                @@ {"1"} :> st(23) @@ {"2"} :> st(25))]

St17_St465 ==
  [tr |-> 507 :> Do(<<"markh", "save_host">>, 461) @@ 487 :> Do(<<"save_host">>, 461)
         @@ 491 :> Do(<<"markh">>, 462),
   st |-> 17 :> ((digit \ {"5", "9"}) :> st(18))
       @@ 18 :> (digit :> st(19))
       @@ 19 :> ({"."} :> st(20))
       @@ 20 :> ({"3", "5", "9"} :> st(464) @@ {"x02"} :> st(21) @@ {"0"} :> st(460)
                @@ {"1"} :> st(463) @@ {"2"} :> st(465))
       @@ 21 :> ((digit \ {"5", "9"}) :> st(22))
       @@ 22 :> (digit :> st(460))
       @@ 460 :> ({"#"} :> tr(485) @@ {"/"} :> tr(486) @@ {":"} :> tr(487) @@ {"?"} :> tr(488))
       @@ 461 :> (digit :> tr(491) @@ {"#"} :> tr(489) @@ {"/"} :> tr(490) @@ {"?"} :> tr(492))
       @@ 462 :> (digit :> st(462) @@ {"#"} :> tr(493) @@ {"/"} :> tr(494) @@ {"?"} :> tr(496))
       @@ 463 :> (digit :> st(464) @@ {"#"} :> tr(485) @@ {"/"} :> tr(486) @@ {":"} :> tr(487)
                @@ {"?"} :> tr(488))
       @@ 464 :> (digit :> st(460) @@ {"#"} :> tr(485) @@ {"/"} :> tr(486) @@ {":"} :> tr(487)
                @@ {"?"} :> tr(488))
       @@ 465 :> ((digit \ {"5"}) :> st(460) @@ {"#"} :> tr(485) @@ {"/"} :> tr(486)
                @@ {"5"} :> st(466) @@ {":"} :> tr(487) @@ {"?"} :> tr(488))]

St466_St32 ==
  [tr |-> 473 :> Do(<<"markh">>, 467) @@ 475 :> Do(<<"markh">>, 31),
   st |-> 466 :> ((digit \ {"9"}) :> st(460) @@ {"#"} :> tr(485) @@ {"/"} :> tr(486)
                @@ {":"} :> tr(487) @@ {"?"} :> tr(488))
       @@ 23 :> (digit :> st(24) @@ {"."} :> st(20))
       @@ 24 :> (digit :> st(19) @@ {"."} :> st(20))
       @@ 25 :> ((digit \ {"5"}) :> st(19) @@ {"."} :> st(20) @@ {"5"} :> st(26))
       @@ 26 :> ((digit \ {"9"}) :> st(19) @@ {"."} :> st(20))
       @@ 27 :> (digit :> st(28) @@ {"."} :> st(16))
       @@ 28 :> (digit :> st(15) @@ {"."} :> st(16))
       @@ 29 :> ((digit \ {"5"}) :> st(15) @@ {"."} :> st(16) @@ {"5"} :> st(30))
       @@ 30 :> ((digit \ {"9"}) :> st(15) @@ {"."} :> st(16))
       @@ 467 :> (reg_char :> st(467) @@ {"#"} :> tr(485) @@ {"%"} :> st(31) @@ {"/"} :> tr(486)
                @@ {":"} :> tr(499) @@ {"?"} :> tr(488) @@ {"@"} :> tr(38))
       @@ 31 :> (xdigit :> st(32))
       @@ 32 :> (xdigit :> st(467))]

Tr481_Tr483 ==
  [tr |-> 481 :> Do(<<"markh", "save_host">>, 468) @@ 499 :> Do(<<"save_host">>, 468)
         @@ 38 :> Do(<<"save_userinfo">>, 469) @@ 483 :> Do(<<"markh", "save_userinfo">>, 469),
   st |-> 468 :> ((alpha \cup {"!", "+", "-", ".", ":", "_"}) :> st(33) @@ digit :> tr(500)
                @@ {"#"} :> tr(489) @@ {"%"} :> st(34) @@ {"/"} :> tr(490) @@ {"?"} :> tr(492)
                @@ {"@"} :> tr(38))
       @@ 33 :> ((reg_char \cup {":"}) :> st(33) @@ {"%"} :> st(34) @@ {"@"} :> tr(38))
       @@ 34 :> (xdigit :> st(35))
       @@ 35 :> (xdigit :> st(33))]

St469_St471 ==
  [tr |-> 501 :> Do(<<"markh">>, 470) @@ 502 :> Do(<<"markh">>, 36)
         @@ 503 :> Do(<<"markh">>, 471),
   st |-> 469 :> ((alpha \cup {"!", "+", "-", ".", "_"}) :> tr(501)
                @@ {"3", "5", "9"} :> tr(506) @@ {"x02"} :> tr(472) @@ {"#"} :> tr(474)
                @@ {"%"} :> tr(502) @@ {"/"} :> tr(476) @@ {"0"} :> tr(503) @@ {"1"} :> tr(504)
                @@ {"2"} :> tr(505) @@ {":"} :> tr(507) @@ {"?"} :> tr(482) @@ {"["} :> tr(484))
       @@ 470 :> (reg_char :> st(470) @@ {"#"} :> tr(485) @@ {"%"} :> st(36) @@ {"/"} :> tr(486)
                @@ {":"} :> tr(487) @@ {"?"} :> tr(488))
       @@ 36 :> (xdigit :> st(37))
       @@ 37 :> (xdigit :> st(470))
       @@ 471 :> ((reg_char \ {"."}) :> st(470) @@ {"#"} :> tr(485) @@ {"%"} :> st(36)
                @@ {"."} :> st(472) @@ {"/"} :> tr(486) @@ {":"} :> tr(487) @@ {"?"} :> tr(488))]

St472_St476 ==
  [tr |-> None,
   st |-> 472 :> ((alpha \cup {"!", "+", "-", ".", "_"}) :> st(470)
                @@ {"3", "5", "9"} :> st(482) @@ {"x02"} :> st(13) @@ {"#"} :> tr(485)
                @@ {"%"} :> st(36) @@ {"/"} :> tr(486) @@ {"0"} :> st(473) @@ {"1"} :> st(481)
                @@ {"2"} :> st(483) @@ {":"} :> tr(487) @@ {"?"} :> tr(488))
       @@ 473 :> ((reg_char \ {"."}) :> st(470) @@ {"#"} :> tr(485) @@ {"%"} :> st(36)
                @@ {"."} :> st(474) @@ {"/"} :> tr(486) @@ {":"} :> tr(487) @@ {"?"} :> tr(488))
       @@ 474 :> ((alpha \cup {"!", "+", "-", ".", "_"}) :> st(470)
                @@ {"3", "5", "9"} :> st(478) @@ {"x02"} :> st(17) @@ {"#"} :> tr(485)
                @@ {"%"} :> st(36) @@ {"/"} :> tr(486) @@ {"0"} :> st(475) @@ {"1"} :> st(477)
                @@ {"2"} :> st(479) @@ {":"} :> tr(487) @@ {"?"} :> tr(488))
       @@ 475 :> ((reg_char \ {"."}) :> st(470) @@ {"#"} :> tr(485) @@ {"%"} :> st(36)
                @@ {"."} :> st(476) @@ {"/"} :> tr(486) @@ {":"} :> tr(487) @@ {"?"} :> tr(488))
       @@ 476 :> (reg_char :> st(470) @@ {"x02"} :> st(21) @@ {"#"} :> tr(485)
                @@ {"%"} :> st(36) @@ {"/"} :> tr(486) @@ {":"} :> tr(487) @@ {"?"} :> tr(488))]

St477_St481 ==
  [tr |-> None,
   st |-> 477 :> ((alpha \cup {"!", "+", "-", "_"}) :> st(470) @@ digit :> st(478)
                @@ {"#"} :> tr(485) @@ {"%"} :> st(36) @@ {"."} :> st(476) @@ {"/"} :> tr(486)
                @@ {":"} :> tr(487) @@ {"?"} :> tr(488))
       @@ 478 :> ((alpha \cup {"!", "+", "-", "_"}) :> st(470) @@ digit :> st(475)
                @@ {"#"} :> tr(485) @@ {"%"} :> st(36) @@ {"."} :> st(476) @@ {"/"} :> tr(486)
                @@ {":"} :> tr(487) @@ {"?"} :> tr(488))
       @@ 479 :> ((alpha \cup {"!", "+", "-", "_"}) :> st(470) @@ (digit \ {"5"}) :> st(475)
                @@ {"#"} :> tr(485) @@ {"%"} :> st(36) @@ {"."} :> st(476) @@ {"/"} :> tr(486)
                @@ {"5"} :> st(480) @@ {":"} :> tr(487) @@ {"?"} :> tr(488))
       @@ 480 :> ((alpha \cup {"!", "+", "-", "9", "_"}) :> st(470)
                @@ (digit \ {"9"}) :> st(475) @@ {"#"} :> tr(485) @@ {"%"} :> st(36)
                @@ {"."} :> st(476) @@ {"/"} :> tr(486) @@ {":"} :> tr(487) @@ {"?"} :> tr(488))
       @@ 481 :> ((alpha \cup {"!", "+", "-", "_"}) :> st(470) @@ digit :> st(482)
                @@ {"#"} :> tr(485) @@ {"%"} :> st(36) @@ {"."} :> st(474) @@ {"/"} :> tr(486)
                @@ {":"} :> tr(487) @@ {"?"} :> tr(488))]

St482_Tr506 ==
  [tr |-> 504 :> Do(<<"markh">>, 485) @@ 506 :> Do(<<"markh">>, 486),
   st |-> 482 :> ((alpha \cup {"!", "+", "-", "_"}) :> st(470) @@ digit :> st(473)
                @@ {"#"} :> tr(485) @@ {"%"} :> st(36) @@ {"."} :> st(474) @@ {"/"} :> tr(486)
                @@ {":"} :> tr(487) @@ {"?"} :> tr(488))
       @@ 483 :> ((alpha \cup {"!", "+", "-", "_"}) :> st(470) @@ (digit \ {"5"}) :> st(473)
                @@ {"#"} :> tr(485) @@ {"%"} :> st(36) @@ {"."} :> st(474) @@ {"/"} :> tr(486)
                @@ {"5"} :> st(484) @@ {":"} :> tr(487) @@ {"?"} :> tr(488))
       @@ 484 :> ((alpha \cup {"!", "+", "-", "9", "_"}) :> st(470)
                @@ (digit \ {"9"}) :> st(473) @@ {"#"} :> tr(485) @@ {"%"} :> st(36)
                @@ {"."} :> st(474) @@ {"/"} :> tr(486) @@ {":"} :> tr(487) @@ {"?"} :> tr(488))
       @@ 485 :> ((alpha \cup {"!", "+", "-", "_"}) :> st(470) @@ digit :> st(486)
                @@ {"#"} :> tr(485) @@ {"%"} :> st(36) @@ {"."} :> st(472) @@ {"/"} :> tr(486)
                @@ {":"} :> tr(487) @@ {"?"} :> tr(488))]

St486_St40 ==
  [tr |-> 505 :> Do(<<"markh">>, 487) @@ 484 :> Do(<<"markh">>, 38),
   st |-> 486 :> ((alpha \cup {"!", "+", "-", "_"}) :> st(470) @@ digit :> st(471)
                @@ {"#"} :> tr(485) @@ {"%"} :> st(36) @@ {"."} :> st(472) @@ {"/"} :> tr(486)
                @@ {":"} :> tr(487) @@ {"?"} :> tr(488))
       @@ 487 :> ((alpha \cup {"!", "+", "-", "_"}) :> st(470) @@ (digit \ {"5"}) :> st(471)
                @@ {"#"} :> tr(485) @@ {"%"} :> st(36) @@ {"."} :> st(472) @@ {"/"} :> tr(486)
                @@ {"5"} :> st(488) @@ {":"} :> tr(487) @@ {"?"} :> tr(488))
       @@ 488 :> ((alpha \cup {"!", "+", "-", "9", "_"}) :> st(470)
                @@ (digit \ {"9"}) :> st(471) @@ {"#"} :> tr(485) @@ {"%"} :> st(36)
                @@ {"."} :> st(472) @@ {"/"} :> tr(486) @@ {":"} :> tr(487) @@ {"?"} :> tr(488))
       @@ 38 :> (xdigit :> st(39) @@ {":"} :> st(146) @@ {"v"} :> st(225))
       @@ 39 :> (xdigit :> st(40) @@ {":"} :> st(43))
       @@ 40 :> (xdigit :> st(41) @@ {":"} :> st(43))]

St41_St51 ==
  [tr |-> None,
   st |-> 41 :> (xdigit :> st(42) @@ {":"} :> st(43))
       @@ 42 :> ({":"} :> st(43))
       @@ 43 :> (xdigit :> st(44) @@ {":"} :> st(141))
       @@ 44 :> (xdigit :> st(45) @@ {":"} :> st(48))
       @@ 45 :> (xdigit :> st(46) @@ {":"} :> st(48))
       @@ 46 :> (xdigit :> st(47) @@ {":"} :> st(48))
       @@ 47 :> ({":"} :> st(48))
       @@ 48 :> (xdigit :> st(49) @@ {":"} :> st(136))
       @@ 49 :> (xdigit :> st(50) @@ {":"} :> st(53))
       @@ 50 :> (xdigit :> st(51) @@ {":"} :> st(53))
       @@ 51 :> (xdigit :> st(52) @@ {":"} :> st(53))]

St52_St62 ==
  [tr |-> None,
   st |-> 52 :> ({":"} :> st(53))
       @@ 53 :> (xdigit :> st(54) @@ {":"} :> st(131))
       @@ 54 :> (xdigit :> st(55) @@ {":"} :> st(58))
       @@ 55 :> (xdigit :> st(56) @@ {":"} :> st(58))
       @@ 56 :> (xdigit :> st(57) @@ {":"} :> st(58))
       @@ 57 :> ({":"} :> st(58))
       @@ 58 :> (xdigit :> st(59) @@ {":"} :> st(126))
       @@ 59 :> (xdigit :> st(60) @@ {":"} :> st(63))
       @@ 60 :> (xdigit :> st(61) @@ {":"} :> st(63))
       @@ 61 :> (xdigit :> st(62) @@ {":"} :> st(63))
       @@ 62 :> ({":"} :> st(63))]

St63_St75 ==
  [tr |-> None,
   st |-> 63 :> (xdigit :> st(64) @@ {":"} :> st(113))
       @@ 64 :> (xdigit :> st(65) @@ {":"} :> st(68))
       @@ 65 :> (xdigit :> st(66) @@ {":"} :> st(68))
       @@ 66 :> (xdigit :> st(67) @@ {":"} :> st(68))
       @@ 67 :> ({":"} :> st(68))
       @@ 68 :> ({"3", "5", "9"} :> st(110) @@ {"x02"} :> st(69) @@ {"0"} :> st(96)
                @@ {"1"} :> st(104) @@ {"2"} :> st(107) @@ {":"} :> st(111) @@ {"a"} :> st(112))
       @@ 69 :> ((digit \ {"5", "9"}) :> st(70))
       @@ 70 :> (digit :> st(71))
       @@ 71 :> ({"."} :> st(72))
       @@ 72 :> ({"3", "5", "9"} :> st(93) @@ {"x02"} :> st(73) @@ {"0"} :> st(75)
                @@ {"1"} :> st(92) @@ {"2"} :> st(94))
       @@ 73 :> ((digit \ {"5", "9"}) :> st(74))
       @@ 74 :> (digit :> st(75))
       @@ 75 :> ({"."} :> st(76))]

St76_St91 ==
  [tr |-> None,
   st |-> 76 :> ({"3", "5", "9"} :> st(89) @@ {"x02"} :> st(77) @@ {"0"} :> st(79)
                @@ {"1"} :> st(88) @@ {"2"} :> st(90))
       @@ 77 :> ((digit \ {"5", "9"}) :> st(78))
       @@ 78 :> (digit :> st(79))
       @@ 79 :> ({"."} :> st(80))
       @@ 80 :> ({"3", "5", "9"} :> st(85) @@ {"x02"} :> st(81) @@ {"0"} :> st(83)
                @@ {"1"} :> st(84) @@ {"2"} :> st(86))
       @@ 81 :> ((digit \ {"5", "9"}) :> st(82))
       @@ 82 :> (digit :> st(83))
       @@ 83 :> ({"]"} :> st(460))
       @@ 84 :> (digit :> st(85) @@ {"]"} :> st(460))
       @@ 85 :> (digit :> st(83) @@ {"]"} :> st(460))
       @@ 86 :> ((digit \ {"5"}) :> st(83) @@ {"5"} :> st(87) @@ {"]"} :> st(460))
       @@ 87 :> ((digit \ {"9"}) :> st(83) @@ {"]"} :> st(460))
       @@ 88 :> (digit :> st(89) @@ {"."} :> st(80))
       @@ 89 :> (digit :> st(79) @@ {"."} :> st(80))
       @@ 90 :> ((digit \ {"5"}) :> st(79) @@ {"."} :> st(80) @@ {"5"} :> st(91))
       @@ 91 :> ((digit \ {"9"}) :> st(79) @@ {"."} :> st(80))]

St92_St102 ==
  [tr |-> None,
   st |-> 92 :> (digit :> st(93) @@ {"."} :> st(76))
       @@ 93 :> (digit :> st(75) @@ {"."} :> st(76))
       @@ 94 :> ((digit \ {"5"}) :> st(75) @@ {"."} :> st(76) @@ {"5"} :> st(95))
       @@ 95 :> ((digit \ {"9"}) :> st(75) @@ {"."} :> st(76))
       @@ 96 :> (xdigit :> st(97) @@ {"."} :> st(72) @@ {":"} :> st(100))
       @@ 97 :> (xdigit :> st(98) @@ {":"} :> st(100))
       @@ 98 :> (xdigit :> st(99) @@ {":"} :> st(100))
       @@ 99 :> ({":"} :> st(100))
       @@ 100 :> (xdigit :> st(101) @@ {":"} :> st(83))
       @@ 101 :> (xdigit :> st(102) @@ {"]"} :> st(460))
       @@ 102 :> (xdigit :> st(103) @@ {"]"} :> st(460))]

St103_St110 ==
  [tr |-> None,
   st |-> 103 :> (xdigit :> st(83) @@ {"]"} :> st(460))
       @@ 104 :> (digit :> st(105) @@ {"."} :> st(72) @@ {":"} :> st(100) @@ {"a"} :> st(97))
       @@ 105 :> (digit :> st(106) @@ {"."} :> st(72) @@ {":"} :> st(100) @@ {"a"} :> st(98))
       @@ 106 :> (xdigit :> st(99) @@ {"."} :> st(72) @@ {":"} :> st(100))
       @@ 107 :> ((digit \ {"5"}) :> st(108) @@ {"."} :> st(72) @@ {"5"} :> st(109)
                @@ {":"} :> st(100) @@ {"a"} :> st(97))
       @@ 108 :> (xdigit :> st(98) @@ {"."} :> st(72) @@ {":"} :> st(100))
       @@ 109 :> ((digit \ {"9"}) :> st(106) @@ {"9", "a"} :> st(98) @@ {"."} :> st(72)
                @@ {":"} :> st(100))
       @@ 110 :> (digit :> st(108) @@ {"."} :> st(72) @@ {":"} :> st(100) @@ {"a"} :> st(97))]

St111_St119 ==
  [tr |-> None,
   st |-> 111 :> (xdigit :> st(101))
       @@ 112 :> (xdigit :> st(97) @@ {":"} :> st(100))
       @@ 113 :> ({"3", "5", "9"} :> st(124) @@ {"x02"} :> st(69) @@ {"0"} :> st(114)
                @@ {"1"} :> st(118) @@ {"2"} :> st(121) @@ {"a"} :> st(125))
       @@ 114 :> (xdigit :> st(115) @@ {"."} :> st(72) @@ {":"} :> st(111))
       @@ 115 :> (xdigit :> st(116) @@ {":"} :> st(111))
       @@ 116 :> (xdigit :> st(117) @@ {":"} :> st(111))
       @@ 117 :> ({":"} :> st(111))
       @@ 118 :> (digit :> st(119) @@ {"."} :> st(72) @@ {":"} :> st(111) @@ {"a"} :> st(115))
       @@ 119 :> (digit :> st(120) @@ {"."} :> st(72) @@ {":"} :> st(111) @@ {"a"} :> st(116))]

St120_St128 ==
  [tr |-> None,
   st |-> 120 :> (xdigit :> st(117) @@ {"."} :> st(72) @@ {":"} :> st(111))
       @@ 121 :> ((digit \ {"5"}) :> st(122) @@ {"."} :> st(72) @@ {"5"} :> st(123)
                @@ {":"} :> st(111) @@ {"a"} :> st(115))
       @@ 122 :> (xdigit :> st(116) @@ {"."} :> st(72) @@ {":"} :> st(111))
       @@ 123 :> ((digit \ {"9"}) :> st(120) @@ {"9", "a"} :> st(116) @@ {"."} :> st(72)
                @@ {":"} :> st(111))
       @@ 124 :> (digit :> st(122) @@ {"."} :> st(72) @@ {":"} :> st(111) @@ {"a"} :> st(115))
       @@ 125 :> (xdigit :> st(115) @@ {":"} :> st(111))
       @@ 126 :> (xdigit :> st(127))
       @@ 127 :> (xdigit :> st(128) @@ {":"} :> st(113))
       @@ 128 :> (xdigit :> st(129) @@ {":"} :> st(113))]

St129_St139 ==
  [tr |-> None,
   st |-> 129 :> (xdigit :> st(130) @@ {":"} :> st(113))
       @@ 130 :> ({":"} :> st(113))
       @@ 131 :> (xdigit :> st(132))
       @@ 132 :> (xdigit :> st(133) @@ {":"} :> st(126))
       @@ 133 :> (xdigit :> st(134) @@ {":"} :> st(126))
       @@ 134 :> (xdigit :> st(135) @@ {":"} :> st(126))
       @@ 135 :> ({":"} :> st(126))
       @@ 136 :> (xdigit :> st(137))
       @@ 137 :> (xdigit :> st(138) @@ {":"} :> st(131))
       @@ 138 :> (xdigit :> st(139) @@ {":"} :> st(131))
       @@ 139 :> (xdigit :> st(140) @@ {":"} :> st(131))]

St140_St149 ==
  [tr |-> None,
   st |-> 140 :> ({":"} :> st(131))
       @@ 141 :> (xdigit :> st(142))
       @@ 142 :> (xdigit :> st(143) @@ {":"} :> st(136))
       @@ 143 :> (xdigit :> st(144) @@ {":"} :> st(136))
       @@ 144 :> (xdigit :> st(145) @@ {":"} :> st(136))
       @@ 145 :> ({":"} :> st(136))
       @@ 146 :> ({":"} :> st(147))
       @@ 147 :> ({"3", "5", "9"} :> st(223) @@ {"x02"} :> st(69) @@ {"0"} :> st(148)
                @@ {"1"} :> st(217) @@ {"2"} :> st(220) @@ {"a"} :> st(224) @@ {"]"} :> st(460))
       @@ 148 :> (xdigit :> st(149) @@ {"."} :> st(72) @@ {":"} :> st(152) @@ {"]"} :> st(460))
       @@ 149 :> (xdigit :> st(150) @@ {":"} :> st(152) @@ {"]"} :> st(460))]

St150_St158 ==
  [tr |-> None,
   st |-> 150 :> (xdigit :> st(151) @@ {":"} :> st(152) @@ {"]"} :> st(460))
       @@ 151 :> ({":"} :> st(152) @@ {"]"} :> st(460))
       @@ 152 :> ({"3", "5", "9"} :> st(215) @@ {"x02"} :> st(69) @@ {"0"} :> st(153)
                @@ {"1"} :> st(209) @@ {"2"} :> st(212) @@ {"a"} :> st(216))
       @@ 153 :> (xdigit :> st(154) @@ {"."} :> st(72) @@ {":"} :> st(157) @@ {"]"} :> st(460))
       @@ 154 :> (xdigit :> st(155) @@ {":"} :> st(157) @@ {"]"} :> st(460))
       @@ 155 :> (xdigit :> st(156) @@ {":"} :> st(157) @@ {"]"} :> st(460))
       @@ 156 :> ({":"} :> st(157) @@ {"]"} :> st(460))
       @@ 157 :> ({"3", "5", "9"} :> st(207) @@ {"x02"} :> st(69) @@ {"0"} :> st(158)
                @@ {"1"} :> st(201) @@ {"2"} :> st(204) @@ {"a"} :> st(208))
       @@ 158 :> (xdigit :> st(159) @@ {"."} :> st(72) @@ {":"} :> st(162) @@ {"]"} :> st(460))]

St159_St167 ==
  [tr |-> None,
   st |-> 159 :> (xdigit :> st(160) @@ {":"} :> st(162) @@ {"]"} :> st(460))
       @@ 160 :> (xdigit :> st(161) @@ {":"} :> st(162) @@ {"]"} :> st(460))
       @@ 161 :> ({":"} :> st(162) @@ {"]"} :> st(460))
       @@ 162 :> ({"3", "5", "9"} :> st(199) @@ {"x02"} :> st(69) @@ {"0"} :> st(163)
                @@ {"1"} :> st(193) @@ {"2"} :> st(196) @@ {"a"} :> st(200))
       @@ 163 :> (xdigit :> st(164) @@ {"."} :> st(72) @@ {":"} :> st(167) @@ {"]"} :> st(460))
       @@ 164 :> (xdigit :> st(165) @@ {":"} :> st(167) @@ {"]"} :> st(460))
       @@ 165 :> (xdigit :> st(166) @@ {":"} :> st(167) @@ {"]"} :> st(460))
       @@ 166 :> ({":"} :> st(167) @@ {"]"} :> st(460))
       @@ 167 :> ({"3", "5", "9"} :> st(191) @@ {"x02"} :> st(69) @@ {"0"} :> st(168)
                @@ {"1"} :> st(185) @@ {"2"} :> st(188) @@ {"a"} :> st(192))]

St168_St176 ==
  [tr |-> None,
   st |-> 168 :> (xdigit :> st(169) @@ {"."} :> st(72) @@ {":"} :> st(172) @@ {"]"} :> st(460))
       @@ 169 :> (xdigit :> st(170) @@ {":"} :> st(172) @@ {"]"} :> st(460))
       @@ 170 :> (xdigit :> st(171) @@ {":"} :> st(172) @@ {"]"} :> st(460))
       @@ 171 :> ({":"} :> st(172) @@ {"]"} :> st(460))
       @@ 172 :> ({"3", "5", "9"} :> st(183) @@ {"x02"} :> st(69) @@ {"0"} :> st(173)
                @@ {"1"} :> st(177) @@ {"2"} :> st(180) @@ {"a"} :> st(184))
       @@ 173 :> (xdigit :> st(174) @@ {"."} :> st(72) @@ {":"} :> st(111) @@ {"]"} :> st(460))
       @@ 174 :> (xdigit :> st(175) @@ {":"} :> st(111) @@ {"]"} :> st(460))
       @@ 175 :> (xdigit :> st(176) @@ {":"} :> st(111) @@ {"]"} :> st(460))
       @@ 176 :> ({":"} :> st(111) @@ {"]"} :> st(460))]

St177_St184 ==
  [tr |-> None,
   st |-> 177 :> (digit :> st(178) @@ {"."} :> st(72) @@ {":"} :> st(111) @@ {"a"} :> st(174)
                @@ {"]"} :> st(460))
       @@ 178 :> (digit :> st(179) @@ {"."} :> st(72) @@ {":"} :> st(111) @@ {"a"} :> st(175)
                @@ {"]"} :> st(460))
       @@ 179 :> (xdigit :> st(176) @@ {"."} :> st(72) @@ {":"} :> st(111) @@ {"]"} :> st(460))
       @@ 180 :> ((digit \ {"5"}) :> st(181) @@ {"."} :> st(72) @@ {"5"} :> st(182)
                @@ {":"} :> st(111) @@ {"a"} :> st(174) @@ {"]"} :> st(460))
       @@ 181 :> (xdigit :> st(175) @@ {"."} :> st(72) @@ {":"} :> st(111) @@ {"]"} :> st(460))
       @@ 182 :> ((digit \ {"9"}) :> st(179) @@ {"9", "a"} :> st(175) @@ {"."} :> st(72)
                @@ {":"} :> st(111) @@ {"]"} :> st(460))
       @@ 183 :> (digit :> st(181) @@ {"."} :> st(72) @@ {":"} :> st(111) @@ {"a"} :> st(174)
                @@ {"]"} :> st(460))
       @@ 184 :> (xdigit :> st(174) @@ {":"} :> st(111) @@ {"]"} :> st(460))]

St185_St192 ==
  [tr |-> None,
   st |-> 185 :> (digit :> st(186) @@ {"."} :> st(72) @@ {":"} :> st(172) @@ {"a"} :> st(169)
                @@ {"]"} :> st(460))
       @@ 186 :> (digit :> st(187) @@ {"."} :> st(72) @@ {":"} :> st(172) @@ {"a"} :> st(170)
                @@ {"]"} :> st(460))
       @@ 187 :> (xdigit :> st(171) @@ {"."} :> st(72) @@ {":"} :> st(172) @@ {"]"} :> st(460))
       @@ 188 :> ((digit \ {"5"}) :> st(189) @@ {"."} :> st(72) @@ {"5"} :> st(190)
                @@ {":"} :> st(172) @@ {"a"} :> st(169) @@ {"]"} :> st(460))
       @@ 189 :> (xdigit :> st(170) @@ {"."} :> st(72) @@ {":"} :> st(172) @@ {"]"} :> st(460))
       @@ 190 :> ((digit \ {"9"}) :> st(187) @@ {"9", "a"} :> st(170) @@ {"."} :> st(72)
                @@ {":"} :> st(172) @@ {"]"} :> st(460))
       @@ 191 :> (digit :> st(189) @@ {"."} :> st(72) @@ {":"} :> st(172) @@ {"a"} :> st(169)
                @@ {"]"} :> st(460))
       @@ 192 :> (xdigit :> st(169) @@ {":"} :> st(172) @@ {"]"} :> st(460))]

St193_St200 ==
  [tr |-> None,
   st |-> 193 :> (digit :> st(194) @@ {"."} :> st(72) @@ {":"} :> st(167) @@ {"a"} :> st(164)
                @@ {"]"} :> st(460))
       @@ 194 :> (digit :> st(195) @@ {"."} :> st(72) @@ {":"} :> st(167) @@ {"a"} :> st(165)
                @@ {"]"} :> st(460))
       @@ 195 :> (xdigit :> st(166) @@ {"."} :> st(72) @@ {":"} :> st(167) @@ {"]"} :> st(460))
       @@ 196 :> ((digit \ {"5"}) :> st(197) @@ {"."} :> st(72) @@ {"5"} :> st(198)
                @@ {":"} :> st(167) @@ {"a"} :> st(164) @@ {"]"} :> st(460))
       @@ 197 :> (xdigit :> st(165) @@ {"."} :> st(72) @@ {":"} :> st(167) @@ {"]"} :> st(460))
       @@ 198 :> ((digit \ {"9"}) :> st(195) @@ {"9", "a"} :> st(165) @@ {"."} :> st(72)
                @@ {":"} :> st(167) @@ {"]"} :> st(460))
       @@ 199 :> (digit :> st(197) @@ {"."} :> st(72) @@ {":"} :> st(167) @@ {"a"} :> st(164)
                @@ {"]"} :> st(460))
       @@ 200 :> (xdigit :> st(164) @@ {":"} :> st(167) @@ {"]"} :> st(460))]

St201_St208 ==
  [tr |-> None,
   st |-> 201 :> (digit :> st(202) @@ {"."} :> st(72) @@ {":"} :> st(162) @@ {"a"} :> st(159)
                @@ {"]"} :> st(460))
       @@ 202 :> (digit :> st(203) @@ {"."} :> st(72) @@ {":"} :> st(162) @@ {"a"} :> st(160)
                @@ {"]"} :> st(460))
       @@ 203 :> (xdigit :> st(161) @@ {"."} :> st(72) @@ {":"} :> st(162) @@ {"]"} :> st(460))
       @@ 204 :> ((digit \ {"5"}) :> st(205) @@ {"."} :> st(72) @@ {"5"} :> st(206)
                @@ {":"} :> st(162) @@ {"a"} :> st(159) @@ {"]"} :> st(460))
       @@ 205 :> (xdigit :> st(160) @@ {"."} :> st(72) @@ {":"} :> st(162) @@ {"]"} :> st(460))
       @@ 206 :> ((digit \ {"9"}) :> st(203) @@ {"9", "a"} :> st(160) @@ {"."} :> st(72)
                @@ {":"} :> st(162) @@ {"]"} :> st(460))
       @@ 207 :> (digit :> st(205) @@ {"."} :> st(72) @@ {":"} :> st(162) @@ {"a"} :> st(159)
                @@ {"]"} :> st(460))
       @@ 208 :> (xdigit :> st(159) @@ {":"} :> st(162) @@ {"]"} :> st(460))]

St209_St216 ==
  [tr |-> None,
   st |-> 209 :> (digit :> st(210) @@ {"."} :> st(72) @@ {":"} :> st(157) @@ {"a"} :> st(154)
                @@ {"]"} :> st(460))
       @@ 210 :> (digit :> st(211) @@ {"."} :> st(72) @@ {":"} :> st(157) @@ {"a"} :> st(155)
                @@ {"]"} :> st(460))
       @@ 211 :> (xdigit :> st(156) @@ {"."} :> st(72) @@ {":"} :> st(157) @@ {"]"} :> st(460))
       @@ 212 :> ((digit \ {"5"}) :> st(213) @@ {"."} :> st(72) @@ {"5"} :> st(214)
                @@ {":"} :> st(157) @@ {"a"} :> st(154) @@ {"]"} :> st(460))
       @@ 213 :> (xdigit :> st(155) @@ {"."} :> st(72) @@ {":"} :> st(157) @@ {"]"} :> st(460))
       @@ 214 :> ((digit \ {"9"}) :> st(211) @@ {"9", "a"} :> st(155) @@ {"."} :> st(72)
                @@ {":"} :> st(157) @@ {"]"} :> st(460))
       @@ 215 :> (digit :> st(213) @@ {"."} :> st(72) @@ {":"} :> st(157) @@ {"a"} :> st(154)
                @@ {"]"} :> st(460))
       @@ 216 :> (xdigit :> st(154) @@ {":"} :> st(157) @@ {"]"} :> st(460))]

St217_St224 ==
  [tr |-> None,
   st |-> 217 :> (digit :> st(218) @@ {"."} :> st(72) @@ {":"} :> st(152) @@ {"a"} :> st(149)
                @@ {"]"} :> st(460))
       @@ 218 :> (digit :> st(219) @@ {"."} :> st(72) @@ {":"} :> st(152) @@ {"a"} :> st(150)
                @@ {"]"} :> st(460))
       @@ 219 :> (xdigit :> st(151) @@ {"."} :> st(72) @@ {":"} :> st(152) @@ {"]"} :> st(460))
       @@ 220 :> ((digit \ {"5"}) :> st(221) @@ {"."} :> st(72) @@ {"5"} :> st(222)
                @@ {":"} :> st(152) @@ {"a"} :> st(149) @@ {"]"} :> st(460))
       @@ 221 :> (xdigit :> st(150) @@ {"."} :> st(72) @@ {":"} :> st(152) @@ {"]"} :> st(460))
       @@ 222 :> ((digit \ {"9"}) :> st(219) @@ {"9", "a"} :> st(150) @@ {"."} :> st(72)
                @@ {":"} :> st(152) @@ {"]"} :> st(460))
       @@ 223 :> (digit :> st(221) @@ {"."} :> st(72) @@ {":"} :> st(152) @@ {"a"} :> st(149)
                @@ {"]"} :> st(460))
       @@ 224 :> (xdigit :> st(149) @@ {":"} :> st(152) @@ {"]"} :> st(460))]

St225_St490 ==
  [tr |-> 500 :> Do(<<"markh">>, 489) @@ 477 :> Do(<<"markh">>, 490),
   st |-> 225 :> (xdigit :> st(226))
       @@ 226 :> (xdigit :> st(226) @@ {"."} :> st(227))
       @@ 227 :> ((reg_char \cup {":"}) :> st(228))
       @@ 228 :> ((reg_char \cup {":"}) :> st(228) @@ {"]"} :> st(460))
       @@ 489 :> ((alpha \cup {"!", "+", "-", ".", ":", "_"}) :> st(33) @@ digit :> st(489)
                @@ {"#"} :> tr(493) @@ {"%"} :> st(34) @@ {"/"} :> tr(494) @@ {"?"} :> tr(496)
                @@ {"@"} :> tr(38))
       @@ 490 :> ((reg_char \ {"."}) :> st(467) @@ {"#"} :> tr(485) @@ {"%"} :> st(31)
                @@ {"."} :> st(491) @@ {"/"} :> tr(486) @@ {":"} :> tr(499) @@ {"?"} :> tr(488)
                @@ {"@"} :> tr(38))]

St491_St495 ==
  [tr |-> None,
   st |-> 491 :> ((alpha \cup {"!", "+", "-", ".", "_"}) :> st(467)
                @@ {"3", "5", "9"} :> st(501) @@ {"x02"} :> st(13) @@ {"#"} :> tr(485)
                @@ {"%"} :> st(31) @@ {"/"} :> tr(486) @@ {"0"} :> st(492) @@ {"1"} :> st(500)
                @@ {"2"} :> st(502) @@ {":"} :> tr(499) @@ {"?"} :> tr(488) @@ {"@"} :> tr(38))
       @@ 492 :> ((reg_char \ {"."}) :> st(467) @@ {"#"} :> tr(485) @@ {"%"} :> st(31)
                @@ {"."} :> st(493) @@ {"/"} :> tr(486) @@ {":"} :> tr(499) @@ {"?"} :> tr(488)
                @@ {"@"} :> tr(38))
       @@ 493 :> ((alpha \cup {"!", "+", "-", ".", "_"}) :> st(467)
                @@ {"3", "5", "9"} :> st(497) @@ {"x02"} :> st(17) @@ {"#"} :> tr(485)
                @@ {"%"} :> st(31) @@ {"/"} :> tr(486) @@ {"0"} :> st(494) @@ {"1"} :> st(496)
                @@ {"2"} :> st(498) @@ {":"} :> tr(499) @@ {"?"} :> tr(488) @@ {"@"} :> tr(38))
       @@ 494 :> ((reg_char \ {"."}) :> st(467) @@ {"#"} :> tr(485) @@ {"%"} :> st(31)
                @@ {"."} :> st(495) @@ {"/"} :> tr(486) @@ {":"} :> tr(499) @@ {"?"} :> tr(488)
                @@ {"@"} :> tr(38))
       @@ 495 :> (reg_char :> st(467) @@ {"x02"} :> st(21) @@ {"#"} :> tr(485)
                @@ {"%"} :> st(31) @@ {"/"} :> tr(486) @@ {":"} :> tr(499) @@ {"?"} :> tr(488)
                @@ {"@"} :> tr(38))]

St496_St499 ==
  [tr |-> None,
   st |-> 496 :> ((alpha \cup {"!", "+", "-", "_"}) :> st(467) @@ digit :> st(497)
                @@ {"#"} :> tr(485) @@ {"%"} :> st(31) @@ {"."} :> st(495) @@ {"/"} :> tr(486)
                @@ {":"} :> tr(499) @@ {"?"} :> tr(488) @@ {"@"} :> tr(38))
       @@ 497 :> ((alpha \cup {"!", "+", "-", "_"}) :> st(467) @@ digit :> st(494)
                @@ {"#"} :> tr(485) @@ {"%"} :> st(31) @@ {"."} :> st(495) @@ {"/"} :> tr(486)
                @@ {":"} :> tr(499) @@ {"?"} :> tr(488) @@ {"@"} :> tr(38))
       @@ 498 :> ((alpha \cup {"!", "+", "-", "_"}) :> st(467) @@ (digit \ {"5"}) :> st(494)
                @@ {"#"} :> tr(485) @@ {"%"} :> st(31) @@ {"."} :> st(495) @@ {"/"} :> tr(486)
                @@ {"5"} :> st(499) @@ {":"} :> tr(499) @@ {"?"} :> tr(488) @@ {"@"} :> tr(38))
       @@ 499 :> ((alpha \cup {"!", "+", "-", "9", "_"}) :> st(467)
                @@ (digit \ {"9"}) :> st(494) @@ {"#"} :> tr(485) @@ {"%"} :> st(31)
                @@ {"."} :> st(495) @@ {"/"} :> tr(486) @@ {":"} :> tr(499) @@ {"?"} :> tr(488)
                @@ {"@"} :> tr(38))]

St500_Tr478 ==
  [tr |-> 478 :> Do(<<"markh">>, 504),
   st |-> 500 :> ((alpha \cup {"!", "+", "-", "_"}) :> st(467) @@ digit :> st(501)
                @@ {"#"} :> tr(485) @@ {"%"} :> st(31) @@ {"."} :> st(493) @@ {"/"} :> tr(486)
                @@ {":"} :> tr(499) @@ {"?"} :> tr(488) @@ {"@"} :> tr(38))
       @@ 501 :> ((alpha \cup {"!", "+", "-", "_"}) :> st(467) @@ digit :> st(492)
                @@ {"#"} :> tr(485) @@ {"%"} :> st(31) @@ {"."} :> st(493) @@ {"/"} :> tr(486)
                @@ {":"} :> tr(499) @@ {"?"} :> tr(488) @@ {"@"} :> tr(38))
       @@ 502 :> ((alpha \cup {"!", "+", "-", "_"}) :> st(467) @@ (digit \ {"5"}) :> st(492)
                @@ {"#"} :> tr(485) @@ {"%"} :> st(31) @@ {"."} :> st(493) @@ {"/"} :> tr(486)
                @@ {"5"} :> st(503) @@ {":"} :> tr(499) @@ {"?"} :> tr(488) @@ {"@"} :> tr(38))
       @@ 503 :> ((alpha \cup {"!", "+", "-", "9", "_"}) :> st(467)
                @@ (digit \ {"9"}) :> st(492) @@ {"#"} :> tr(485) @@ {"%"} :> st(31)
                @@ {"."} :> st(493) @@ {"/"} :> tr(486) @@ {":"} :> tr(499) @@ {"?"} :> tr(488)
                @@ {"@"} :> tr(38))]

St504_Tr461 ==
  [tr |-> 480 :> Do(<<"markh">>, 505) @@ 479 :> Do(<<"markh">>, 506)
         @@ 461 :> Do(<<"marku">>, 508),
   st |-> 504 :> ((alpha \cup {"!", "+", "-", "_"}) :> st(467) @@ digit :> st(505)
                @@ {"#"} :> tr(485) @@ {"%"} :> st(31) @@ {"."} :> st(491) @@ {"/"} :> tr(486)
                @@ {":"} :> tr(499) @@ {"?"} :> tr(488) @@ {"@"} :> tr(38))
       @@ 505 :> ((alpha \cup {"!", "+", "-", "_"}) :> st(467) @@ digit :> st(490)
                @@ {"#"} :> tr(485) @@ {"%"} :> st(31) @@ {"."} :> st(491) @@ {"/"} :> tr(486)
                @@ {":"} :> tr(499) @@ {"?"} :> tr(488) @@ {"@"} :> tr(38))
       @@ 506 :> ((alpha \cup {"!", "+", "-", "_"}) :> st(467) @@ (digit \ {"5"}) :> st(490)
                @@ {"#"} :> tr(485) @@ {"%"} :> st(31) @@ {"."} :> st(491) @@ {"/"} :> tr(486)
                @@ {"5"} :> st(507) @@ {":"} :> tr(499) @@ {"?"} :> tr(488) @@ {"@"} :> tr(38))
       @@ 507 :> ((alpha \cup {"!", "+", "-", "9", "_"}) :> st(467)
                @@ (digit \ {"9"}) :> st(490) @@ {"#"} :> tr(485) @@ {"%"} :> st(31)
                @@ {"."} :> st(491) @@ {"/"} :> tr(486) @@ {":"} :> tr(499) @@ {"?"} :> tr(488)
                @@ {"@"} :> tr(38))]

St508_St230 ==
  [tr |-> 543 :> Do(<<"save_scheme">>, 509) @@ 546 :> Do(<<"markh">>, 229),
   st |-> 508 :> (scheme_char :> st(508) @@ {"!", "@", "_", "high"} :> st(452)
                @@ {"#"} :> st(453) @@ {"%"} :> st(3) @@ {"/"} :> st(455) @@ {":"} :> tr(543)
                @@ {"?"} :> st(456))
       @@ 509 :> ((reg_char \cup {":", "@", "high"}) :> st(455) @@ {"#"} :> st(453)
                @@ {"%"} :> st(5) @@ {"/"} :> st(510) @@ {"?"} :> st(456))
       @@ 510 :> ((reg_char \cup {":", "@", "high"}) :> st(455) @@ {"#"} :> st(453)
                @@ {"%"} :> st(5) @@ {"/"} :> st(511) @@ {"?"} :> st(456))
       @@ 511 :> ((alpha \cup {"!", "+", "-", ".", "_"}) :> tr(547)
                @@ {"3", "5", "9"} :> tr(554) @@ {"x02"} :> tr(546) @@ {"#"} :> tr(548)
                @@ {"%"} :> tr(549) @@ {"/"} :> tr(550) @@ {"0"} :> tr(551) @@ {"1"} :> tr(552)
                @@ {"2"} :> tr(553) @@ {":"} :> tr(555) @@ {"?"} :> tr(556) @@ {"@"} :> tr(557)
                @@ {"["} :> tr(558))
       @@ 229 :> ((digit \ {"5", "9"}) :> st(230))
       @@ 230 :> (digit :> st(231))]

St231_Tr560 ==
  [tr |-> 550 :> Do(<<"markh", "save_host">>, 513) @@ 567 :> Do(<<"markh", "save_port">>, 513)
         @@ 560 :> Do(<<"save_host", "markh">>, 513),
   st |-> 231 :> ({"."} :> st(232))
       @@ 232 :> ({"3", "5", "9"} :> st(250) @@ {"x02"} :> st(233) @@ {"0"} :> st(235)
                @@ {"1"} :> st(249) @@ {"2"} :> st(251))
       @@ 233 :> ((digit \ {"5", "9"}) :> st(234))
       @@ 234 :> (digit :> st(235))
       @@ 235 :> ({"."} :> st(236))
       @@ 236 :> ({"3", "5", "9"} :> st(246) @@ {"x02"} :> st(237) @@ {"0"} :> st(239)
                @@ {"1"} :> st(245) @@ {"2"} :> st(247))
       @@ 237 :> ((digit \ {"5", "9"}) :> st(238))
       @@ 238 :> (digit :> st(239))
       @@ 239 :> ({"."} :> st(240))
       @@ 240 :> ({"3", "5", "9"} :> st(517) @@ {"x02"} :> st(241) @@ {"0"} :> st(512)
                @@ {"1"} :> st(516) @@ {"2"} :> st(518))
       @@ 241 :> ((digit \ {"5", "9"}) :> st(242))
       @@ 242 :> (digit :> st(512))
       @@ 512 :> ({"#"} :> tr(559) @@ {"/"} :> tr(560) @@ {":"} :> tr(561) @@ {"?"} :> tr(562))]

Tr571_St517 ==
  [tr |-> 571 :> Do(<<"save_port", "markh">>, 513) @@ 584 :> Do(<<"markh", "save_host">>, 514)
         @@ 561 :> Do(<<"save_host">>, 514) @@ 568 :> Do(<<"markh">>, 515),
   st |-> 513 :> ((reg_char \cup {"/", ":", "@", "high"}) :> st(513) @@ {"#"} :> tr(563)
                @@ {"%"} :> st(243) @@ {"?"} :> tr(565))
       @@ 243 :> (xdigit :> st(244))
       @@ 244 :> (xdigit :> st(513))
       @@ 514 :> (digit :> tr(568) @@ {"#"} :> tr(566) @@ {"/"} :> tr(567) @@ {"?"} :> tr(569))
       @@ 515 :> (digit :> st(515) @@ {"#"} :> tr(570) @@ {"/"} :> tr(571) @@ {"?"} :> tr(573))
       @@ 516 :> (digit :> st(517) @@ {"#"} :> tr(559) @@ {"/"} :> tr(560) @@ {":"} :> tr(561)
                @@ {"?"} :> tr(562))
       @@ 517 :> (digit :> st(512) @@ {"#"} :> tr(559) @@ {"/"} :> tr(560) @@ {":"} :> tr(561)
                @@ {"?"} :> tr(562))]

St518_Tr549 ==
  [tr |-> 547 :> Do(<<"markh">>, 520) @@ 549 :> Do(<<"markh">>, 253),
   st |-> 518 :> ((digit \ {"5"}) :> st(512) @@ {"#"} :> tr(559) @@ {"/"} :> tr(560)
                @@ {"5"} :> st(519) @@ {":"} :> tr(561) @@ {"?"} :> tr(562))
       @@ 519 :> ((digit \ {"9"}) :> st(512) @@ {"#"} :> tr(559) @@ {"/"} :> tr(560)
                @@ {":"} :> tr(561) @@ {"?"} :> tr(562))
       @@ 245 :> (digit :> st(246) @@ {"."} :> st(240))
       @@ 246 :> (digit :> st(239) @@ {"."} :> st(240))
       @@ 247 :> ((digit \ {"5"}) :> st(239) @@ {"."} :> st(240) @@ {"5"} :> st(248))
       @@ 248 :> ((digit \ {"9"}) :> st(239) @@ {"."} :> st(240))
       @@ 249 :> (digit :> st(250) @@ {"."} :> st(236))
       @@ 250 :> (digit :> st(235) @@ {"."} :> st(236))
       @@ 251 :> ((digit \ {"5"}) :> st(235) @@ {"."} :> st(236) @@ {"5"} :> st(252))
       @@ 252 :> ((digit \ {"9"}) :> st(235) @@ {"."} :> st(236))
       @@ 520 :> (reg_char :> st(520) @@ {"#"} :> tr(559) @@ {"%"} :> st(253)
                @@ {"/"} :> tr(560) @@ {":"} :> tr(576) @@ {"?"} :> tr(562) @@ {"@"} :> tr(263))]

St253_Tr557 ==
  [tr |-> 555 :> Do(<<"markh", "save_host">>, 521) @@ 576 :> Do(<<"save_host">>, 521)
         @@ 263 :> Do(<<"save_userinfo">>, 522) @@ 557 :> Do(<<"markh", "save_userinfo">>, 522),
   st |-> 253 :> (xdigit :> st(254))
       @@ 254 :> (xdigit :> st(520))
       @@ 521 :> ((alpha \cup {"!", "+", "-", ".", ":", "_"}) :> st(255) @@ digit :> tr(577)
                @@ {"#"} :> tr(566) @@ {"%"} :> st(256) @@ {"/"} :> tr(567) @@ {"?"} :> tr(569)
                @@ {"@"} :> tr(263))
       @@ 255 :> ((reg_char \cup {":"}) :> st(255) @@ {"%"} :> st(256) @@ {"@"} :> tr(263))
       @@ 256 :> (xdigit :> st(257))
       @@ 257 :> (xdigit :> st(255))]

St522_St524 ==
  [tr |-> 578 :> Do(<<"markh">>, 523) @@ 579 :> Do(<<"markh">>, 258)
         @@ 580 :> Do(<<"markh">>, 524),
   st |-> 522 :> ((alpha \cup {"!", "+", "-", ".", "_"}) :> tr(578)
                @@ {"3", "5", "9"} :> tr(583) @@ {"x02"} :> tr(546) @@ {"#"} :> tr(548)
                @@ {"%"} :> tr(579) @@ {"/"} :> tr(550) @@ {"0"} :> tr(580) @@ {"1"} :> tr(581)
                @@ {"2"} :> tr(582) @@ {":"} :> tr(584) @@ {"?"} :> tr(556) @@ {"["} :> tr(558))
       @@ 523 :> (reg_char :> st(523) @@ {"#"} :> tr(559) @@ {"%"} :> st(258)
                @@ {"/"} :> tr(560) @@ {":"} :> tr(561) @@ {"?"} :> tr(562))
       @@ 258 :> (xdigit :> st(259))
       @@ 259 :> (xdigit :> st(523))
       @@ 524 :> ((reg_char \ {"."}) :> st(523) @@ {"#"} :> tr(559) @@ {"%"} :> st(258)
                @@ {"."} :> st(525) @@ {"/"} :> tr(560) @@ {":"} :> tr(561) @@ {"?"} :> tr(562))]

St525_St529 ==
  [tr |-> None,
   st |-> 525 :> ((alpha \cup {"!", "+", "-", ".", "_"}) :> st(523)
                @@ {"3", "5", "9"} :> st(535) @@ {"x02"} :> st(233) @@ {"#"} :> tr(559)
                @@ {"%"} :> st(258) @@ {"/"} :> tr(560) @@ {"0"} :> st(526) @@ {"1"} :> st(534)
                @@ {"2"} :> st(536) @@ {":"} :> tr(561) @@ {"?"} :> tr(562))
       @@ 526 :> ((reg_char \ {"."}) :> st(523) @@ {"#"} :> tr(559) @@ {"%"} :> st(258)
                @@ {"."} :> st(527) @@ {"/"} :> tr(560) @@ {":"} :> tr(561) @@ {"?"} :> tr(562))
       @@ 527 :> ((alpha \cup {"!", "+", "-", ".", "_"}) :> st(523)
                @@ {"3", "5", "9"} :> st(531) @@ {"x02"} :> st(237) @@ {"#"} :> tr(559)
                @@ {"%"} :> st(258) @@ {"/"} :> tr(560) @@ {"0"} :> st(528) @@ {"1"} :> st(530)
                @@ {"2"} :> st(532) @@ {":"} :> tr(561) @@ {"?"} :> tr(562))
       @@ 528 :> ((reg_char \ {"."}) :> st(523) @@ {"#"} :> tr(559) @@ {"%"} :> st(258)
                @@ {"."} :> st(529) @@ {"/"} :> tr(560) @@ {":"} :> tr(561) @@ {"?"} :> tr(562))
       @@ 529 :> (reg_char :> st(523) @@ {"x02"} :> st(241) @@ {"#"} :> tr(559)
                @@ {"%"} :> st(258) @@ {"/"} :> tr(560) @@ {":"} :> tr(561) @@ {"?"} :> tr(562))]

St530_St534 ==
  [tr |-> None,
   st |-> 530 :> ((alpha \cup {"!", "+", "-", "_"}) :> st(523) @@ digit :> st(531)
                @@ {"#"} :> tr(559) @@ {"%"} :> st(258) @@ {"."} :> st(529) @@ {"/"} :> tr(560)
                @@ {":"} :> tr(561) @@ {"?"} :> tr(562))
       @@ 531 :> ((alpha \cup {"!", "+", "-", "_"}) :> st(523) @@ digit :> st(528)
                @@ {"#"} :> tr(559) @@ {"%"} :> st(258) @@ {"."} :> st(529) @@ {"/"} :> tr(560)
                @@ {":"} :> tr(561) @@ {"?"} :> tr(562))
       @@ 532 :> ((alpha \cup {"!", "+", "-", "_"}) :> st(523) @@ (digit \ {"5"}) :> st(528)
                @@ {"#"} :> tr(559) @@ {"%"} :> st(258) @@ {"."} :> st(529) @@ {"/"} :> tr(560)
                @@ {"5"} :> st(533) @@ {":"} :> tr(561) @@ {"?"} :> tr(562))
       @@ 533 :> ((alpha \cup {"!", "+", "-", "9", "_"}) :> st(523)
                @@ (digit \ {"9"}) :> st(528) @@ {"#"} :> tr(559) @@ {"%"} :> st(258)
                @@ {"."} :> st(529) @@ {"/"} :> tr(560) @@ {":"} :> tr(561) @@ {"?"} :> tr(562))
       @@ 534 :> ((alpha \cup {"!", "+", "-", "_"}) :> st(523) @@ digit :> st(535)
                @@ {"#"} :> tr(559) @@ {"%"} :> st(258) @@ {"."} :> st(527) @@ {"/"} :> tr(560)
                @@ {":"} :> tr(561) @@ {"?"} :> tr(562))]

St535_Tr583 ==
  [tr |-> 581 :> Do(<<"markh">>, 538) @@ 583 :> Do(<<"markh">>, 539),
   st |-> 535 :> ((alpha \cup {"!", "+", "-", "_"}) :> st(523) @@ digit :> st(526)
                @@ {"#"} :> tr(559) @@ {"%"} :> st(258) @@ {"."} :> st(527) @@ {"/"} :> tr(560)
                @@ {":"} :> tr(561) @@ {"?"} :> tr(562))
       @@ 536 :> ((alpha \cup {"!", "+", "-", "_"}) :> st(523) @@ (digit \ {"5"}) :> st(526)
                @@ {"#"} :> tr(559) @@ {"%"} :> st(258) @@ {"."} :> st(527) @@ {"/"} :> tr(560)
                @@ {"5"} :> st(537) @@ {":"} :> tr(561) @@ {"?"} :> tr(562))
       @@ 537 :> ((alpha \cup {"!", "+", "-", "9", "_"}) :> st(523)
                @@ (digit \ {"9"}) :> st(526) @@ {"#"} :> tr(559) @@ {"%"} :> st(258)
                @@ {"."} :> st(527) @@ {"/"} :> tr(560) @@ {":"} :> tr(561) @@ {"?"} :> tr(562))
       @@ 538 :> ((alpha \cup {"!", "+", "-", "_"}) :> st(523) @@ digit :> st(539)
                @@ {"#"} :> tr(559) @@ {"%"} :> st(258) @@ {"."} :> st(525) @@ {"/"} :> tr(560)
                @@ {":"} :> tr(561) @@ {"?"} :> tr(562))]

St539_St262 ==
  [tr |-> 582 :> Do(<<"markh">>, 540) @@ 558 :> Do(<<"markh">>, 260),
   st |-> 539 :> ((alpha \cup {"!", "+", "-", "_"}) :> st(523) @@ digit :> st(524)
                @@ {"#"} :> tr(559) @@ {"%"} :> st(258) @@ {"."} :> st(525) @@ {"/"} :> tr(560)
                @@ {":"} :> tr(561) @@ {"?"} :> tr(562))
       @@ 540 :> ((alpha \cup {"!", "+", "-", "_"}) :> st(523) @@ (digit \ {"5"}) :> st(524)
                @@ {"#"} :> tr(559) @@ {"%"} :> st(258) @@ {"."} :> st(525) @@ {"/"} :> tr(560)
                @@ {"5"} :> st(541) @@ {":"} :> tr(561) @@ {"?"} :> tr(562))
       @@ 541 :> ((alpha \cup {"!", "+", "-", "9", "_"}) :> st(523)
                @@ (digit \ {"9"}) :> st(524) @@ {"#"} :> tr(559) @@ {"%"} :> st(258)
                @@ {"."} :> st(525) @@ {"/"} :> tr(560) @@ {":"} :> tr(561) @@ {"?"} :> tr(562))
       @@ 260 :> (xdigit :> st(261) @@ {":"} :> st(368) @@ {"v"} :> st(447))
       @@ 261 :> (xdigit :> st(262) @@ {":"} :> st(265))
       @@ 262 :> (xdigit :> st(263) @@ {":"} :> st(265))]

St263_St273 ==
  [tr |-> None,
   st |-> 263 :> (xdigit :> st(264) @@ {":"} :> st(265))
       @@ 264 :> ({":"} :> st(265))
       @@ 265 :> (xdigit :> st(266) @@ {":"} :> st(363))
       @@ 266 :> (xdigit :> st(267) @@ {":"} :> st(270))
       @@ 267 :> (xdigit :> st(268) @@ {":"} :> st(270))
       @@ 268 :> (xdigit :> st(269) @@ {":"} :> st(270))
       @@ 269 :> ({":"} :> st(270))
       @@ 270 :> (xdigit :> st(271) @@ {":"} :> st(358))
       @@ 271 :> (xdigit :> st(272) @@ {":"} :> st(275))
       @@ 272 :> (xdigit :> st(273) @@ {":"} :> st(275))
       @@ 273 :> (xdigit :> st(274) @@ {":"} :> st(275))]

St274_St284 ==
  [tr |-> None,
   st |-> 274 :> ({":"} :> st(275))
       @@ 275 :> (xdigit :> st(276) @@ {":"} :> st(353))
       @@ 276 :> (xdigit :> st(277) @@ {":"} :> st(280))
       @@ 277 :> (xdigit :> st(278) @@ {":"} :> st(280))
       @@ 278 :> (xdigit :> st(279) @@ {":"} :> st(280))
       @@ 279 :> ({":"} :> st(280))
       @@ 280 :> (xdigit :> st(281) @@ {":"} :> st(348))
       @@ 281 :> (xdigit :> st(282) @@ {":"} :> st(285))
       @@ 282 :> (xdigit :> st(283) @@ {":"} :> st(285))
       @@ 283 :> (xdigit :> st(284) @@ {":"} :> st(285))
       @@ 284 :> ({":"} :> st(285))]

St285_St297 ==
  [tr |-> None,
   st |-> 285 :> (xdigit :> st(286) @@ {":"} :> st(335))
       @@ 286 :> (xdigit :> st(287) @@ {":"} :> st(290))
       @@ 287 :> (xdigit :> st(288) @@ {":"} :> st(290))
       @@ 288 :> (xdigit :> st(289) @@ {":"} :> st(290))
       @@ 289 :> ({":"} :> st(290))
       @@ 290 :> ({"3", "5", "9"} :> st(332) @@ {"x02"} :> st(291) @@ {"0"} :> st(318)
                @@ {"1"} :> st(326) @@ {"2"} :> st(329) @@ {":"} :> st(333) @@ {"a"} :> st(334))
       @@ 291 :> ((digit \ {"5", "9"}) :> st(292))
       @@ 292 :> (digit :> st(293))
       @@ 293 :> ({"."} :> st(294))
       @@ 294 :> ({"3", "5", "9"} :> st(315) @@ {"x02"} :> st(295) @@ {"0"} :> st(297)
                @@ {"1"} :> st(314) @@ {"2"} :> st(316))
       @@ 295 :> ((digit \ {"5", "9"}) :> st(296))
       @@ 296 :> (digit :> st(297))
       @@ 297 :> ({"."} :> st(298))]

St298_St313 ==
  [tr |-> None,
   st |-> 298 :> ({"3", "5", "9"} :> st(311) @@ {"x02"} :> st(299) @@ {"0"} :> st(301)
                @@ {"1"} :> st(310) @@ {"2"} :> st(312))
       @@ 299 :> ((digit \ {"5", "9"}) :> st(300))
       @@ 300 :> (digit :> st(301))
       @@ 301 :> ({"."} :> st(302))
       @@ 302 :> ({"3", "5", "9"} :> st(307) @@ {"x02"} :> st(303) @@ {"0"} :> st(305)
                @@ {"1"} :> st(306) @@ {"2"} :> st(308))
       @@ 303 :> ((digit \ {"5", "9"}) :> st(304))
       @@ 304 :> (digit :> st(305))
       @@ 305 :> ({"]"} :> st(512))
       @@ 306 :> (digit :> st(307) @@ {"]"} :> st(512))
       @@ 307 :> (digit :> st(305) @@ {"]"} :> st(512))
       @@ 308 :> ((digit \ {"5"}) :> st(305) @@ {"5"} :> st(309) @@ {"]"} :> st(512))
       @@ 309 :> ((digit \ {"9"}) :> st(305) @@ {"]"} :> st(512))
       @@ 310 :> (digit :> st(311) @@ {"."} :> st(302))
       @@ 311 :> (digit :> st(301) @@ {"."} :> st(302))
       @@ 312 :> ((digit \ {"5"}) :> st(301) @@ {"."} :> st(302) @@ {"5"} :> st(313))
       @@ 313 :> ((digit \ {"9"}) :> st(301) @@ {"."} :> st(302))]

St314_St324 ==
  [tr |-> None,
   st |-> 314 :> (digit :> st(315) @@ {"."} :> st(298))
       @@ 315 :> (digit :> st(297) @@ {"."} :> st(298))
       @@ 316 :> ((digit \ {"5"}) :> st(297) @@ {"."} :> st(298) @@ {"5"} :> st(317))
       @@ 317 :> ((digit \ {"9"}) :> st(297) @@ {"."} :> st(298))
       @@ 318 :> (xdigit :> st(319) @@ {"."} :> st(294) @@ {":"} :> st(322))
       @@ 319 :> (xdigit :> st(320) @@ {":"} :> st(322))
       @@ 320 :> (xdigit :> st(321) @@ {":"} :> st(322))
       @@ 321 :> ({":"} :> st(322))
       @@ 322 :> (xdigit :> st(323) @@ {":"} :> st(305))
       @@ 323 :> (xdigit :> st(324) @@ {"]"} :> st(512))
       @@ 324 :> (xdigit :> st(325) @@ {"]"} :> st(512))]

St325_St332 ==
  [tr |-> None,
   st |-> 325 :> (xdigit :> st(305) @@ {"]"} :> st(512))
       @@ 326 :> (digit :> st(327) @@ {"."} :> st(294) @@ {":"} :> st(322) @@ {"a"} :> st(319))
       @@ 327 :> (digit :> st(328) @@ {"."} :> st(294) @@ {":"} :> st(322) @@ {"a"} :> st(320))
       @@ 328 :> (xdigit :> st(321) @@ {"."} :> st(294) @@ {":"} :> st(322))
       @@ 329 :> ((digit \ {"5"}) :> st(330) @@ {"."} :> st(294) @@ {"5"} :> st(331)
                @@ {":"} :> st(322) @@ {"a"} :> st(319))
       @@ 330 :> (xdigit :> st(320) @@ {"."} :> st(294) @@ {":"} :> st(322))
       @@ 331 :> ((digit \ {"9"}) :> st(328) @@ {"9", "a"} :> st(320) @@ {"."} :> st(294)
                @@ {":"} :> st(322))
       @@ 332 :> (digit :> st(330) @@ {"."} :> st(294) @@ {":"} :> st(322) @@ {"a"} :> st(319))]

St333_St341 ==
  [tr |-> None,
   st |-> 333 :> (xdigit :> st(323))
       @@ 334 :> (xdigit :> st(319) @@ {":"} :> st(322))
       @@ 335 :> ({"3", "5", "9"} :> st(346) @@ {"x02"} :> st(291) @@ {"0"} :> st(336)
                @@ {"1"} :> st(340) @@ {"2"} :> st(343) @@ {"a"} :> st(347))
       @@ 336 :> (xdigit :> st(337) @@ {"."} :> st(294) @@ {":"} :> st(333))
       @@ 337 :> (xdigit :> st(338) @@ {":"} :> st(333))
       @@ 338 :> (xdigit :> st(339) @@ {":"} :> st(333))
       @@ 339 :> ({":"} :> st(333))
       @@ 340 :> (digit :> st(341) @@ {"."} :> st(294) @@ {":"} :> st(333) @@ {"a"} :> st(337))
       @@ 341 :> (digit :> st(342) @@ {"."} :> st(294) @@ {":"} :> st(333) @@ {"a"} :> st(338))]

St342_St350 ==
  [tr |-> None,
   st |-> 342 :> (xdigit :> st(339) @@ {"."} :> st(294) @@ {":"} :> st(333))
       @@ 343 :> ((digit \ {"5"}) :> st(344) @@ {"."} :> st(294) @@ {"5"} :> st(345)
                @@ {":"} :> st(333) @@ {"a"} :> st(337))
       @@ 344 :> (xdigit :> st(338) @@ {"."} :> st(294) @@ {":"} :> st(333))
       @@ 345 :> ((digit \ {"9"}) :> st(342) @@ {"9", "a"} :> st(338) @@ {"."} :> st(294)
                @@ {":"} :> st(333))
       @@ 346 :> (digit :> st(344) @@ {"."} :> st(294) @@ {":"} :> st(333) @@ {"a"} :> st(337))
       @@ 347 :> (xdigit :> st(337) @@ {":"} :> st(333))
       @@ 348 :> (xdigit :> st(349))
       @@ 349 :> (xdigit :> st(350) @@ {":"} :> st(335))
       @@ 350 :> (xdigit :> st(351) @@ {":"} :> st(335))]

St351_St361 ==
  [tr |-> None,
   st |-> 351 :> (xdigit :> st(352) @@ {":"} :> st(335))
       @@ 352 :> ({":"} :> st(335))
       @@ 353 :> (xdigit :> st(354))
       @@ 354 :> (xdigit :> st(355) @@ {":"} :> st(348))
       @@ 355 :> (xdigit :> st(356) @@ {":"} :> st(348))
       @@ 356 :> (xdigit :> st(357) @@ {":"} :> st(348))
       @@ 357 :> ({":"} :> st(348))
       @@ 358 :> (xdigit :> st(359))
       @@ 359 :> (xdigit :> st(360) @@ {":"} :> st(353))
       @@ 360 :> (xdigit :> st(361) @@ {":"} :> st(353))
       @@ 361 :> (xdigit :> st(362) @@ {":"} :> st(353))]

St362_St371 ==
  [tr |-> None,
   st |-> 362 :> ({":"} :> st(353))
       @@ 363 :> (xdigit :> st(364))
       @@ 364 :> (xdigit :> st(365) @@ {":"} :> st(358))
       @@ 365 :> (xdigit :> st(366) @@ {":"} :> st(358))
       @@ 366 :> (xdigit :> st(367) @@ {":"} :> st(358))
       @@ 367 :> ({":"} :> st(358))
       @@ 368 :> ({":"} :> st(369))
       @@ 369 :> ({"3", "5", "9"} :> st(445) @@ {"x02"} :> st(291) @@ {"0"} :> st(370)
                @@ {"1"} :> st(439) @@ {"2"} :> st(442) @@ {"a"} :> st(446) @@ {"]"} :> st(512))
       @@ 370 :> (xdigit :> st(371) @@ {"."} :> st(294) @@ {":"} :> st(374) @@ {"]"} :> st(512))
       @@ 371 :> (xdigit :> st(372) @@ {":"} :> st(374) @@ {"]"} :> st(512))]

St372_St380 ==
  [tr |-> None,
   st |-> 372 :> (xdigit :> st(373) @@ {":"} :> st(374) @@ {"]"} :> st(512))
       @@ 373 :> ({":"} :> st(374) @@ {"]"} :> st(512))
       @@ 374 :> ({"3", "5", "9"} :> st(437) @@ {"x02"} :> st(291) @@ {"0"} :> st(375)
                @@ {"1"} :> st(431) @@ {"2"} :> st(434) @@ {"a"} :> st(438))
       @@ 375 :> (xdigit :> st(376) @@ {"."} :> st(294) @@ {":"} :> st(379) @@ {"]"} :> st(512))
       @@ 376 :> (xdigit :> st(377) @@ {":"} :> st(379) @@ {"]"} :> st(512))
       @@ 377 :> (xdigit :> st(378) @@ {":"} :> st(379) @@ {"]"} :> st(512))
       @@ 378 :> ({":"} :> st(379) @@ {"]"} :> st(512))
       @@ 379 :> ({"3", "5", "9"} :> st(429) @@ {"x02"} :> st(291) @@ {"0"} :> st(380)
                @@ {"1"} :> st(423) @@ {"2"} :> st(426) @@ {"a"} :> st(430))
       @@ 380 :> (xdigit :> st(381) @@ {"."} :> st(294) @@ {":"} :> st(384) @@ {"]"} :> st(512))]

St381_St389 ==
  [tr |-> None,
   st |-> 381 :> (xdigit :> st(382) @@ {":"} :> st(384) @@ {"]"} :> st(512))
       @@ 382 :> (xdigit :> st(383) @@ {":"} :> st(384) @@ {"]"} :> st(512))
       @@ 383 :> ({":"} :> st(384) @@ {"]"} :> st(512))
       @@ 384 :> ({"3", "5", "9"} :> st(421) @@ {"x02"} :> st(291) @@ {"0"} :> st(385)
                @@ {"1"} :> st(415) @@ {"2"} :> st(418) @@ {"a"} :> st(422))
       @@ 385 :> (xdigit :> st(386) @@ {"."} :> st(294) @@ {":"} :> st(389) @@ {"]"} :> st(512))
       @@ 386 :> (xdigit :> st(387) @@ {":"} :> st(389) @@ {"]"} :> st(512))
       @@ 387 :> (xdigit :> st(388) @@ {":"} :> st(389) @@ {"]"} :> st(512))
       @@ 388 :> ({":"} :> st(389) @@ {"]"} :> st(512))
       @@ 389 :> ({"3", "5", "9"} :> st(413) @@ {"x02"} :> st(291) @@ {"0"} :> st(390)
                @@ {"1"} :> st(407) @@ {"2"} :> st(410) @@ {"a"} :> st(414))]

St390_St398 ==
  [tr |-> None,
   st |-> 390 :> (xdigit :> st(391) @@ {"."} :> st(294) @@ {":"} :> st(394) @@ {"]"} :> st(512))
       @@ 391 :> (xdigit :> st(392) @@ {":"} :> st(394) @@ {"]"} :> st(512))
       @@ 392 :> (xdigit :> st(393) @@ {":"} :> st(394) @@ {"]"} :> st(512))
       @@ 393 :> ({":"} :> st(394) @@ {"]"} :> st(512))
       @@ 394 :> ({"3", "5", "9"} :> st(405) @@ {"x02"} :> st(291) @@ {"0"} :> st(395)
                @@ {"1"} :> st(399) @@ {"2"} :> st(402) @@ {"a"} :> st(406))
       @@ 395 :> (xdigit :> st(396) @@ {"."} :> st(294) @@ {":"} :> st(333) @@ {"]"} :> st(512))
       @@ 396 :> (xdigit :> st(397) @@ {":"} :> st(333) @@ {"]"} :> st(512))
       @@ 397 :> (xdigit :> st(398) @@ {":"} :> st(333) @@ {"]"} :> st(512))
       @@ 398 :> ({":"} :> st(333) @@ {"]"} :> st(512))]

St399_St406 ==
  [tr |-> None,
   st |-> 399 :> (digit :> st(400) @@ {"."} :> st(294) @@ {":"} :> st(333) @@ {"a"} :> st(396)
                @@ {"]"} :> st(512))
       @@ 400 :> (digit :> st(401) @@ {"."} :> st(294) @@ {":"} :> st(333) @@ {"a"} :> st(397)
                @@ {"]"} :> st(512))
       @@ 401 :> (xdigit :> st(398) @@ {"."} :> st(294) @@ {":"} :> st(333) @@ {"]"} :> st(512))
       @@ 402 :> ((digit \ {"5"}) :> st(403) @@ {"."} :> st(294) @@ {"5"} :> st(404)
                @@ {":"} :> st(333) @@ {"a"} :> st(396) @@ {"]"} :> st(512))
       @@ 403 :> (xdigit :> st(397) @@ {"."} :> st(294) @@ {":"} :> st(333) @@ {"]"} :> st(512))
       @@ 404 :> ((digit \ {"9"}) :> st(401) @@ {"9", "a"} :> st(397) @@ {"."} :> st(294)
                @@ {":"} :> st(333) @@ {"]"} :> st(512))
       @@ 405 :> (digit :> st(403) @@ {"."} :> st(294) @@ {":"} :> st(333) @@ {"a"} :> st(396)
                @@ {"]"} :> st(512))
       @@ 406 :> (xdigit :> st(396) @@ {":"} :> st(333) @@ {"]"} :> st(512))]

St407_St414 ==
  [tr |-> None,
   st |-> 407 :> (digit :> st(408) @@ {"."} :> st(294) @@ {":"} :> st(394) @@ {"a"} :> st(391)
                @@ {"]"} :> st(512))
       @@ 408 :> (digit :> st(409) @@ {"."} :> st(294) @@ {":"} :> st(394) @@ {"a"} :> st(392)
                @@ {"]"} :> st(512))
       @@ 409 :> (xdigit :> st(393) @@ {"."} :> st(294) @@ {":"} :> st(394) @@ {"]"} :> st(512))
       @@ 410 :> ((digit \ {"5"}) :> st(411) @@ {"."} :> st(294) @@ {"5"} :> st(412)
                @@ {":"} :> st(394) @@ {"a"} :> st(391) @@ {"]"} :> st(512))
       @@ 411 :> (xdigit :> st(392) @@ {"."} :> st(294) @@ {":"} :> st(394) @@ {"]"} :> st(512))
       @@ 412 :> ((digit \ {"9"}) :> st(409) @@ {"9", "a"} :> st(392) @@ {"."} :> st(294)
                @@ {":"} :> st(394) @@ {"]"} :> st(512))
       @@ 413 :> (digit :> st(411) @@ {"."} :> st(294) @@ {":"} :> st(394) @@ {"a"} :> st(391)
                @@ {"]"} :> st(512))
       @@ 414 :> (xdigit :> st(391) @@ {":"} :> st(394) @@ {"]"} :> st(512))]

St415_St422 ==
  [tr |-> None,
   st |-> 415 :> (digit :> st(416) @@ {"."} :> st(294) @@ {":"} :> st(389) @@ {"a"} :> st(386)
                @@ {"]"} :> st(512))
       @@ 416 :> (digit :> st(417) @@ {"."} :> st(294) @@ {":"} :> st(389) @@ {"a"} :> st(387)
                @@ {"]"} :> st(512))
       @@ 417 :> (xdigit :> st(388) @@ {"."} :> st(294) @@ {":"} :> st(389) @@ {"]"} :> st(512))
       @@ 418 :> ((digit \ {"5"}) :> st(419) @@ {"."} :> st(294) @@ {"5"} :> st(420)
                @@ {":"} :> st(389) @@ {"a"} :> st(386) @@ {"]"} :> st(512))
       @@ 419 :> (xdigit :> st(387) @@ {"."} :> st(294) @@ {":"} :> st(389) @@ {"]"} :> st(512))
       @@ 420 :> ((digit \ {"9"}) :> st(417) @@ {"9", "a"} :> st(387) @@ {"."} :> st(294)
                @@ {":"} :> st(389) @@ {"]"} :> st(512))
       @@ 421 :> (digit :> st(419) @@ {"."} :> st(294) @@ {":"} :> st(389) @@ {"a"} :> st(386)
                @@ {"]"} :> st(512))
       @@ 422 :> (xdigit :> st(386) @@ {":"} :> st(389) @@ {"]"} :> st(512))]

St423_St430 ==
  [tr |-> None,
   st |-> 423 :> (digit :> st(424) @@ {"."} :> st(294) @@ {":"} :> st(384) @@ {"a"} :> st(381)
                @@ {"]"} :> st(512))
       @@ 424 :> (digit :> st(425) @@ {"."} :> st(294) @@ {":"} :> st(384) @@ {"a"} :> st(382)
                @@ {"]"} :> st(512))
       @@ 425 :> (xdigit :> st(383) @@ {"."} :> st(294) @@ {":"} :> st(384) @@ {"]"} :> st(512))
       @@ 426 :> ((digit \ {"5"}) :> st(427) @@ {"."} :> st(294) @@ {"5"} :> st(428)
                @@ {":"} :> st(384) @@ {"a"} :> st(381) @@ {"]"} :> st(512))
       @@ 427 :> (xdigit :> st(382) @@ {"."} :> st(294) @@ {":"} :> st(384) @@ {"]"} :> st(512))
       @@ 428 :> ((digit \ {"9"}) :> st(425) @@ {"9", "a"} :> st(382) @@ {"."} :> st(294)
                @@ {":"} :> st(384) @@ {"]"} :> st(512))
       @@ 429 :> (digit :> st(427) @@ {"."} :> st(294) @@ {":"} :> st(384) @@ {"a"} :> st(381)
                @@ {"]"} :> st(512))
       @@ 430 :> (xdigit :> st(381) @@ {":"} :> st(384) @@ {"]"} :> st(512))]

St431_St438 ==
  [tr |-> None,
   st |-> 431 :> (digit :> st(432) @@ {"."} :> st(294) @@ {":"} :> st(379) @@ {"a"} :> st(376)
                @@ {"]"} :> st(512))
       @@ 432 :> (digit :> st(433) @@ {"."} :> st(294) @@ {":"} :> st(379) @@ {"a"} :> st(377)
                @@ {"]"} :> st(512))
       @@ 433 :> (xdigit :> st(378) @@ {"."} :> st(294) @@ {":"} :> st(379) @@ {"]"} :> st(512))
       @@ 434 :> ((digit \ {"5"}) :> st(435) @@ {"."} :> st(294) @@ {"5"} :> st(436)
                @@ {":"} :> st(379) @@ {"a"} :> st(376) @@ {"]"} :> st(512))
       @@ 435 :> (xdigit :> st(377) @@ {"."} :> st(294) @@ {":"} :> st(379) @@ {"]"} :> st(512))
       @@ 436 :> ((digit \ {"9"}) :> st(433) @@ {"9", "a"} :> st(377) @@ {"."} :> st(294)
                @@ {":"} :> st(379) @@ {"]"} :> st(512))
       @@ 437 :> (digit :> st(435) @@ {"."} :> st(294) @@ {":"} :> st(379) @@ {"a"} :> st(376)
                @@ {"]"} :> st(512))
       @@ 438 :> (xdigit :> st(376) @@ {":"} :> st(379) @@ {"]"} :> st(512))]

St439_St446 ==
  [tr |-> None,
   st |-> 439 :> (digit :> st(440) @@ {"."} :> st(294) @@ {":"} :> st(374) @@ {"a"} :> st(371)
                @@ {"]"} :> st(512))
       @@ 440 :> (digit :> st(441) @@ {"."} :> st(294) @@ {":"} :> st(374) @@ {"a"} :> st(372)
                @@ {"]"} :> st(512))
       @@ 441 :> (xdigit :> st(373) @@ {"."} :> st(294) @@ {":"} :> st(374) @@ {"]"} :> st(512))
       @@ 442 :> ((digit \ {"5"}) :> st(443) @@ {"."} :> st(294) @@ {"5"} :> st(444)
                @@ {":"} :> st(374) @@ {"a"} :> st(371) @@ {"]"} :> st(512))
       @@ 443 :> (xdigit :> st(372) @@ {"."} :> st(294) @@ {":"} :> st(374) @@ {"]"} :> st(512))
       @@ 444 :> ((digit \ {"9"}) :> st(441) @@ {"9", "a"} :> st(372) @@ {"."} :> st(294)
                @@ {":"} :> st(374) @@ {"]"} :> st(512))
       @@ 445 :> (digit :> st(443) @@ {"."} :> st(294) @@ {":"} :> st(374) @@ {"a"} :> st(371)
                @@ {"]"} :> st(512))
       @@ 446 :> (xdigit :> st(371) @@ {":"} :> st(374) @@ {"]"} :> st(512))]

St447_St543 ==
  [tr |-> 577 :> Do(<<"markh">>, 542) @@ 551 :> Do(<<"markh">>, 543),
   st |-> 447 :> (xdigit :> st(448))
       @@ 448 :> (xdigit :> st(448) @@ {"."} :> st(449))
       @@ 449 :> ((reg_char \cup {":"}) :> st(450))
       @@ 450 :> ((reg_char \cup {":"}) :> st(450) @@ {"]"} :> st(512))
       @@ 542 :> ((alpha \cup {"!", "+", "-", ".", ":", "_"}) :> st(255) @@ digit :> st(542)
                @@ {"#"} :> tr(570) @@ {"%"} :> st(256) @@ {"/"} :> tr(571) @@ {"?"} :> tr(573)
                @@ {"@"} :> tr(263))
       @@ 543 :> ((reg_char \ {"."}) :> st(520) @@ {"#"} :> tr(559) @@ {"%"} :> st(253)
                @@ {"."} :> st(544) @@ {"/"} :> tr(560) @@ {":"} :> tr(576) @@ {"?"} :> tr(562)
                @@ {"@"} :> tr(263))]

St544_St548 ==
  [tr |-> None,
   st |-> 544 :> ((alpha \cup {"!", "+", "-", ".", "_"}) :> st(520)
                @@ {"3", "5", "9"} :> st(554) @@ {"x02"} :> st(233) @@ {"#"} :> tr(559)
                @@ {"%"} :> st(253) @@ {"/"} :> tr(560) @@ {"0"} :> st(545) @@ {"1"} :> st(553)
                @@ {"2"} :> st(555) @@ {":"} :> tr(576) @@ {"?"} :> tr(562) @@ {"@"} :> tr(263))
       @@ 545 :> ((reg_char \ {"."}) :> st(520) @@ {"#"} :> tr(559) @@ {"%"} :> st(253)
                @@ {"."} :> st(546) @@ {"/"} :> tr(560) @@ {":"} :> tr(576) @@ {"?"} :> tr(562)
                @@ {"@"} :> tr(263))
       @@ 546 :> ((alpha \cup {"!", "+", "-", ".", "_"}) :> st(520)
                @@ {"3", "5", "9"} :> st(550) @@ {"x02"} :> st(237) @@ {"#"} :> tr(559)
                @@ {"%"} :> st(253) @@ {"/"} :> tr(560) @@ {"0"} :> st(547) @@ {"1"} :> st(549)
                @@ {"2"} :> st(551) @@ {":"} :> tr(576) @@ {"?"} :> tr(562) @@ {"@"} :> tr(263))
       @@ 547 :> ((reg_char \ {"."}) :> st(520) @@ {"#"} :> tr(559) @@ {"%"} :> st(253)
                @@ {"."} :> st(548) @@ {"/"} :> tr(560) @@ {":"} :> tr(576) @@ {"?"} :> tr(562)
                @@ {"@"} :> tr(263))
       @@ 548 :> (reg_char :> st(520) @@ {"x02"} :> st(241) @@ {"#"} :> tr(559)
                @@ {"%"} :> st(253) @@ {"/"} :> tr(560) @@ {":"} :> tr(576) @@ {"?"} :> tr(562)
                @@ {"@"} :> tr(263))]

St549_St552 ==
  [tr |-> None,
   st |-> 549 :> ((alpha \cup {"!", "+", "-", "_"}) :> st(520) @@ digit :> st(550)
                @@ {"#"} :> tr(559) @@ {"%"} :> st(253) @@ {"."} :> st(548) @@ {"/"} :> tr(560)
                @@ {":"} :> tr(576) @@ {"?"} :> tr(562) @@ {"@"} :> tr(263))
       @@ 550 :> ((alpha \cup {"!", "+", "-", "_"}) :> st(520) @@ digit :> st(547)
                @@ {"#"} :> tr(559) @@ {"%"} :> st(253) @@ {"."} :> st(548) @@ {"/"} :> tr(560)
                @@ {":"} :> tr(576) @@ {"?"} :> tr(562) @@ {"@"} :> tr(263))
       @@ 551 :> ((alpha \cup {"!", "+", "-", "_"}) :> st(520) @@ (digit \ {"5"}) :> st(547)
                @@ {"#"} :> tr(559) @@ {"%"} :> st(253) @@ {"."} :> st(548) @@ {"/"} :> tr(560)
                @@ {"5"} :> st(552) @@ {":"} :> tr(576) @@ {"?"} :> tr(562) @@ {"@"} :> tr(263))
       @@ 552 :> ((alpha \cup {"!", "+", "-", "9", "_"}) :> st(520)
                @@ (digit \ {"9"}) :> st(547) @@ {"#"} :> tr(559) @@ {"%"} :> st(253)
                @@ {"."} :> st(548) @@ {"/"} :> tr(560) @@ {":"} :> tr(576) @@ {"?"} :> tr(562)
                @@ {"@"} :> tr(263))]

St553_Tr552 ==
  [tr |-> 552 :> Do(<<"markh">>, 557),
   st |-> 553 :> ((alpha \cup {"!", "+", "-", "_"}) :> st(520) @@ digit :> st(554)
                @@ {"#"} :> tr(559) @@ {"%"} :> st(253) @@ {"."} :> st(546) @@ {"/"} :> tr(560)
                @@ {":"} :> tr(576) @@ {"?"} :> tr(562) @@ {"@"} :> tr(263))
       @@ 554 :> ((alpha \cup {"!", "+", "-", "_"}) :> st(520) @@ digit :> st(545)
                @@ {"#"} :> tr(559) @@ {"%"} :> st(253) @@ {"."} :> st(546) @@ {"/"} :> tr(560)
                @@ {":"} :> tr(576) @@ {"?"} :> tr(562) @@ {"@"} :> tr(263))
       @@ 555 :> ((alpha \cup {"!", "+", "-", "_"}) :> st(520) @@ (digit \ {"5"}) :> st(545)
                @@ {"#"} :> tr(559) @@ {"%"} :> st(253) @@ {"."} :> st(546) @@ {"/"} :> tr(560)
                @@ {"5"} :> st(556) @@ {":"} :> tr(576) @@ {"?"} :> tr(562) @@ {"@"} :> tr(263))
       @@ 556 :> ((alpha \cup {"!", "+", "-", "9", "_"}) :> st(520)
                @@ (digit \ {"9"}) :> st(545) @@ {"#"} :> tr(559) @@ {"%"} :> st(253)
                @@ {"."} :> st(546) @@ {"/"} :> tr(560) @@ {":"} :> tr(576) @@ {"?"} :> tr(562)
                @@ {"@"} :> tr(263))]

St557_St560 ==
  [tr |-> 554 :> Do(<<"markh">>, 558) @@ 553 :> Do(<<"markh">>, 559),
   st |-> 557 :> ((alpha \cup {"!", "+", "-", "_"}) :> st(520) @@ digit :> st(558)
                @@ {"#"} :> tr(559) @@ {"%"} :> st(253) @@ {"."} :> st(544) @@ {"/"} :> tr(560)
                @@ {":"} :> tr(576) @@ {"?"} :> tr(562) @@ {"@"} :> tr(263))
       @@ 558 :> ((alpha \cup {"!", "+", "-", "_"}) :> st(520) @@ digit :> st(543)
                @@ {"#"} :> tr(559) @@ {"%"} :> st(253) @@ {"."} :> st(544) @@ {"/"} :> tr(560)
                @@ {":"} :> tr(576) @@ {"?"} :> tr(562) @@ {"@"} :> tr(263))
       @@ 559 :> ((alpha \cup {"!", "+", "-", "_"}) :> st(520) @@ (digit \ {"5"}) :> st(543)
                @@ {"#"} :> tr(559) @@ {"%"} :> st(253) @@ {"."} :> st(544) @@ {"/"} :> tr(560)
                @@ {"5"} :> st(560) @@ {":"} :> tr(576) @@ {"?"} :> tr(562) @@ {"@"} :> tr(263))
       @@ 560 :> ((alpha \cup {"!", "+", "-", "9", "_"}) :> st(520)
                @@ (digit \ {"9"}) :> st(543) @@ {"#"} :> tr(559) @@ {"%"} :> st(253)
                @@ {"."} :> st(544) @@ {"/"} :> tr(560) @@ {":"} :> tr(576) @@ {"?"} :> tr(562)
                @@ {"@"} :> tr(263))]

Blocks ==
    <<St451_Tr559, Tr563_St3, St4_Tr496, Tr556_St7, St8_St16, St17_St465, St466_St32,
      Tr481_Tr483, St469_St471, St472_St476, St477_St481, St482_Tr506, St486_St40,
      St41_St51, St52_St62, St63_St75, St76_St91, St92_St102, St103_St110,
      St111_St119, St120_St128, St129_St139, St140_St149, St150_St158, St159_St167,
      St168_St176, St177_St184, St185_St192, St193_St200, St201_St208, St209_St216,
      St217_St224, St225_St490, St491_St495, St496_St499, St500_Tr478, St504_Tr461,
      St508_St230, St231_Tr560, Tr571_St517, St518_Tr549, St253_Tr557, St522_St524,
      St525_St529, St530_St534, St535_Tr583, St539_St262, St263_St273, St274_St284,
      St285_St297, St298_St313, St314_St324, St325_St332, St333_St341, St342_St350,
      St351_St361, St362_St371, St372_St380, St381_St389, St390_St398, St399_St406,
      St407_St414, St415_St422, St423_St430, St431_St438, St439_St446, St447_St543,
      St544_St548, St549_St552, St553_Tr552, St557_St560>>
Machine == [st |-> Merge(Blocks, "st"), tr |-> Merge(Blocks, "tr")]

\* The actions performed when the input ends in a state.
EndOfInput ==
    [n \in {462, 489} |-> <<"save_port">>]
    @@ [n \in {460} \cup 463..467 \cup 470..488 \cup 490..507 |-> <<"save_host">>]
    @@ 513 :> <<"save_path">> @@ 457 :> <<"save_query">> @@ 454 :> <<"save_fragment">>
    @@ 456 :> <<"marku", "save_query">> @@ 453 :> <<"marku", "save_fragment">>
    @@ [n \in {461, 468} |-> <<"markh", "save_port">>]
    @@ [n \in {459, 469} |-> <<"markh", "save_host">>]
    @@ [n \in {514, 521} |-> <<"markh", "save_port", "save_path">>]
    @@ [n \in {511, 522} |-> <<"markh", "save_host", "save_path">>]
    @@ [n \in {515, 542} |-> <<"save_port", "markh", "save_path">>]
    @@ [n \in {512} \cup 516..520 \cup 523..541 \cup 543..560 |->
            <<"save_host", "markh", "save_path">>]

=============================================================================
