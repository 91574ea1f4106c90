------------------------------ MODULE MCSaveData ------------------------------
(* Two chips of a word and of two, and disks of one word: one as it is dumped  *)
(* and what a game that wrote a byte of it may have made of it.                *)
EXTENDS SaveData

MCChips == <<"save.eeprom", "save.ram">>
MCChipSize == <<4, 8>>
MCDisks == {<<0, 1, 1, 0>>, <<1, 1, 1, 0>>, <<0, 1, 1, 1>>}
=============================================================================
