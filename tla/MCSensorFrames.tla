---------------------------- MODULE MCSensorFrames ----------------------------
(* Small instances of SensorFrames: a buffer of five bytes, two payload     *)
(* bytes in a line-option frame and one gray value.                        *)
EXTENDS SensorFrames

\* 0xAA, 0xFE, 0x55, 0x02, 0x01 and 0xFF: gray frames of one and of two
\* payload bytes, option modules with fillers, a mechanic frame with a right
\* sum (0x01 0xFF) and many with a wrong one, the mechanic header that wraps
\* the counter, and declared lengths that outgrow the buffer.
Sensors == {170, 254, 85, 2, 1, 255}

\* 'w', 'h', 0x17, 0x74, 0xAA, 0x55: 0x17 0x74 0x74 is a payload with a right
\* sum, every other one is wrong; gray and option frames outgrow the buffer.
LineOption == {119, 104, 23, 116, 170, 85}

\* With a gray frame of one payload byte.
WithOdd == {170, 85, 1, 3}

\* With the mechanic header 0xFF.
WithFF == {170, 255, 2}

=============================================================================
