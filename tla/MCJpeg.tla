-------------------------------- MODULE MCJpeg --------------------------------
(* Model checking of JpegEncoder: frame contents by name.                       *)
EXTENDS JpegEncoder

(* A slow ramp, an edge every few bytes, and a chequerboard.                    *)
MCSource(pattern, k) ==
  CASE pattern = "ramp"  -> (3 * k) % 256
    [] pattern = "edges" -> IF (k \div 9) % 2 = 0 THEN 250 ELSE 5
    [] pattern = "grid"  -> IF (k + k \div 18) % 2 = 0 THEN 160 ELSE 90

===============================================================================
