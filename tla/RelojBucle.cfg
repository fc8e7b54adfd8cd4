CONSTANT N = 4
SPECIFICATION Spec
CHECK_DEADLOCK FALSE
INVARIANTS EligeLaDelReloj RespetaLasClases
PROPERTIES SiempreElige
